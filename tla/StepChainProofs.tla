---------------------------- MODULE StepChainProofs ----------------------------
(***************************************************************************)
(* Proofs about the chain of processors (StepChain), for every pipeline,   *)
(* however deep its steps call one another and however often they retry.   *)
(*                                                                         *)
(* Shape says which form contexts, frames and threads have: where a frame  *)
(* stands and what the processors of its step have kept.  AllStreams says  *)
(* whose writers the context of a thread may hold, those that the          *)
(* processors have kept to restore included.  Both are inductive together. *)
(***************************************************************************)
EXTENDS StepChain, SequenceTheorems, WellFoundedInduction, TLAPS

\* The processors that step has, and those it has entered before, and up to, p.
Before(step, p) == {q \in Processors(step) : Order[q] < Order[p]}
UpTo(step, p) == {q \in Processors(step) : Order[q] <= Order[p]}

AllProcessors == DOMAIN Order

LEMMA OrderType ==
    /\ AllProcessors = {"recover", "retry", "result", "inputs", "env", "secret", "outputs",
          "matrix", "output", "blacklist", "soft", "done", "if", "template", "needs",
          "redirect", "run", "inherit", "and", "concurrent", "end"}
    /\ \A p \in AllProcessors : Order[p] \in 1 .. 21
  BY DEF Order, AllProcessors

LEMMA OrderInjective ==
    \A p, q \in AllProcessors : Order[p] = Order[q] => p = q
<1> SUFFICES ASSUME NEW p \in AllProcessors, NEW q \in AllProcessors, Order[p] = Order[q]
             PROVE p = q
  OBVIOUS
<1> QED BY DEF Order, AllProcessors

LEMMA ProcessorsType ==
    ASSUME NEW step
    PROVE /\ Processors(step) \subseteq AllProcessors
          /\ {"recover", "result", "env", "secret", "template", "end"} \subseteq Processors(step)
  BY OrderType DEF Processors

LEMMA InnerType ==
    ASSUME NEW step, NEW p \in Processors(step), p # "end"
    PROVE /\ Inner(step, p) \in Processors(step)
          /\ Order[p] < Order[Inner(step, p)]
          /\ \A r \in Processors(step) :
                Order[p] < Order[r] => Order[Inner(step, p)] <= Order[r]
<1> DEFINE Later == {q \in Processors(step) : Order[p] < Order[q]}
           Places == {Order[q] : q \in Later}
<1>1. /\ Processors(step) \subseteq AllProcessors
      /\ \A q \in AllProcessors : Order[q] \in Nat
  BY ProcessorsType, OrderType
<1>2. "end" \in Later
  <2>1. Order[p] < 21
    BY <1>1, OrderType, OrderInjective DEF Order
  <2> QED BY <2>1, ProcessorsType DEF Order
<1>3. Places \subseteq Nat /\ Places # {}
  BY <1>1, <1>2
<1>4. PICK least \in Places : \A n \in Places : <<n, least>> \notin OpToRel(<, Nat)
  BY <1>3, NatLessThanWellFounded, WFMin
<1>5. PICK q \in Later : least = Order[q]
  BY <1>4
<1>6. \A r \in Processors(step) : Order[p] < Order[r] => Order[q] <= Order[r]
  <2> TAKE r \in Processors(step)
  <2> HAVE Order[p] < Order[r]
  <2>1. Order[r] \in Places
    OBVIOUS
  <2>2. ~(Order[r] < least)
    BY <1>3, <1>4, <2>1 DEF OpToRel
  <2> QED BY <1>1, <1>5, <2>2
<1> HIDE DEF Later, Places
<1>7. \E x \in Processors(step) :
        /\ Order[p] < Order[x]
        /\ \A r \in Processors(step) : Order[p] < Order[r] => Order[x] <= Order[r]
  BY <1>5, <1>6 DEF Later
<1> QED BY <1>7 DEF Inner

LEMMA OuterType ==
    ASSUME NEW step, NEW p \in Processors(step), p # "recover"
    PROVE /\ Outer(step, p) \in Processors(step)
          /\ Order[Outer(step, p)] < Order[p]
          /\ \A r \in Processors(step) :
                Order[r] < Order[p] => Order[r] <= Order[Outer(step, p)]
<1> DEFINE Earlier == {q \in Processors(step) : Order[q] < Order[p]}
           Places == {21 - Order[q] : q \in Earlier}
<1>1. /\ Processors(step) \subseteq AllProcessors
      /\ \A q \in AllProcessors : Order[q] \in 1 .. 21
  BY ProcessorsType, OrderType
<1>2. "recover" \in Earlier
  <2>1. 1 < Order[p]
    BY <1>1, OrderType, OrderInjective DEF Order
  <2> QED BY <2>1, ProcessorsType DEF Order
<1>3. Places \subseteq Nat /\ Places # {}
  BY <1>1, <1>2
<1>4. PICK least \in Places : \A n \in Places : <<n, least>> \notin OpToRel(<, Nat)
  BY <1>3, NatLessThanWellFounded, WFMin
<1>5. PICK q \in Earlier : least = 21 - Order[q]
  BY <1>4
<1>6. \A r \in Processors(step) : Order[r] < Order[p] => Order[r] <= Order[q]
  <2> TAKE r \in Processors(step)
  <2> HAVE Order[r] < Order[p]
  <2>1. 21 - Order[r] \in Places
    OBVIOUS
  <2>2. ~(21 - Order[r] < least)
    BY <1>3, <1>4, <2>1 DEF OpToRel
  <2> QED BY <1>1, <1>5, <2>2
<1> HIDE DEF Earlier, Places
<1>7. \E x \in Processors(step) :
        /\ Order[x] < Order[p]
        /\ \A r \in Processors(step) : Order[r] < Order[p] => Order[r] <= Order[x]
  BY <1>5, <1>6 DEF Earlier
<1> QED BY <1>7 DEF Outer

\* A processor is entered or left at a time.
LEMMA EnteredNext ==
    ASSUME NEW step, NEW p \in Processors(step), p # "end"
    PROVE /\ Before(step, Inner(step, p)) = Before(step, p) \cup {p}
          /\ UpTo(step, p) = Before(step, p) \cup {p}
          /\ p \notin Before(step, p)
          /\ Inner(step, p) \notin UpTo(step, p)
<1>1. /\ Processors(step) \subseteq AllProcessors
      /\ \A q \in AllProcessors : Order[q] \in 1 .. 21
  BY ProcessorsType, OrderType
<1>2. \A q \in Processors(step) : Order[q] = Order[p] => q = p
  BY <1>1, OrderInjective
<1> QED BY <1>1, <1>2, InnerType DEF Before, UpTo

LEMMA EnteredLast ==
    ASSUME NEW step, NEW p \in Processors(step), p # "recover"
    PROVE /\ UpTo(step, Outer(step, p)) = Before(step, p)
          /\ UpTo(step, Outer(step, p)) = UpTo(step, p) \ {p}
          /\ Outer(step, p) # "end"
<1>1. /\ Processors(step) \subseteq AllProcessors
      /\ \A q \in AllProcessors : Order[q] \in 1 .. 21
  BY ProcessorsType, OrderType
<1>2. \A q \in Processors(step) : Order[q] = Order[p] => q = p
  BY <1>1, OrderInjective
<1>3. Order["end"] = 21
  BY DEF Order
<1> QED BY <1>1, <1>2, <1>3, OuterType DEF Before, UpTo

LEMMA RecoverEntered ==
    ASSUME NEW step, NEW p \in Processors(step), p # "recover"
    PROVE "recover" \in Before(step, p)
<1>1. /\ "recover" \in Processors(step)
      /\ Order["recover"] = 1 /\ Order[p] \in 1 .. 21 /\ Order[p] # 1
  <2>1. Processors(step) \subseteq AllProcessors /\ "recover" \in Processors(step)
    BY ProcessorsType
  <2>2. Order["recover"] = 1
    BY DEF Order
  <2> QED BY <2>1, <2>2, OrderType, OrderInjective
<1> QED BY <1>1 DEF Before


-----------------------------------------------------------------------------
(* The shape of a thread.                                                  *)

IsSeq(s) == s \in Seq({s[i] : i \in DOMAIN s})

ContextFields ==
    {"env", "secret", "inputs", "outs", "steps", "containers", "template", "ns", "uname",
     "expanding", "alive", "outlist", "tags", "stdout", "stderr", "files", "closed",
     "whole"}
IsContext(c) == DOMAIN c = ContextFields

\* What processor p keeps.
Kept(p, v) ==
    /\ p = "recover" => IsContext(v)
    /\ p = "output" => v \in BOOLEAN
    /\ p = "needs" => v.next \in Nat /\ (v.next > 0 => IsContext(v.ctx))
    /\ p = "inherit" => v.called \in BOOLEAN /\ (v.called => IsContext(v.ctx))
    /\ p = "and" => v \in Nat

FrameShape(P, f) ==
    /\ DOMAIN f = {"step", "at", "saved", "published", "given", "unrestored"}
    /\ f.step \in DOMAIN P
    /\ f.at \in Processors(P[f.step])
    /\ \A p \in DOMAIN f.saved : Kept(p, f.saved[p])

\* The processor has called another step.
CalledFrom(p, v) ==
    \/ p = "needs" /\ v.next > 0
    \/ p = "and"
    \/ p = "inherit" /\ v.called

CallingShape(P, f) ==
    /\ DOMAIN f.saved = UpTo(P[f.step], f.at)
    /\ CalledFrom(f.at, f.saved[f.at])

Directions == {"down", "running", "merged", "waiting", "up", "done"}

\* On the way down a processor has kept nothing yet.
TopShape(P, f, dir) ==
    /\ dir \in {"down", "running"} => DOMAIN f.saved = Before(P[f.step], f.at)
    /\ dir \notin {"down", "running"} => DOMAIN f.saved = UpTo(P[f.step], f.at)
    /\ dir = "running" => f.at = "run"
    /\ dir = "merged" => f.at = "needs" /\ f.saved["needs"].next > 0
    /\ dir = "waiting" => f.at \in {"matrix", "concurrent"}
    /\ dir = "up" => f.at # "end"

ThreadFields == {"stack", "ctx", "err", "dir", "path"}

\* The frames that have called another.
Calling(P, stack, n) ==
    \A i \in 1 .. n : FrameShape(P, stack[i]) /\ CallingShape(P, stack[i])

ThreadType(th) ==
    /\ DOMAIN th = ThreadFields
    /\ IsSeq(th.stack) /\ Len(th.stack) > 0
    /\ IsSeq(th.path)
    /\ IsContext(th.ctx)
    /\ th.dir \in Directions

ThreadShape(P, th) ==
    /\ ThreadType(th)
    /\ th.dir # "done" =>
          /\ Calling(P, th.stack, Len(th.stack) - 1)
          /\ FrameShape(P, Top(th))
          /\ TopShape(P, Top(th), th.dir)

Shape ==
    /\ prog \in Programs
    /\ \A t \in DOMAIN threads : IsSeq(t) /\ ThreadShape(prog, threads[t])


LEMMA SeqOfElements ==
    ASSUME NEW S, NEW s \in Seq(S)
    PROVE IsSeq(s)
<1>1. s \in [1 .. Len(s) -> S] /\ Len(s) \in Nat /\ DOMAIN s = 1 .. Len(s)
  BY LenProperties
<1>2. s \in [1 .. Len(s) -> {s[i] : i \in DOMAIN s}]
  BY <1>1
<1> QED BY <1>1, <1>2, SeqDef DEF IsSeq

LEMMA SeqType ==
    ASSUME NEW s, IsSeq(s)
    PROVE Len(s) \in Nat /\ DOMAIN s = 1 .. Len(s)
  BY LenProperties DEF IsSeq

\* An element is added.
LEMMA Pushed ==
    ASSUME NEW s, IsSeq(s), NEW e
    PROVE LET q == Append(s, e)
          IN  /\ IsSeq(q) /\ Len(q) = Len(s) + 1
              /\ q[Len(s) + 1] = e
              /\ \A i \in 1 .. Len(s) : q[i] = s[i]
<1> DEFINE S == {s[i] : i \in DOMAIN s} \cup {e}
           q == Append(s, e)
<1>1. s \in Seq(S) /\ e \in S
  BY SeqMonotonic DEF IsSeq
<1>2. /\ q \in Seq(S) /\ Len(q) = Len(s) + 1
      /\ q[Len(s) + 1] = e
      /\ \A i \in 1 .. Len(s) : q[i] = s[i]
  BY <1>1, AppendProperties
<1> HIDE DEF q, S
<1>3. IsSeq(q)
  BY <1>2, SeqOfElements
<1> QED BY <1>2, <1>3 DEF q

\* The last element is removed.
LEMMA Popped ==
    ASSUME NEW s, IsSeq(s), Len(s) > 0
    PROVE LET q == SubSeq(s, 1, Len(s) - 1)
          IN  /\ IsSeq(q) /\ Len(q) = Len(s) - 1
              /\ \A i \in 1 .. Len(s) - 1 : q[i] = s[i]
<1> DEFINE S == {s[i] : i \in DOMAIN s}
           q == SubSeq(s, 1, Len(s) - 1)
<1>1. /\ Len(s) \in Nat /\ \A i \in 1 .. Len(s) - 1 : s[i] \in S
      /\ 1 \in Int /\ Len(s) - 1 \in Int
  BY SeqType
<1>2. /\ q \in Seq(S) /\ Len(q) = IF 1 <= Len(s) - 1 THEN Len(s) - 1 - 1 + 1 ELSE 0
      /\ \A i \in 1 .. Len(s) - 1 - 1 + 1 : q[i] = s[1 + i - 1]
  BY <1>1, SubSeqProperties
<1> HIDE DEF q, S
<1>3. IsSeq(q)
  BY <1>2, SeqOfElements
<1> DEFINE n == Len(s)  m == Len(q)
<1>4. m = n - 1
  <2>1. n \in Nat /\ n > 0 /\ m = IF 1 <= n - 1 THEN n - 1 - 1 + 1 ELSE 0
    BY <1>1, <1>2
  <2> HIDE DEF n, m
  <2> QED BY <2>1
<1>5. \A i \in 1 .. Len(s) - 1 : q[i] = s[i]
  BY <1>1, <1>2
<1> QED BY <1>3, <1>4, <1>5 DEF q


-----------------------------------------------------------------------------
(* Sequences: the stack of a thread.                                       *)

\* The last element of a sequence is replaced.
LEMMA LastReplaced ==
    ASSUME NEW s, IsSeq(s), Len(s) > 0, NEW e
    PROVE LET q == [s EXCEPT ![Len(s)] = e]
          IN  /\ IsSeq(q) /\ Len(q) = Len(s)
              /\ q[Len(s)] = e
              /\ \A i \in 1 .. Len(s) - 1 : q[i] = s[i]
<1> DEFINE S == {s[i] : i \in DOMAIN s} \cup {e}
           q == [s EXCEPT ![Len(s)] = e]
<1>1. s \in Seq(S)
  BY SeqMonotonic DEF IsSeq
<1>2. Len(s) \in Nat /\ Len(s) \in 1 .. Len(s) /\ e \in S
  BY <1>1, LenProperties
<1>3. /\ q \in Seq(S) /\ Len(q) = Len(s)
      /\ \A j \in 1 .. Len(s) : q[j] = IF j = Len(s) THEN e ELSE s[j]
  BY <1>1, <1>2, ExceptSeq
<1> HIDE DEF q, S
<1>4. IsSeq(q)
  BY <1>3, SeqOfElements
<1> QED BY <1>2, <1>3, <1>4 DEF q

-----------------------------------------------------------------------------
(* Frames.                                                                 *)

FrameFields == {"step", "at", "saved", "published", "given", "unrestored"}

LEMMA AssignType ==
    ASSUME NEW m, NEW k, NEW v
    PROVE /\ DOMAIN Assign(m, k, v) = DOMAIN m \cup {k}
          /\ Assign(m, k, v)[k] = v
          /\ \A x \in DOMAIN m \ {k} : Assign(m, k, v)[x] = m[x]
  BY DEF Assign

LEMMA KeepType ==
    ASSUME NEW f, DOMAIN f = FrameFields, NEW v
    PROVE /\ DOMAIN Keep(f, v) = FrameFields
          /\ Keep(f, v).step = f.step /\ Keep(f, v).at = f.at
          /\ DOMAIN Keep(f, v).saved = DOMAIN f.saved \cup {f.at}
          /\ Keep(f, v).saved[f.at] = v
          /\ \A p \in DOMAIN f.saved \ {f.at} : Keep(f, v).saved[p] = f.saved[p]
<1>1. /\ DOMAIN Keep(f, v) = FrameFields
      /\ Keep(f, v).step = f.step /\ Keep(f, v).at = f.at
      /\ Keep(f, v).saved = Assign(f.saved, f.at, v)
  BY DEF Keep, FrameFields
<1> DEFINE m == Assign(f.saved, f.at, v)
<1>2. /\ DOMAIN m = DOMAIN f.saved \cup {f.at}
      /\ m[f.at] = v
      /\ \A p \in DOMAIN f.saved \ {f.at} : m[p] = f.saved[p]
  BY DEF Assign
<1> HIDE DEF m
<1>3. Keep(f, v).saved = m
  BY <1>1 DEF m
<1> QED BY <1>1, <1>2, <1>3

LEMMA DropType ==
    ASSUME NEW f, DOMAIN f = FrameFields
    PROVE /\ DOMAIN Drop(f) = FrameFields
          /\ Drop(f).step = f.step /\ Drop(f).at = f.at
          /\ DOMAIN Drop(f).saved = DOMAIN f.saved \ {f.at}
          /\ \A p \in DOMAIN f.saved \ {f.at} : Drop(f).saved[p] = f.saved[p]
  BY DEF Drop, FrameFields

\* The frame f goes on to the next processor, and v is kept.
LEMMA Forwarded ==
    ASSUME NEW f, FrameShape(prog, f), f.at # "end", NEW v, Kept(f.at, v),
           \/ DOMAIN f.saved = Before(prog[f.step], f.at)
           \/ DOMAIN f.saved = UpTo(prog[f.step], f.at)
    PROVE LET g == Onward(Keep(f, v))
          IN  /\ FrameShape(prog, g)
              /\ DOMAIN g.saved = Before(prog[g.step], g.at)
              /\ g.step = f.step /\ g.at = Inner(prog[f.step], f.at)
              /\ DOMAIN g.saved = DOMAIN f.saved \cup {f.at}
              /\ g.saved[f.at] = v
              /\ \A p \in DOMAIN f.saved \ {f.at} : g.saved[p] = f.saved[p]
<1> DEFINE k == Keep(f, v)
           g == Onward(k)
<1>1. /\ DOMAIN f = FrameFields /\ f.step \in DOMAIN prog /\ f.at \in Processors(prog[f.step])
      /\ \A p \in DOMAIN f.saved : Kept(p, f.saved[p])
  BY DEF FrameShape, FrameFields
<1>2. /\ DOMAIN k = FrameFields
      /\ k.step = f.step /\ k.at = f.at
      /\ DOMAIN k.saved = DOMAIN f.saved \cup {f.at}
      /\ k.saved[f.at] = v
      /\ \A p \in DOMAIN f.saved \ {f.at} : k.saved[p] = f.saved[p]
  BY <1>1, KeepType
<1> HIDE DEF k
<1>3. /\ DOMAIN g = FrameFields
      /\ g.step = f.step /\ g.at = Inner(prog[f.step], f.at) /\ g.saved = k.saved
  BY <1>2 DEF Onward, FrameFields
<1> HIDE DEF g
<1>4. /\ Inner(prog[f.step], f.at) \in Processors(prog[f.step])
      /\ Before(prog[f.step], Inner(prog[f.step], f.at)) = Before(prog[f.step], f.at) \cup {f.at}
      /\ UpTo(prog[f.step], f.at) = Before(prog[f.step], f.at) \cup {f.at}
  BY <1>1, InnerType, EnteredNext
<1>5. DOMAIN g.saved = Before(prog[g.step], g.at)
  BY <1>2, <1>3, <1>4
<1>6. \A p \in DOMAIN g.saved : Kept(p, g.saved[p])
  BY <1>1, <1>2, <1>3
<1>7. FrameShape(prog, g)
  BY <1>1, <1>3, <1>4, <1>6 DEF FrameShape, FrameFields
<1> QED BY <1>2, <1>3, <1>5, <1>7 DEF g, k

\* The frame f goes back to the processor before.
LEMMA WentBack ==
    ASSUME NEW f, FrameShape(prog, f), f.at # "recover",
           \/ DOMAIN f.saved = Before(prog[f.step], f.at)
           \/ DOMAIN f.saved = UpTo(prog[f.step], f.at)
    PROVE LET g == [Drop(f) EXCEPT !.at = Outer(prog[f.step], @)]
          IN  /\ FrameShape(prog, g) /\ TopShape(prog, g, "up")
              /\ g.step = f.step /\ g.at = Outer(prog[f.step], f.at)
              /\ DOMAIN g.saved = DOMAIN f.saved \ {f.at}
              /\ \A p \in DOMAIN g.saved : g.saved[p] = f.saved[p]
<1> DEFINE k == Drop(f)
           g == [k EXCEPT !.at = Outer(prog[f.step], @)]
<1>1. /\ DOMAIN f = FrameFields /\ f.step \in DOMAIN prog /\ f.at \in Processors(prog[f.step])
      /\ \A p \in DOMAIN f.saved : Kept(p, f.saved[p])
  BY DEF FrameShape, FrameFields
<1>2. /\ DOMAIN k = FrameFields
      /\ k.step = f.step /\ k.at = f.at
      /\ DOMAIN k.saved = DOMAIN f.saved \ {f.at}
      /\ \A p \in DOMAIN f.saved \ {f.at} : k.saved[p] = f.saved[p]
  BY <1>1, DropType
<1> HIDE DEF k
<1>3. /\ DOMAIN g = FrameFields
      /\ g.step = f.step /\ g.at = Outer(prog[f.step], f.at) /\ g.saved = k.saved
  BY <1>2 DEF FrameFields
<1> HIDE DEF g
<1>4. /\ Outer(prog[f.step], f.at) \in Processors(prog[f.step])
      /\ UpTo(prog[f.step], Outer(prog[f.step], f.at)) = Before(prog[f.step], f.at)
      /\ UpTo(prog[f.step], Outer(prog[f.step], f.at)) = UpTo(prog[f.step], f.at) \ {f.at}
      /\ Outer(prog[f.step], f.at) # "end"
  BY <1>1, OuterType, EnteredLast
<1>5. f.at \notin Before(prog[f.step], f.at)
  <2>1. ~(Order[f.at] < Order[f.at])
    BY <1>1, ProcessorsType, OrderType
  <2> QED BY <2>1 DEF Before
<1>6. DOMAIN g.saved = UpTo(prog[g.step], g.at)
  BY <1>2, <1>3, <1>4, <1>5
<1>7. \A p \in DOMAIN g.saved : Kept(p, g.saved[p])
  BY <1>1, <1>2, <1>3
<1>8. FrameShape(prog, g)
  BY <1>1, <1>3, <1>4, <1>7 DEF FrameShape, FrameFields
<1>9. TopShape(prog, g, "up")
  BY <1>3, <1>4, <1>6 DEF TopShape
<1>10. /\ DOMAIN g.saved = DOMAIN f.saved \ {f.at}
       /\ \A p \in DOMAIN g.saved : g.saved[p] = f.saved[p]
  BY <1>2, <1>3
<1> QED BY <1>3, <1>8, <1>9, <1>10 DEF g, k

\* The frame of a step that is called.
LEMMA NewFrameShape ==
    ASSUME NEW s \in DOMAIN prog, NEW c, NEW h
    PROVE LET f == NewFrame(s, c, h)
          IN  /\ FrameShape(prog, f) /\ TopShape(prog, f, "down")
              /\ f.step = s /\ f.at = "recover" /\ DOMAIN f.saved = {}
<1> DEFINE f == NewFrame(s, c, h)
<1>1. /\ DOMAIN f = FrameFields
      /\ f.step = s /\ f.at = "recover" /\ DOMAIN f.saved = {}
  BY DEF NewFrame, EmptyMap, FrameFields
<1> HIDE DEF f
<1>2. Before(prog[s], "recover") = {}
  <2>1. \A q \in Processors(prog[s]) : ~(Order[q] < Order["recover"])
    <3>1. Order["recover"] = 1 /\ \A q \in Processors(prog[s]) : Order[q] \in 1 .. 21
      BY ProcessorsType, OrderType DEF Order
    <3> QED BY <3>1
  <2> QED BY <2>1 DEF Before
<1>3. "recover" \in Processors(prog[s])
  BY ProcessorsType
<1>4. FrameShape(prog, f)
  BY <1>1, <1>3 DEF FrameShape, FrameFields
<1>5. TopShape(prog, f, "down")
  BY <1>1, <1>2 DEF TopShape
<1> QED BY <1>1, <1>4, <1>5 DEF f


-----------------------------------------------------------------------------
(* Threads.                                                                *)

\* The top frame of th becomes f.
LEMMA TopReplaced ==
    ASSUME NEW th, ThreadShape(prog, th), NEW f
    PROVE LET new == SetTop(th, f)
          IN  /\ DOMAIN new = ThreadFields
              /\ IsSeq(new.stack) /\ Len(new.stack) = Len(th.stack)
              /\ Top(new) = f
              /\ \A i \in 1 .. Len(th.stack) - 1 : new.stack[i] = th.stack[i]
              /\ new.ctx = th.ctx /\ new.err = th.err /\ new.dir = th.dir /\ new.path = th.path
<1> DEFINE new == SetTop(th, f)
           q == [th.stack EXCEPT ![Len(th.stack)] = f]
<1>1. DOMAIN th = ThreadFields /\ IsSeq(th.stack) /\ Len(th.stack) > 0
  BY DEF ThreadShape, ThreadType
<1>2. /\ IsSeq(q) /\ Len(q) = Len(th.stack)
      /\ q[Len(th.stack)] = f
      /\ \A i \in 1 .. Len(th.stack) - 1 : q[i] = th.stack[i]
  BY <1>1, LastReplaced
<1> HIDE DEF q
<1>3. /\ DOMAIN new = ThreadFields /\ new.stack = q
      /\ new.ctx = th.ctx /\ new.err = th.err /\ new.dir = th.dir /\ new.path = th.path
  BY <1>1 DEF SetTop, ThreadFields, q
<1> HIDE DEF new
<1>4. Top(new) = f
  BY <1>2, <1>3 DEF Top
<1> QED BY <1>2, <1>3, <1>4 DEF new

\* The same with a context, an error and a direction.
LEMMA TopMoved ==
    ASSUME NEW th, ThreadShape(prog, th), th.dir # "done", NEW old, NEW f,
           old.stack = th.stack, old.path = th.path, DOMAIN old = ThreadFields,
           IsContext(old.ctx), old.dir \in Directions \ {"done"},
           FrameShape(prog, f), TopShape(prog, f, old.dir)
    PROVE /\ ThreadShape(prog, SetTop(old, f))
          /\ Top(SetTop(old, f)) = f
          /\ Len(SetTop(old, f).stack) = Len(th.stack)
          /\ \A i \in 1 .. Len(th.stack) - 1 : SetTop(old, f).stack[i] = th.stack[i]
          /\ SetTop(old, f).ctx = old.ctx /\ SetTop(old, f).dir = old.dir
          /\ SetTop(old, f).path = th.path
<1> DEFINE new == SetTop(old, f)
           q == [th.stack EXCEPT ![Len(th.stack)] = f]
<1>1. IsSeq(th.stack) /\ Len(th.stack) > 0 /\ Len(th.stack) \in Nat /\ IsSeq(th.path)
  BY SeqType DEF ThreadShape, ThreadType
<1>2. /\ IsSeq(q) /\ Len(q) = Len(th.stack)
      /\ q[Len(th.stack)] = f
      /\ \A i \in 1 .. Len(th.stack) - 1 : q[i] = th.stack[i]
  BY <1>1, LastReplaced
<1> HIDE DEF q
<1>3. /\ DOMAIN new = ThreadFields /\ new.stack = q
      /\ new.ctx = old.ctx /\ new.dir = old.dir /\ new.path = th.path
  BY DEF SetTop, ThreadFields, q
<1> HIDE DEF new
<1>4. Top(new) = f
  BY <1>2, <1>3 DEF Top
<1>5. ThreadType(new)
  BY <1>1, <1>2, <1>3 DEF ThreadType
<1>6. Calling(prog, new.stack, Len(new.stack) - 1)
  <2>1. Calling(prog, th.stack, Len(th.stack) - 1)
    BY DEF ThreadShape
  <2>2. \A i \in 1 .. Len(new.stack) - 1 : new.stack[i] = th.stack[i] /\ i \in 1 .. Len(th.stack) - 1
    BY <1>2, <1>3
  <2> QED BY <2>1, <2>2 DEF Calling
<1>7. ThreadShape(prog, new)
  BY <1>3, <1>4, <1>5, <1>6 DEF ThreadShape
<1> QED BY <1>2, <1>3, <1>4, <1>7 DEF new

\* The frame on top is removed.
LEMMA TopRemoved ==
    ASSUME NEW th, ThreadShape(prog, th), th.dir # "done", Len(th.stack) # 1,
           NEW old, DOMAIN old = ThreadFields, old.path = th.path, IsContext(old.ctx),
           old.dir = "up", IsSeq(old.stack), Len(old.stack) = Len(th.stack),
           \A i \in 1 .. Len(th.stack) - 1 : old.stack[i] = th.stack[i]
    PROVE LET new == [old EXCEPT !.stack = SubSeq(@, 1, Len(@) - 1)]
          IN  /\ ThreadShape(prog, new)
              /\ Len(new.stack) = Len(th.stack) - 1
              /\ \A i \in 1 .. Len(th.stack) - 1 : new.stack[i] = th.stack[i]
              /\ Top(new) = th.stack[Len(th.stack) - 1]
              /\ CallingShape(prog, Top(new)) /\ FrameShape(prog, Top(new))
              /\ new.ctx = old.ctx /\ new.dir = "up" /\ new.path = th.path
<1> DEFINE new == [old EXCEPT !.stack = SubSeq(@, 1, Len(@) - 1)]
           q == SubSeq(old.stack, 1, Len(old.stack) - 1)
           n == Len(th.stack) - 1
<1>1. IsSeq(th.path) /\ n \in Nat /\ n > 0
  <2>1. IsSeq(th.path) /\ Len(th.stack) \in Nat /\ Len(th.stack) > 0
    BY SeqType DEF ThreadShape, ThreadType
  <2>2. \A m \in Nat : m > 0 /\ m # 1 => m - 1 \in Nat /\ m - 1 > 0
    OBVIOUS
  <2> QED BY <2>1, <2>2
<1>2. Len(old.stack) > 0 /\ Len(old.stack) - 1 = n
  BY <1>1
<1> HIDE DEF n
<1>3. /\ IsSeq(q) /\ Len(q) = n
      /\ \A i \in 1 .. n : q[i] = old.stack[i]
  BY <1>2, Popped
<1> HIDE DEF q
<1>4. /\ DOMAIN new = ThreadFields /\ new.stack = q
      /\ new.ctx = old.ctx /\ new.dir = "up" /\ new.path = th.path
  BY DEF ThreadFields, q
<1> HIDE DEF new
<1>5. \A i \in 1 .. n : new.stack[i] = th.stack[i]
  BY <1>3, <1>4 DEF n
<1>6. Top(new) = th.stack[n] /\ n \in 1 .. n
  BY <1>1, <1>3, <1>4, <1>5 DEF Top
<1>7. Calling(prog, th.stack, n)
  BY DEF ThreadShape, n
<1>8. CallingShape(prog, Top(new)) /\ FrameShape(prog, Top(new))
  BY <1>6, <1>7 DEF Calling
<1>9. Calling(prog, new.stack, n - 1)
  BY <1>1, <1>5, <1>7 DEF Calling
<1>10. TopShape(prog, Top(new), "up")
  BY <1>8 DEF CallingShape, CalledFrom, TopShape
<1>11. ThreadType(new)
  BY <1>1, <1>3, <1>4 DEF ThreadType, Directions
<1>12. ThreadShape(prog, new)
  BY <1>3, <1>4, <1>8, <1>9, <1>10, <1>11 DEF ThreadShape
<1> QED BY <1>3, <1>4, <1>5, <1>6, <1>8, <1>12 DEF new, n


\* A processor other than the first returns.
LEMMA ReturnedInside ==
    ASSUME NEW th, ThreadShape(prog, th), th.dir # "done", Top(th).at # "recover",
           NEW c, IsContext(c), NEW e
    PROVE LET new == Returned(th, c, e)
              g == [Drop(Top(th)) EXCEPT !.at = Outer(prog[Top(th).step], @)]
          IN  /\ ThreadShape(prog, new)
              /\ Top(new) = g
              /\ Len(new.stack) = Len(th.stack)
              /\ \A i \in 1 .. Len(th.stack) - 1 : new.stack[i] = th.stack[i]
              /\ new.ctx = c /\ new.dir = "up" /\ new.path = th.path
<1> DEFINE f == Top(th)
           g == [Drop(f) EXCEPT !.at = Outer(prog[f.step], @)]
           back == [th EXCEPT !.ctx = c, !.err = e, !.dir = "up"]
<1>1. /\ DOMAIN th = ThreadFields /\ FrameShape(prog, f) /\ TopShape(prog, f, th.dir)
  BY DEF ThreadShape, ThreadType
<1>2. FrameShape(prog, g) /\ TopShape(prog, g, "up")
  <2>1. \/ DOMAIN f.saved = Before(prog[f.step], f.at)
        \/ DOMAIN f.saved = UpTo(prog[f.step], f.at)
    BY <1>1 DEF TopShape
  <2> HIDE DEF f
  <2> QED BY <1>1, <2>1, WentBack DEF f
<1>3. /\ back.stack = th.stack /\ back.path = th.path /\ DOMAIN back = ThreadFields
      /\ back.ctx = c /\ back.dir = "up" /\ "up" \in Directions \ {"done"}
  BY <1>1 DEF ThreadFields, Directions
<1>4. Returned(th, c, e) = SetTop(back, g)
  BY DEF Returned
<1> HIDE DEF back, g
<1> QED BY <1>2, <1>3, <1>4, TopMoved DEF g

\* The first processor returns: the step is over.
LEMMA ReturnedOut ==
    ASSUME NEW th, ThreadShape(prog, th), th.dir # "done",
           NEW old, DOMAIN old = ThreadFields, old.path = th.path,
           IsSeq(old.stack), Len(old.stack) = Len(th.stack), Top(old).at = "recover",
           \A i \in 1 .. Len(th.stack) - 1 : old.stack[i] = th.stack[i],
           NEW c, IsContext(c), NEW e
    PROVE LET new == Returned(old, c, e)
          IN  /\ ThreadShape(prog, new)
              /\ new.ctx = c /\ new.path = th.path
              /\ \/ new.dir = "done"
                 \/ /\ Len(th.stack) # 1
                    /\ Len(new.stack) = Len(th.stack) - 1
                    /\ \A i \in 1 .. Len(th.stack) - 1 : new.stack[i] = th.stack[i]
                    /\ Top(new) = th.stack[Len(th.stack) - 1]
                    /\ CallingShape(prog, Top(new)) /\ FrameShape(prog, Top(new))
                    /\ new.dir = "up"
<1> DEFINE back == [old EXCEPT !.ctx = c, !.err = e, !.dir = "up"]
           new == Returned(old, c, e)
<1> HIDE DEF new
<1>1. /\ DOMAIN back = ThreadFields /\ back.stack = old.stack /\ back.path = th.path
      /\ back.ctx = c /\ back.dir = "up" /\ IsSeq(th.path) /\ Len(th.stack) > 0
  BY DEF ThreadFields, ThreadShape, ThreadType
<1> HIDE DEF back
<1>2. CASE Len(th.stack) = 1
  <2>1. new = [back EXCEPT !.dir = "done"]
    BY <1>2 DEF Returned, back, new
  <2>2. /\ DOMAIN new = ThreadFields /\ new.stack = old.stack /\ new.path = th.path
        /\ new.ctx = c /\ new.dir = "done"
    BY <1>1, <2>1 DEF ThreadFields
  <2> QED BY <1>1, <2>2 DEF ThreadShape, ThreadType, Directions, new
<1>3. CASE Len(th.stack) # 1
  <2>1. new = [back EXCEPT !.stack = SubSeq(@, 1, Len(@) - 1)]
    BY <1>3 DEF Returned, back, new
  <2>2. /\ IsSeq(back.stack) /\ Len(back.stack) = Len(th.stack) /\ IsContext(back.ctx)
        /\ \A i \in 1 .. Len(th.stack) - 1 : back.stack[i] = th.stack[i]
    BY <1>1
  <2>3. LET popped == [back EXCEPT !.stack = SubSeq(@, 1, Len(@) - 1)]
        IN  /\ ThreadShape(prog, popped)
            /\ Len(popped.stack) = Len(th.stack) - 1
            /\ \A i \in 1 .. Len(th.stack) - 1 : popped.stack[i] = th.stack[i]
            /\ Top(popped) = th.stack[Len(th.stack) - 1]
            /\ CallingShape(prog, Top(popped)) /\ FrameShape(prog, Top(popped))
            /\ popped.ctx = back.ctx /\ popped.dir = "up" /\ popped.path = th.path
    BY <1>1, <1>3, <2>2, TopRemoved
  <2> QED BY <1>1, <1>3, <2>1, <2>3 DEF new
<1> QED BY <1>2, <1>3

LEMMA PanickedShape ==
    ASSUME NEW th, ThreadShape(prog, th), th.dir # "done", "recover" \in DOMAIN Top(th).saved
    PROVE LET new == Panicked(th)
              c == Top(th).saved["recover"]
          IN  /\ ThreadShape(prog, new)
              /\ new.ctx = c /\ IsContext(c) /\ new.path = th.path
              /\ \/ new.dir = "done"
                 \/ /\ Len(th.stack) # 1
                    /\ Len(new.stack) = Len(th.stack) - 1
                    /\ \A i \in 1 .. Len(th.stack) - 1 : new.stack[i] = th.stack[i]
                    /\ Top(new) = th.stack[Len(th.stack) - 1]
                    /\ CallingShape(prog, Top(new)) /\ FrameShape(prog, Top(new))
                    /\ new.dir = "up"
<1> DEFINE f == Top(th)
           g == [f EXCEPT !.at = "recover"]
           old == SetTop(th, g)
           c == f.saved["recover"]
<1>1. FrameShape(prog, f)
  BY DEF ThreadShape
<1>2. IsContext(c)
  BY <1>1 DEF FrameShape, Kept
<1>3. g.at = "recover"
  BY <1>1 DEF FrameShape
<1>4. Panicked(th) = Returned(old, c, "panic")
  BY DEF Panicked
<1> HIDE DEF f, g
<1>5. /\ DOMAIN old = ThreadFields
      /\ IsSeq(old.stack) /\ Len(old.stack) = Len(th.stack)
      /\ Top(old) = g
      /\ \A i \in 1 .. Len(th.stack) - 1 : old.stack[i] = th.stack[i]
      /\ old.path = th.path
  BY TopReplaced
<1> HIDE DEF old
<1> QED BY <1>2, <1>3, <1>4, <1>5, ReturnedOut DEF f

\* Another step is called.
LEMMA CalledShape ==
    ASSUME NEW th, ThreadShape(prog, th), th.dir # "done",
           NEW v, Kept(Top(th).at, v), CalledFrom(Top(th).at, v),
           NEW s \in DOMAIN prog, NEW c, IsContext(c), NEW h
    PROVE LET new == Called(th, s, c, h, v)
          IN  /\ ThreadShape(prog, new)
              /\ Len(new.stack) = Len(th.stack) + 1
              /\ \A i \in 1 .. Len(th.stack) - 1 : new.stack[i] = th.stack[i]
              /\ new.stack[Len(th.stack)] = Keep(Top(th), v)
              /\ Top(new) = NewFrame(s, c, h)
              /\ new.ctx = c /\ new.dir = "down" /\ new.path = th.path
<1> DEFINE f == Top(th)
           k == Keep(f, v)
           kept == SetTop(th, k)
           q == Append(kept.stack, NewFrame(s, c, h))
           n == Len(th.stack)
           new == Called(th, s, c, h, v)
<1>1. /\ DOMAIN th = ThreadFields /\ FrameShape(prog, f) /\ TopShape(prog, f, th.dir)
      /\ IsSeq(th.path) /\ Calling(prog, th.stack, n - 1)
  BY DEF ThreadShape, ThreadType
<1>2. n \in Nat /\ n > 0
  BY SeqType DEF ThreadShape, ThreadType
<1>3. FrameShape(prog, k) /\ CallingShape(prog, k)
  <2> HIDE DEF f
  <2>1. /\ DOMAIN f = FrameFields /\ f.step \in DOMAIN prog
        /\ f.at \in Processors(prog[f.step])
        /\ \A p \in DOMAIN f.saved : Kept(p, f.saved[p])
    BY <1>1 DEF FrameShape, FrameFields
  <2>2. f.at # "end"
    BY DEF CalledFrom, f
  <2>3. UpTo(prog[f.step], f.at) = Before(prog[f.step], f.at) \cup {f.at}
    BY <2>1, <2>2, EnteredNext
  <2>4. /\ DOMAIN k = FrameFields
        /\ k.step = f.step /\ k.at = f.at
        /\ DOMAIN k.saved = DOMAIN f.saved \cup {f.at}
        /\ k.saved[f.at] = v
        /\ \A p \in DOMAIN f.saved \ {f.at} : k.saved[p] = f.saved[p]
    BY <2>1, KeepType
  <2> HIDE DEF k
  <2>5. DOMAIN k.saved = UpTo(prog[f.step], f.at)
    BY <1>1, <2>3, <2>4 DEF TopShape
  <2>6. \A p \in DOMAIN k.saved : Kept(p, k.saved[p])
    BY <2>1, <2>4 DEF f
  <2>7. FrameShape(prog, k)
    BY <2>1, <2>4, <2>6 DEF FrameShape, FrameFields
  <2>8. CallingShape(prog, k)
    BY <2>4, <2>5 DEF CallingShape, f
  <2> QED BY <2>7, <2>8 DEF k
<1> HIDE DEF f, k
<1>4. /\ DOMAIN kept = ThreadFields
      /\ IsSeq(kept.stack) /\ Len(kept.stack) = n /\ kept.stack[n] = k
      /\ \A i \in 1 .. n - 1 : kept.stack[i] = th.stack[i]
      /\ kept.path = th.path
  <2>1. /\ DOMAIN kept = ThreadFields
        /\ IsSeq(kept.stack) /\ Len(kept.stack) = n /\ Top(kept) = k
        /\ \A i \in 1 .. n - 1 : kept.stack[i] = th.stack[i]
        /\ kept.path = th.path
    BY TopReplaced
  <2> QED BY <2>1 DEF Top
<1>5. new = [kept EXCEPT !.ctx = c, !.dir = "down", !.stack = q]
  BY DEF Called, f, k
<1> HIDE DEF kept
<1>6. /\ IsSeq(q) /\ Len(q) = n + 1
      /\ q[n + 1] = NewFrame(s, c, h)
      /\ \A i \in 1 .. n : q[i] = kept.stack[i]
  BY <1>4, Pushed
<1> HIDE DEF q, new, n
<1>7. /\ DOMAIN new = ThreadFields /\ new.stack = q
      /\ new.ctx = c /\ new.dir = "down" /\ new.path = th.path
  BY <1>4, <1>5 DEF ThreadFields
<1>8. \A i \in 1 .. n - 1 : new.stack[i] = th.stack[i]
  BY <1>2, <1>4, <1>6, <1>7
<1>9. new.stack[n] = k /\ n \in 1 .. n
  BY <1>2, <1>4, <1>6, <1>7
<1>10. Top(new) = NewFrame(s, c, h) /\ Len(new.stack) = n + 1 /\ n + 1 - 1 = n
  BY <1>2, <1>6, <1>7 DEF Top
<1>11. FrameShape(prog, Top(new)) /\ TopShape(prog, Top(new), "down")
  BY <1>10, NewFrameShape
<1>12. Calling(prog, new.stack, n)
  <2> SUFFICES ASSUME NEW i \in 1 .. n
               PROVE FrameShape(prog, new.stack[i]) /\ CallingShape(prog, new.stack[i])
    BY DEF Calling
  <2>1. CASE i = n
    BY <1>3, <1>9, <2>1
  <2>2. CASE i # n
    <3>1. i \in 1 .. n - 1
      BY <1>2, <2>2
    <3> QED BY <1>1, <1>8, <3>1 DEF Calling
  <2> QED BY <2>1, <2>2
<1>13. Len(new.stack) - 1 = n /\ Len(new.stack) > 0
  BY <1>2, <1>10
<1>14. ThreadType(new)
  BY <1>1, <1>6, <1>7, <1>13 DEF ThreadType, Directions
<1>15. ThreadShape(prog, new)
  BY <1>7, <1>11, <1>12, <1>13, <1>14 DEF ThreadShape
<1> QED BY <1>7, <1>8, <1>9, <1>10, <1>15 DEF new, n, k, f

\* A goroutine starts.
LEMMA NewThreadShape ==
    ASSUME NEW s \in DOMAIN prog, NEW c, IsContext(c), NEW h, NEW path, IsSeq(path)
    PROVE LET th == NewThread(s, c, h, path)
          IN  /\ ThreadShape(prog, th)
              /\ Len(th.stack) = 1 /\ Top(th) = NewFrame(s, c, h)
              /\ th.ctx = c /\ th.dir = "down" /\ th.path = path
<1> DEFINE f == NewFrame(s, c, h)
           th == NewThread(s, c, h, path)
<1>1. FrameShape(prog, f) /\ TopShape(prog, f, "down")
  BY NewFrameShape
<1> HIDE DEF f
<1>2. /\ DOMAIN th = ThreadFields /\ th.stack = <<f>>
      /\ th.ctx = c /\ th.dir = "down" /\ th.path = path
  BY DEF NewThread, ThreadFields, f
<1> HIDE DEF th
<1>3. Len(<<f>>) = 1 /\ <<f>>[1] = f /\ IsSeq(<<f>>)
  <2>1. <<f>> \in Seq({f})
    OBVIOUS
  <2>2. IsSeq(<<f>>)
    BY <2>1, SeqOfElements
  <2> QED BY <2>2
<1>4. Len(th.stack) = 1 /\ Top(th) = f /\ IsSeq(th.stack)
  BY <1>2, <1>3 DEF Top
<1>5. ThreadType(th)
  BY <1>2, <1>4 DEF ThreadType, Directions
<1>6. Calling(prog, th.stack, Len(th.stack) - 1)
  BY <1>4 DEF Calling
<1>7. ThreadShape(prog, th)
  BY <1>1, <1>2, <1>4, <1>5, <1>6 DEF ThreadShape
<1> QED BY <1>2, <1>4, <1>7 DEF th, f


-----------------------------------------------------------------------------
(* Every step keeps the shape.                                             *)

ShapeNext == \A u \in DOMAIN threads' : IsSeq(u) /\ ThreadShape(prog, threads'[u])

LEMMA OneMoves ==
    ASSUME Shape, NEW t \in DOMAIN threads, NEW new, ThreadShape(prog, new),
           threads' = [threads EXCEPT ![t] = new]
    PROVE ShapeNext
  BY DEF Shape, ShapeNext

\* The top frame becomes f, and that goes on.
LEMMA OnwardShape ==
    ASSUME NEW th, ThreadShape(prog, th), th.dir # "done", NEW old, NEW f, NEW v,
           old.stack = th.stack, old.path = th.path, DOMAIN old = ThreadFields,
           IsContext(old.ctx), old.dir = "down",
           FrameShape(prog, f), f.step = Top(th).step, f.at = Top(th).at,
           f.at # "end", DOMAIN f.saved = DOMAIN Top(th).saved, Kept(f.at, v)
    PROVE LET g == Onward(Keep(f, v))
              new == SetTop(old, g)
          IN  /\ ThreadShape(prog, new)
              /\ Top(new) = g
              /\ Len(new.stack) = Len(th.stack)
              /\ \A i \in 1 .. Len(th.stack) - 1 : new.stack[i] = th.stack[i]
              /\ new.ctx = old.ctx /\ new.dir = "down" /\ new.path = th.path
<1> DEFINE g == Onward(Keep(f, v))
<1>1. TopShape(prog, Top(th), th.dir)
  BY DEF ThreadShape
<1>2. \/ DOMAIN f.saved = Before(prog[f.step], f.at)
      \/ DOMAIN f.saved = UpTo(prog[f.step], f.at)
  BY <1>1 DEF TopShape
<1>3. FrameShape(prog, g) /\ DOMAIN g.saved = Before(prog[g.step], g.at)
  BY <1>2, Forwarded
<1> HIDE DEF g
<1>4. TopShape(prog, g, "down")
  BY <1>3 DEF TopShape
<1>5. old.dir \in Directions \ {"done"}
  BY DEF Directions
<1> QED BY <1>3, <1>4, <1>5, TopMoved DEF g

LEMMA ForwardShape ==
    ASSUME Shape, NEW t \in DOMAIN threads, threads[t].dir = "down", Proc(t) # "end",
           NEW c, IsContext(c), NEW v, Kept(Proc(t), v), Forward(t, c, v)
    PROVE ShapeNext
<1> DEFINE th == threads[t]
           old == [th EXCEPT !.ctx = c]
           new == SetTop(old, Onward(Keep(Top(th), v)))
<1>1. ThreadShape(prog, th)
  BY DEF Shape
<1>2. /\ old.stack = th.stack /\ old.path = th.path /\ DOMAIN old = ThreadFields
      /\ old.ctx = c /\ old.dir = "down" /\ FrameShape(prog, Top(th))
  BY <1>1 DEF ThreadShape, ThreadType, ThreadFields
<1>3. Top(old) = Top(th)
  BY <1>2 DEF Top
<1>4. threads' = [threads EXCEPT ![t] = new]
  BY <1>3 DEF Forward
<1> HIDE DEF old
<1>5. ThreadShape(prog, new)
  BY <1>1, <1>2, OnwardShape DEF Proc
<1> QED BY <1>4, <1>5, OneMoves

LEMMA ReturnShape ==
    ASSUME Shape, NEW t \in DOMAIN threads, threads[t].dir # "done",
           NEW c, IsContext(c), NEW e, Return(t, c, e)
    PROVE ShapeNext
<1> DEFINE th == threads[t]
           new == Returned(th, c, e)
<1>1. ThreadShape(prog, th)
  BY DEF Shape
<1>2. threads' = [threads EXCEPT ![t] = new]
  BY DEF Return
<1>3. ThreadShape(prog, new)
  <2>1. CASE Top(th).at # "recover"
    BY <1>1, <2>1, ReturnedInside
  <2>2. CASE Top(th).at = "recover"
    <3>1. DOMAIN th = ThreadFields /\ IsSeq(th.stack)
      BY <1>1 DEF ThreadShape, ThreadType
    <3> QED BY <1>1, <2>2, <3>1, ReturnedOut
  <2> QED BY <2>1, <2>2
<1> HIDE DEF new
<1> QED BY <1>2, <1>3, OneMoves

LEMMA PanicShape ==
    ASSUME Shape, NEW t \in DOMAIN threads, threads[t].dir = "down", Proc(t) # "recover",
           Panic(t)
    PROVE ShapeNext
<1> DEFINE th == threads[t]
           f == Top(th)
<1>1. ThreadShape(prog, th)
  BY DEF Shape
<1>2. FrameShape(prog, f) /\ TopShape(prog, f, "down") /\ f.at # "recover"
  BY <1>1 DEF ThreadShape, Proc
<1> HIDE DEF f
<1>3. "recover" \in DOMAIN f.saved
  BY <1>2, RecoverEntered DEF FrameShape, TopShape
<1>4. ThreadShape(prog, Panicked(th))
  BY <1>1, <1>3, PanickedShape DEF f
<1> QED BY <1>4, OneMoves DEF Panic

LEMMA CallShape ==
    ASSUME Shape, NEW t \in DOMAIN threads, threads[t].dir # "done",
           NEW s \in DOMAIN prog, NEW c, IsContext(c), NEW h, NEW v,
           Kept(Proc(t), v), CalledFrom(Proc(t), v), Call(t, s, c, h, v)
    PROVE ShapeNext
<1> DEFINE th == threads[t]
           new == Called(th, s, c, h, v)
<1>1. ThreadShape(prog, th)
  BY DEF Shape
<1>2. ThreadShape(prog, new)
  BY <1>1, CalledShape DEF Proc
<1> HIDE DEF new
<1> QED BY <1>2, OneMoves DEF Call, new

\* What a thread is on the way down.
LEMMA ShapeOf ==
    ASSUME Shape, NEW t \in DOMAIN threads
    PROVE /\ IsContext(Ctx(t)) /\ DOMAIN threads[t] = ThreadFields
          /\ IsSeq(threads[t].stack) /\ Len(threads[t].stack) > 0 /\ IsSeq(threads[t].path)
          /\ threads[t].dir # "done" =>
                /\ FrameShape(prog, Frame(t)) /\ TopShape(prog, Frame(t), threads[t].dir)
                /\ Frame(t).step \in DOMAIN prog
                /\ Proc(t) \in Processors(Options(t))
  BY DEF Shape, ThreadShape, ThreadType, Ctx, Frame, Proc, Options, FrameShape

\* What its processor has kept, on the way back.
LEMMA SavedShape ==
    ASSUME Shape, NEW t \in DOMAIN threads, threads[t].dir \in {"up", "merged", "waiting"}
    PROVE Proc(t) \in DOMAIN Frame(t).saved /\ Kept(Proc(t), Saved(t, Proc(t)))
<1> DEFINE f == Frame(t)
<1>1. FrameShape(prog, f) /\ TopShape(prog, f, threads[t].dir) /\ f.at = Proc(t)
  BY ShapeOf DEF Frame, Proc
<1> HIDE DEF f
<1>2. f.at \in UpTo(prog[f.step], f.at)
  <2>1. f.at \in Processors(prog[f.step]) /\ Order[f.at] <= Order[f.at]
    BY <1>1, ProcessorsType, OrderType DEF FrameShape
  <2> QED BY <2>1 DEF UpTo
<1>3. f.at \in DOMAIN f.saved
  BY <1>1, <1>2 DEF TopShape
<1> QED BY <1>1, <1>3 DEF FrameShape, Saved, f


\* Contexts.
LEMMA ContextType ==
    ASSUME NEW c, IsContext(c)
    PROVE /\ \A t, h : IsContext(DeepCopy(t, c, h)) /\ IsContext(InheritContext(t, c, h))
          /\ \A n : IsContext(WithNamespace(c, n))
          /\ \A s : IsContext(Instance(c, s))
          /\ IsContext(Cleared(c))
          /\ \A t : Ctx(t) = c => IsContext(Unredirected(t))
  BY DEF IsContext, ContextFields, DeepCopy, InheritContext, WithNamespace, Instance, Cleared,
         Unredirected

LEMMA NewContextType ==
    ASSUME NEW t, NEW h
    PROVE IsContext(NewContext(t, h))
  BY DEF IsContext, ContextFields, NewContext

\* Of the processors that keep something for the way back, these must keep the right thing.
LEMMA KeptAny ==
    ASSUME NEW p, p \notin {"recover", "output", "needs", "inherit", "and"}, NEW v
    PROVE Kept(p, v)
  BY DEF Kept

\* The next needed step is one of them.
LEMMA NextNeededType ==
    ASSUME NEW t, NEW c, NEW i \in Nat \ {0}, Options(t).needs \in Seq(DOMAIN prog)
    PROVE LET j == NextNeeded(t, c, i)
          IN  j = 0 \/ (j \in Nat /\ j > 0 /\ Options(t).needs[j] \in DOMAIN prog)
<1> DEFINE needs == Options(t).needs
           left == {j \in i .. Len(needs) : needs[j] \notin DOMAIN heap[c.steps]}
           j == NextNeeded(t, c, i)
<1>1. Len(needs) \in Nat /\ left \subseteq Nat
  BY LenProperties
<1>2. CASE left = {}
  BY <1>2 DEF NextNeeded
<1>3. CASE left # {}
  <2>1. PICK least \in left : \A n \in left : <<n, least>> \notin OpToRel(<, Nat)
    BY <1>1, <1>3, NatLessThanWellFounded, WFMin
  <2>2. \A k \in left : least <= k
    <3> TAKE k \in left
    <3>1. ~(k < least)
      BY <1>1, <2>1 DEF OpToRel
    <3> QED BY <1>1, <3>1
  <2>3. j = CHOOSE m \in left : \A k \in left : m <= k
    BY <1>3 DEF NextNeeded
  <2>4. j \in left
    <3> HIDE DEF left, j
    <3> QED BY <2>2, <2>3
  <2>5. j \in 1 .. Len(needs)
    BY <1>1, <2>4
  <2>6. needs[j] \in DOMAIN prog
    BY <1>1, <2>5, ElementOfSeq
  <2> HIDE DEF j, needs
  <2> QED BY <2>5, <2>6, <1>1 DEF j, needs
<1> QED BY <1>2, <1>3

\* The references of a step.
LEMMA ReferencesType ==
    ASSUME Shape, NEW s \in DOMAIN prog
    PROVE /\ prog[s].and \in Seq(DOMAIN prog) /\ prog[s].concurrent \in Seq(DOMAIN prog)
          /\ prog[s].needs \in Seq(DOMAIN prog)
          /\ prog[s].inherit \in DOMAIN prog \cup {""}
          /\ "main" \in DOMAIN prog
  BY ProgramsAssumption DEF ProgramsAssumption, Shape


\* Recover, retry, result.
LEMMA FirstShape ==
    ASSUME Shape, NEW t \in DOMAIN threads,
           \/ EnterRecover(t) \/ LeaveRecover(t) \/ EnterRetry(t) \/ LeaveRetry(t)
           \/ EnterResult(t) \/ LeaveResult(t)
    PROVE ShapeNext
<1>1. CASE EnterRecover(t)
  <2>1. Kept("recover", Ctx(t)) /\ IsContext(Ctx(t))
    BY ShapeOf DEF Kept
  <2> QED BY <1>1, <2>1, ForwardShape DEF EnterRecover, At
<1>2. CASE LeaveRecover(t)
  BY <1>2, ShapeOf, ReturnShape DEF LeaveRecover, At
<1>3. CASE EnterRetry(t)
  <2>1. At(t, "down", "retry")
    BY <1>3 DEF EnterRetry
  <2>2. CASE Ctx(t).alive
    <3> DEFINE v == [left |-> Options(t).retry, ctx |-> Ctx(t)]
    <3>1. Forward(t, Ctx(t), v)
      BY <1>3, <2>2 DEF EnterRetry
    <3> HIDE DEF v
    <3> QED BY <2>1, <3>1, ShapeOf, KeptAny, ForwardShape DEF At
  <2>3. CASE ~Ctx(t).alive
    BY <1>3, <2>1, <2>3, PanicShape DEF EnterRetry, At
  <2> QED BY <2>2, <2>3
<1>4. CASE LeaveRetry(t)
  <2> DEFINE v == Saved(t, "retry")
             again == [Ctx(t) EXCEPT !.expanding = v.ctx.expanding]
             kept == [left |-> v.left - 1, ctx |-> v.ctx]
             th == threads[t]
             old == [th EXCEPT !.dir = "down", !.err = "ok", !.ctx = again]
             new == SetTop(old, Onward(Keep(Top(th), kept)))
  <2>1. At(t, "up", "retry")
    BY <1>4 DEF LeaveRetry
  <2>2. CASE Return(t, Ctx(t), Err(t))
    BY <2>1, <2>2, ShapeOf, ReturnShape DEF At
  <2>3. CASE threads' = [threads EXCEPT ![t] =
                SetTop([@ EXCEPT !.dir = "down", !.err = "ok", !.ctx = again],
                       Onward(Keep(Top(@), kept)))]
    <3>1. ThreadShape(prog, th) /\ th.dir # "done" /\ FrameShape(prog, Top(th))
      BY <2>1, ShapeOf DEF Shape, At, Frame
    <3>2. /\ old.stack = th.stack /\ old.path = th.path /\ DOMAIN old = ThreadFields
          /\ IsContext(old.ctx) /\ old.dir = "down"
      <4>1. DOMAIN th = ThreadFields /\ IsContext(again)
        BY ShapeOf DEF IsContext
      <4> QED BY <4>1 DEF ThreadFields
    <3>3. Top(th).at = "retry" /\ Kept("retry", kept)
      BY <2>1, KeptAny DEF At, Proc
    <3> HIDE DEF old, kept, again, v
    <3>4. ThreadShape(prog, new)
      BY <3>1, <3>2, <3>3, OnwardShape
    <3>5. threads' = [threads EXCEPT ![t] = new]
      BY <2>3 DEF old
    <3> QED BY <3>4, <3>5, OneMoves
  <2> QED BY <1>4, <2>2, <2>3 DEF LeaveRetry
<1>5. CASE EnterResult(t)
  <2> DEFINE c == [Ctx(t) EXCEPT !.uname = Append(Ctx(t).ns, Frame(t).step)]
  <2>1. IsContext(c)
    BY ShapeOf DEF IsContext
  <2>2. Forward(t, c, TRUE) /\ At(t, "down", "result")
    BY <1>5 DEF EnterResult
  <2> HIDE DEF c
  <2> QED BY <2>1, <2>2, KeptAny, ForwardShape DEF At
<1>6. CASE LeaveResult(t)
  <2>1. IsContext(Cleared(Ctx(t)))
    BY ShapeOf, ContextType
  <2> QED BY <1>6, <2>1, ReturnShape DEF LeaveResult, At
<1> QED BY <1>1, <1>2, <1>3, <1>4, <1>5, <1>6

\* The maps of variables, outputs.
LEMMA VariablesShape ==
    ASSUME Shape, NEW t \in DOMAIN threads,
           \/ EnterInputs(t) \/ LeaveInputs(t)
           \/ \E k \in {"env", "secret"} : EnterVars(t, k) \/ LeaveVars(t, k) \/ LeaveVarsFails(t, k)
           \/ EnterOutputs(t) \/ LeaveOutputs(t) \/ PreparationFails(t)
    PROVE ShapeNext
<1> DEFINE th == threads[t]
<1>0. /\ ThreadShape(prog, th) /\ IsContext(Ctx(t)) /\ DOMAIN th = ThreadFields
      /\ th.dir # "done" => FrameShape(prog, Top(th)) /\ TopShape(prog, Top(th), th.dir)
  BY ShapeOf DEF Shape, Frame
<1>1. CASE EnterInputs(t)
  BY <1>1, ShapeOf, KeptAny, ForwardShape DEF EnterInputs, At
<1>2. CASE LeaveInputs(t)
  <2> DEFINE c == [Ctx(t) EXCEPT !.inputs = Fresh(t, "inputs", heap)]
  <2>1. IsContext(c)
    BY <1>0 DEF IsContext
  <2>2. Return(t, c, Err(t)) /\ At(t, "up", "inputs")
    BY <1>2 DEF LeaveInputs
  <2> HIDE DEF c
  <2> QED BY <2>1, <2>2, ReturnShape DEF At
<1>3. ASSUME NEW k \in {"env", "secret"}, EnterVars(t, k)
      PROVE ShapeNext
  <2> DEFINE f == [Top(th) EXCEPT !.published[k] = {}]
             v == Origin(t, k)
             new == SetTop(th, Onward(Keep(f, v)))
  <2>1. At(t, "down", k) /\ threads' = [threads EXCEPT ![t] = new]
    BY <1>3 DEF EnterVars
  <2>2. FrameShape(prog, Top(th)) /\ th.dir = "down" /\ Top(th).at = k
    BY <1>0, <2>1 DEF At, Proc
  <2>3. /\ DOMAIN f = FrameFields /\ f.step = Top(th).step /\ f.at = k
        /\ f.saved = Top(th).saved
    BY <2>2 DEF FrameShape, FrameFields
  <2> HIDE DEF f, v
  <2>4. FrameShape(prog, f) /\ Kept(f.at, v)
    BY <2>2, <2>3, KeptAny DEF FrameShape, FrameFields
  <2>5. IsContext(th.ctx)
    BY <1>0 DEF Ctx
  <2>6. ThreadShape(prog, new)
    BY <1>0, <2>2, <2>3, <2>4, <2>5, OnwardShape
  <2> HIDE DEF new
  <2> QED BY <2>1, <2>6, OneMoves
<1>4. ASSUME NEW k \in {"env", "secret"}, LeaveVars(t, k)
      PROVE ShapeNext
  <2> DEFINE c == [Ctx(t) EXCEPT ![k] = Fresh(t, k, heap)]
  <2>1. IsContext(c)
    BY <1>0 DEF IsContext
  <2>2. Return(t, c, Err(t)) /\ At(t, "up", k)
    BY <1>4 DEF LeaveVars
  <2> HIDE DEF c
  <2> QED BY <2>1, <2>2, ReturnShape DEF At
<1>5. ASSUME NEW dir \in {"down", "up"}, th.dir = dir, NEW r,
             NEW f, f = [Frame(t) EXCEPT !.unrestored = r],
             threads' = [threads EXCEPT ![t] = Returned(SetTop(@, f), Ctx(t), "hard")]
      PROVE ShapeNext
  <2>1. /\ FrameShape(prog, Top(th)) /\ TopShape(prog, Top(th), th.dir) /\ f.at = Top(th).at
        /\ DOMAIN f = FrameFields /\ f.step = Top(th).step /\ f.saved = Top(th).saved
    BY <1>0, <1>5 DEF FrameShape, FrameFields, Frame
  <2>2. FrameShape(prog, f) /\ TopShape(prog, f, th.dir)
    BY <2>1 DEF FrameShape, FrameFields, TopShape
  <2> DEFINE new == SetTop(th, f)
  <2>3. /\ ThreadShape(prog, new) /\ new.dir = th.dir
        /\ DOMAIN new = ThreadFields /\ IsSeq(new.stack)
    <3>1. th.dir \in Directions \ {"done"} /\ IsContext(th.ctx)
      BY <1>0, <1>5 DEF Directions, Ctx
    <3>2. ThreadShape(prog, new) /\ new.dir = th.dir
      BY <1>0, <1>5, <2>2, <3>1, TopMoved
    <3> QED BY <3>2 DEF ThreadShape, ThreadType
  <2>4. threads' = [threads EXCEPT ![t] = Returned(new, Ctx(t), "hard")]
    BY <1>5
  <2> HIDE DEF new
  <2>5. ThreadShape(prog, Returned(new, Ctx(t), "hard"))
    <3>1. CASE Top(new).at # "recover"
      BY <1>0, <1>5, <2>3, <3>1, ReturnedInside
    <3>2. CASE Top(new).at = "recover"
      BY <1>0, <1>5, <2>3, <3>2, ReturnedOut
    <3> QED BY <3>1, <3>2
  <2> QED BY <2>4, <2>5, OneMoves
<1>6. ASSUME NEW k \in {"env", "secret"}, LeaveVarsFails(t, k)
      PROVE ShapeNext
  BY <1>5, <1>6 DEF LeaveVarsFails, At
<1>7. CASE EnterOutputs(t)
  <2> DEFINE c == [Ctx(t) EXCEPT !.outlist = @ \cup {<<o, Ctx(t).uname>> : o \in Options(t).outputs}]
  <2>1. IsContext(c)
    BY <1>0 DEF IsContext
  <2>2. Forward(t, c, TRUE) /\ At(t, "down", "outputs")
    BY <1>7 DEF EnterOutputs
  <2> HIDE DEF c
  <2> QED BY <2>1, <2>2, KeptAny, ForwardShape DEF At
<1>8. CASE LeaveOutputs(t)
  BY <1>0, <1>8, ReturnShape DEF LeaveOutputs, At
<1>9. CASE PreparationFails(t)
  <2>1. th.dir \in {"down", "up"}
    BY <1>9 DEF PreparationFails, At
  <2> QED BY <1>5, <1>9, <2>1 DEF PreparationFails
<1> QED BY <1>1, <1>2, <1>3, <1>4, <1>6, <1>7, <1>8, <1>9

\* Writers, conditions, the template.
LEMMA ChecksShape ==
    ASSUME Shape, NEW t \in DOMAIN threads,
           \/ EnterOutput(t) \/ LeaveOutput(t) \/ LeaveOutputFails(t)
           \/ Skip(t) \/ DoNotSkip(t) \/ ConditionFails(t) \/ LeaveCheck(t)
           \/ AllowFailure(t) \/ EnterTemplate(t) \/ LeaveTemplate(t)
           \/ EnterRedirect(t) \/ RedirectFails(t) \/ LeaveRedirect(t)
    PROVE ShapeNext
<1>0. IsContext(Ctx(t))
  BY ShapeOf
<1>1. CASE EnterOutput(t)
  <2> DEFINE own(w) == IF w = Discard THEN w ELSE <<"term", Frame(t).step>>
             c == [Ctx(t) EXCEPT !.stdout = own(@), !.stderr = own(@)]
  <2>1. IsContext(c)
    BY <1>0 DEF IsContext
  <2>2. /\ Forward(t, Ctx(t), FALSE) \/ Forward(t, c, TRUE)
        /\ At(t, "down", "output")
    BY <1>1 DEF EnterOutput
  <2>3. Kept("output", TRUE) /\ Kept("output", FALSE)
    BY DEF Kept
  <2> HIDE DEF c
  <2> QED BY <1>0, <2>1, <2>2, <2>3, ForwardShape DEF At
<1>2. CASE LeaveOutput(t)
  <2> DEFINE c == [Ctx(t) EXCEPT !.stdout = Nil, !.stderr = Nil]
  <2>1. IsContext(c)
    BY <1>0 DEF IsContext
  <2>2. /\ Return(t, Ctx(t), Err(t)) \/ Return(t, c, Err(t))
        /\ At(t, "up", "output")
    BY <1>2 DEF LeaveOutput
  <2> HIDE DEF c
  <2> QED BY <1>0, <2>1, <2>2, ReturnShape DEF At
<1>3. CASE Skip(t)
  BY <1>0, <1>3, ReturnShape DEF Skip, At
<1>4. CASE DoNotSkip(t)
  BY <1>0, <1>4, KeptAny, ForwardShape DEF DoNotSkip, At
<1>5. CASE ConditionFails(t)
  BY <1>0, <1>5, ReturnShape, PanicShape DEF ConditionFails, At
<1>6. CASE LeaveCheck(t)
  BY <1>0, <1>6, ReturnShape DEF LeaveCheck, At
<1>7. CASE AllowFailure(t)
  <2> DEFINE e == IF Err(t) = "ok" THEN "ok" ELSE "soft"
  <2>1. Return(t, Ctx(t), e) /\ At(t, "up", "soft")
    BY <1>7 DEF AllowFailure
  <2> HIDE DEF e
  <2> QED BY <1>0, <2>1, ReturnShape DEF At
<1>8. CASE EnterTemplate(t)
  <2> DEFINE a == IF Ctx(t).template = Nil THEN Global(Frame(t).step) ELSE Ctx(t).template
             c == [Ctx(t) EXCEPT !.template = a]
  <2>1. IsContext(c)
    BY <1>0 DEF IsContext
  <2>2. Forward(t, c, Ctx(t).template) /\ At(t, "down", "template")
    BY <1>8 DEF EnterTemplate
  <2> HIDE DEF c
  <2> QED BY <2>1, <2>2, KeptAny, ForwardShape DEF At
<1>9. CASE LeaveTemplate(t)
  <2> DEFINE c == [Ctx(t) EXCEPT !.template = Saved(t, "template")]
  <2>1. IsContext(c)
    BY <1>0 DEF IsContext
  <2>2. Return(t, c, Err(t)) /\ At(t, "up", "template")
    BY <1>9 DEF LeaveTemplate
  <2> HIDE DEF c
  <2> QED BY <2>1, <2>2, ReturnShape DEF At
<1>10. CASE EnterRedirect(t)
  <2> DEFINE c == [Ctx(t) EXCEPT !.stdout = Discard,
                                 !.files = @ \cup {<<x, Frame(t).step>> : x \in Options(t).redirect}]
             v == [stdout |-> Ctx(t).stdout, stderr |-> Ctx(t).stderr]
  <2>1. IsContext(c)
    BY <1>0 DEF IsContext
  <2>2. Forward(t, c, v) /\ At(t, "down", "redirect")
    BY <1>10 DEF EnterRedirect
  <2> HIDE DEF c, v
  <2> QED BY <2>1, <2>2, KeptAny, ForwardShape DEF At
<1>11. CASE LeaveRedirect(t)
  <2>1. IsContext(Unredirected(t))
    BY <1>0, ContextType
  <2> QED BY <1>11, <2>1, ReturnShape DEF LeaveRedirect, At
<1>12. CASE LeaveOutputFails(t)
  BY <1>0, <1>12, ReturnShape DEF LeaveOutputFails, At
<1>13. CASE RedirectFails(t)
  <2>1. PICK stream \in Options(t).redirect :
           LET first == IF stream = "stderr" THEN Options(t).redirect \cap {"stdout"} ELSE {}
           IN  Return(t, [Ctx(t) EXCEPT !.stdout = Discard,
                             !.closed = @ \cup {<<x, Frame(t).step>> : x \in first}], "hard")
    BY <1>13 DEF RedirectFails
  <2> DEFINE first == IF stream = "stderr" THEN Options(t).redirect \cap {"stdout"} ELSE {}
             c == [Ctx(t) EXCEPT !.stdout = Discard,
                      !.closed = @ \cup {<<x, Frame(t).step>> : x \in first}]
  <2>2. IsContext(c)
    BY <1>0 DEF IsContext
  <2>3. Return(t, c, "hard") /\ At(t, "down", "redirect")
    BY <1>13, <2>1 DEF RedirectFails
  <2> HIDE DEF c
  <2> QED BY <1>0, <2>2, <2>3, ReturnShape DEF At
<1> QED BY <1>1, <1>2, <1>3, <1>4, <1>5, <1>6, <1>7, <1>8, <1>9, <1>10, <1>11, <1>12, <1>13


\* The path of a thread.
LEMMA PathType ==
    ASSUME Shape, NEW t \in DOMAIN threads
    PROVE /\ IsSeq(Path(t))
          /\ \A x \in {threads[t].path[i] : i \in DOMAIN threads[t].path} :
                \E i \in DOMAIN Path(t) : Path(t)[i] = x
          /\ \A i \in 1 .. Len(threads[t].stack) :
                \E j \in DOMAIN Path(t) : Path(t)[j] = threads[t].stack[i].step
<1> DEFINE p == threads[t].path
           n == Len(threads[t].stack)
           q == [i \in DOMAIN threads[t].stack |-> threads[t].stack[i].step]
           S == {p[i] : i \in DOMAIN p} \cup {threads[t].stack[i].step : i \in 1 .. n}
<1>1. /\ IsSeq(p) /\ IsSeq(threads[t].stack)
      /\ n \in Nat /\ DOMAIN threads[t].stack = 1 .. n
      /\ Len(p) \in Nat /\ DOMAIN p = 1 .. Len(p)
  BY ShapeOf, SeqType
<1>2. p \in Seq(S)
  BY <1>1, SeqMonotonic DEF IsSeq
<1>3. q = [i \in 1 .. n |-> threads[t].stack[i].step] /\ q \in [1 .. n -> S]
  BY <1>1
<1>4. q \in Seq(S) /\ Len(q) = n
  <2> HIDE DEF q, S
  <2>1. q \in Seq(S)
    BY <1>1, <1>3, SeqDef
  <2>2. DOMAIN q = 1 .. n /\ DOMAIN q = 1 .. Len(q) /\ Len(q) \in Nat
    BY <1>3, <2>1, LenProperties
  <2>3. Len(q) = n
    BY <1>1, <2>2
  <2> QED BY <2>1, <2>3
<1>5. Path(t) = p \o q
  BY DEF Path
<1> HIDE DEF n, p, q, S
<1>6. /\ p \o q \in Seq(S) /\ Len(p \o q) = Len(p) + n
      /\ \A i \in 1 .. Len(p) + n : (p \o q)[i] = IF i <= Len(p) THEN p[i] ELSE q[i - Len(p)]
  BY <1>2, <1>4, ConcatProperties
<1>7. IsSeq(Path(t)) /\ DOMAIN Path(t) = 1 .. Len(p) + n
  BY <1>5, <1>6, SeqOfElements, LenProperties
<1>8. \A i \in DOMAIN p : i \in DOMAIN Path(t) /\ Path(t)[i] = p[i]
  BY <1>1, <1>5, <1>6, <1>7
<1>9. \A i \in 1 .. n : Len(p) + i \in DOMAIN Path(t) /\ Path(t)[Len(p) + i] = q[i]
  BY <1>1, <1>5, <1>6, <1>7
<1>10. \A i \in 1 .. n : q[i] = threads[t].stack[i].step
  BY <1>3
<1>11. \A i \in 1 .. n : \E j \in DOMAIN Path(t) : Path(t)[j] = threads[t].stack[i].step
  BY <1>9, <1>10
<1> QED BY <1>7, <1>8, <1>11 DEF n, p

\* Needs, and, inherit.
LEMMA CallsShape ==
    ASSUME Shape, NEW t \in DOMAIN threads,
           \/ EnterNeeds(t) \/ NeededReturns(t) \/ MoreNeeds(t) \/ LeaveNeeds(t)
           \/ EnterAnd(t) \/ ReferenceReturns(t)
           \/ EnterInherit(t) \/ InheritedReturns(t) \/ LeaveInherit(t)
    PROVE ShapeNext
<1> DEFINE th == threads[t]
<1>0. /\ IsContext(Ctx(t)) /\ DOMAIN th = ThreadFields /\ ThreadShape(prog, th) /\ IsSeq(t)
      /\ th.dir # "done" =>
            /\ Frame(t).step \in DOMAIN prog /\ FrameShape(prog, Top(th))
            /\ Options(t).and \in Seq(DOMAIN prog)
            /\ Options(t).needs \in Seq(DOMAIN prog)
            /\ Options(t).inherit \in DOMAIN prog \cup {""}
            /\ Proc(t) \in Processors(Options(t))
  BY ShapeOf, ReferencesType DEF Shape, Options, Frame
<1>1. ASSUME NEW i \in Nat, i > 0, Options(t).needs[i] \in DOMAIN prog, CallNeeded(t, Ctx(t), i),
             Proc(t) = "needs", th.dir # "done"
      PROVE ShapeNext
  <2> DEFINE new == [NewContext(t, heap) EXCEPT !.template = Fresh(t, "template", heap)]
             h == Assign(NewHeap(t, heap), new.template, heap[Ctx(t).template])
             v == [next |-> i + 1, ctx |-> Ctx(t)]
             s == Options(t).needs[i]
  <2>1. IsContext(new)
    BY NewContextType DEF IsContext
  <2>2. Call(t, s, new, h, v) /\ s \in DOMAIN prog
    BY <1>1 DEF CallNeeded
  <2>3. v.next \in Nat /\ v.next > 0 /\ IsContext(v.ctx)
    <3>1. v.next = i + 1 /\ v.ctx = Ctx(t)
      OBVIOUS
    <3>2. i + 1 \in Nat /\ i + 1 > 0
      BY <1>1
    <3> QED BY <1>0, <3>1, <3>2
  <2> HIDE DEF new, h, v, s
  <2>4. Kept("needs", v) /\ CalledFrom("needs", v)
    BY <2>3 DEF Kept, CalledFrom
  <2> QED BY <1>1, <2>1, <2>2, <2>4, CallShape
<1>2. CASE EnterNeeds(t)
  <2> DEFINE i == NextNeeded(t, Ctx(t), 1)
  <2>1. At(t, "down", "needs") /\ th.dir = "down" /\ Proc(t) = "needs"
    BY <1>2 DEF EnterNeeds, At
  <2>2. i = 0 \/ (i \in Nat /\ i > 0 /\ Options(t).needs[i] \in DOMAIN prog)
    <3>1. Options(t).needs \in Seq(DOMAIN prog)
      BY <1>0, <2>1
    <3>2. 1 \in Nat \ {0}
      OBVIOUS
    <3> QED BY <3>1, <3>2, NextNeededType
  <2>3. \/ i = 0 /\ Forward(t, Ctx(t), [next |-> 0])
        \/ i # 0 /\ CallNeeded(t, Ctx(t), i)
    BY <1>2 DEF EnterNeeds
  <2> HIDE DEF i
  <2>4. Kept("needs", [next |-> 0])
    BY DEF Kept
  <2> QED BY <1>0, <1>1, <2>1, <2>2, <2>3, <2>4, ForwardShape
<1>3. CASE NeededReturns(t)
  <2> DEFINE c == Saved(t, "needs").ctx
             old == [th EXCEPT !.ctx = c, !.dir = "merged"]
  <2>1. At(t, "up", "needs") /\ th.dir = "up" /\ Proc(t) = "needs" /\ Saved(t, "needs").next > 0
    BY <1>3 DEF NeededReturns, At
  <2>2. IsContext(c)
    BY <2>1, SavedShape DEF Kept
  <2>3. \/ threads' = [threads EXCEPT ![t] = Returned(@, c, Err(t))]
        \/ threads' = [threads EXCEPT ![t] = SetTop([@ EXCEPT !.ctx = c, !.dir = "merged"], Top(@))]
    BY <1>3 DEF NeededReturns
  <2>4. CASE threads' = [threads EXCEPT ![t] = Returned(@, c, Err(t))]
    <3>1. Return(t, c, Err(t))
      BY <2>4 DEF Return
    <3> HIDE DEF c
    <3> QED BY <2>1, <2>2, <3>1, ReturnShape
  <2>5. CASE threads' = [threads EXCEPT ![t] = SetTop([@ EXCEPT !.ctx = c, !.dir = "merged"], Top(@))]
    <3>1. threads' = [threads EXCEPT ![t] = SetTop(old, Top(th))]
      BY <2>5
    <3>2. /\ old.stack = th.stack /\ old.path = th.path /\ DOMAIN old = ThreadFields
          /\ old.ctx = c /\ old.dir = "merged" /\ "merged" \in Directions \ {"done"}
      BY <1>0 DEF ThreadFields, Directions
    <3>3. TopShape(prog, Top(th), "merged")
      BY <2>1, ShapeOf DEF TopShape, Frame, Proc, Saved
    <3> HIDE DEF old, c
    <3>4. ThreadShape(prog, SetTop(old, Top(th)))
      BY <1>0, <2>1, <2>2, <3>2, <3>3, TopMoved
    <3> QED BY <3>1, <3>4, OneMoves
  <2> QED BY <2>3, <2>4, <2>5
<1>4. CASE MoreNeeds(t)
  <2> DEFINE i == NextNeeded(t, Ctx(t), Saved(t, "needs").next)
             old == [th EXCEPT !.dir = "down"]
             v == [next |-> 0]
             new == SetTop(old, Onward(Keep(Top(old), v)))
  <2>1. At(t, "merged", "needs") /\ th.dir = "merged" /\ Proc(t) = "needs"
    BY <1>4 DEF MoreNeeds, At
  <2>2. \/ i # 0 /\ CallNeeded(t, Ctx(t), i)
        \/ threads' = [threads EXCEPT ![t] = new]
    BY <1>4 DEF MoreNeeds
  <2>3. Saved(t, "needs").next \in Nat \ {0}
    <3>1. TopShape(prog, Frame(t), "merged")
      BY <2>1, ShapeOf
    <3>2. Saved(t, "needs").next > 0
      BY <3>1 DEF TopShape, Saved
    <3>3. Kept("needs", Saved(t, "needs"))
      BY <2>1, SavedShape
    <3> QED BY <3>2, <3>3 DEF Kept
  <2>4. i = 0 \/ (i \in Nat /\ i > 0 /\ Options(t).needs[i] \in DOMAIN prog)
    <3> DEFINE n == Saved(t, "needs").next
    <3>1. Options(t).needs \in Seq(DOMAIN prog) /\ n \in Nat \ {0}
      BY <1>0, <2>1, <2>3
    <3> HIDE DEF n
    <3>2. NextNeeded(t, Ctx(t), n) = 0
            \/ (NextNeeded(t, Ctx(t), n) \in Nat /\ NextNeeded(t, Ctx(t), n) > 0
                 /\ Options(t).needs[NextNeeded(t, Ctx(t), n)] \in DOMAIN prog)
      BY <3>1, NextNeededType
    <3> QED BY <3>2 DEF n
  <2> HIDE DEF i
  <2>5. CASE threads' = [threads EXCEPT ![t] = new]
    <3>1. /\ old.stack = th.stack /\ old.path = th.path /\ DOMAIN old = ThreadFields
          /\ IsContext(old.ctx) /\ old.dir = "down"
      BY <1>0 DEF ThreadFields, Ctx
    <3>2. Top(old) = Top(th) /\ Top(th).at = "needs" /\ Kept("needs", v)
      BY <2>1, <3>1 DEF Top, Proc, Kept
    <3>3. new = SetTop(old, Onward(Keep(Top(th), v)))
      BY <3>2
    <3> HIDE DEF old, v, new
    <3>4. ThreadShape(prog, SetTop(old, Onward(Keep(Top(th), v))))
      BY <1>0, <2>1, <3>1, <3>2, OnwardShape
    <3>5. ThreadShape(prog, new)
      BY <3>3, <3>4
    <3> QED BY <2>5, <3>5, OneMoves
  <2> QED BY <1>0, <1>1, <2>1, <2>2, <2>4, <2>5
<1>5. CASE LeaveNeeds(t)
  BY <1>0, <1>5, ReturnShape DEF LeaveNeeds, At
<1>6. CASE EnterAnd(t)
  <2>1. At(t, "down", "and") /\ th.dir = "down" /\ Proc(t) = "and"
    BY <1>6 DEF EnterAnd, At
  <2>2. Options(t).and \in Seq(DOMAIN prog) /\ Options(t).and # <<>>
    BY <1>0, <2>1 DEF Processors
  <2>3. Options(t).and[1] \in DOMAIN prog
    <3> DEFINE refs == Options(t).and
    <3>1. refs \in Seq(DOMAIN prog) /\ Len(refs) \in Nat \ {0}
      BY <2>2, EmptySeq
    <3> HIDE DEF refs
    <3>2. 1 \in 1 .. Len(refs)
      BY <3>1
    <3>3. refs[1] \in DOMAIN prog
      BY <3>1, <3>2, ElementOfSeq
    <3> QED BY <3>3 DEF refs
  <2>4. Kept("and", 1) /\ CalledFrom("and", 1)
    BY DEF Kept, CalledFrom
  <2>5. Call(t, Options(t).and[1], Ctx(t), heap, 1)
    BY <1>6 DEF EnterAnd
  <2> QED BY <1>0, <2>1, <2>3, <2>4, <2>5, CallShape
<1>7. CASE ReferenceReturns(t)
  <2> DEFINE i == Saved(t, "and")
             refs == Options(t).and
             old == [th EXCEPT !.dir = "down"]
             new == SetTop(old, Onward(Keep(Top(th), i + 1)))
  <2>1. At(t, "up", "and") /\ th.dir = "up" /\ Proc(t) = "and"
    BY <1>7 DEF ReferenceReturns, At
  <2>2. i \in Nat /\ refs \in Seq(DOMAIN prog)
    BY <1>0, <2>1, SavedShape DEF Kept
  <2>3. \/ Return(t, Ctx(t), Err(t))
        \/ i < Len(refs) /\ Call(t, refs[i + 1], Ctx(t), heap, i + 1)
        \/ threads' = [threads EXCEPT ![t] = new]
    BY <1>7 DEF ReferenceReturns
  <2>4. Kept("and", i + 1) /\ CalledFrom("and", i + 1)
    <3>1. i + 1 \in Nat
      BY <2>2
    <3> QED BY <3>1 DEF Kept, CalledFrom
  <2>5. CASE i < Len(refs) /\ Call(t, refs[i + 1], Ctx(t), heap, i + 1)
    <3> HIDE DEF i, refs
    <3>1. i + 1 \in 1 .. Len(refs)
      BY <2>2, <2>5, LenProperties
    <3>2. refs[i + 1] \in DOMAIN prog
      BY <2>2, <3>1, ElementOfSeq
    <3> QED BY <1>0, <2>1, <2>4, <2>5, <3>2, CallShape
  <2>6. CASE threads' = [threads EXCEPT ![t] = new]
    <3>1. /\ old.stack = th.stack /\ old.path = th.path /\ DOMAIN old = ThreadFields
          /\ IsContext(old.ctx) /\ old.dir = "down" /\ Top(th).at = "and"
      BY <1>0, <2>1 DEF ThreadFields, Ctx, Proc
    <3> HIDE DEF old, i
    <3>2. ThreadShape(prog, new)
      BY <1>0, <2>1, <2>4, <3>1, OnwardShape
    <3> HIDE DEF new
    <3> QED BY <2>6, <3>2, OneMoves
  <2> QED BY <1>0, <2>1, <2>3, <2>5, <2>6, ReturnShape
<1>8. CASE EnterInherit(t)
  <2> DEFINE c == InheritContext(t, Ctx(t), heap)
             h == InheritHeap(t, Ctx(t), heap)
             v == [called |-> TRUE, ctx |-> Ctx(t)]
             s == Options(t).inherit
  <2>1. At(t, "down", "inherit") /\ th.dir = "down" /\ Proc(t) = "inherit"
    BY <1>8 DEF EnterInherit, At
  <2>2. Call(t, s, c, h, v) \/ Return(t, Ctx(t), "hard")
    BY <1>8 DEF EnterInherit
  <2>3. IsContext(c)
    BY <1>0, ContextType
  <2>4. s \in DOMAIN prog
    BY <1>0, <2>1 DEF Processors
  <2>5. v.called = TRUE /\ IsContext(v.ctx)
    BY <1>0
  <2> HIDE DEF c, h, v, s
  <2>6. Kept("inherit", v) /\ CalledFrom("inherit", v)
    BY <2>5 DEF Kept, CalledFrom
  <2> QED BY <1>0, <2>1, <2>2, <2>3, <2>4, <2>6, CallShape, ReturnShape
<1>9. CASE InheritedReturns(t)
  <2> DEFINE c == Saved(t, "inherit").ctx
             old == [th EXCEPT !.dir = "down", !.ctx = c]
             v == [called |-> FALSE]
             new == SetTop(old, Onward(Keep(Top(th), v)))
  <2>1. /\ At(t, "up", "inherit") /\ th.dir = "up" /\ Proc(t) = "inherit"
        /\ Saved(t, "inherit").called
    BY <1>9 DEF InheritedReturns, At
  <2>2. IsContext(c)
    BY <2>1, SavedShape DEF Kept
  <2>3. Return(t, c, Err(t)) \/ threads' = [threads EXCEPT ![t] = new]
    BY <1>9 DEF InheritedReturns
  <2>4. CASE threads' = [threads EXCEPT ![t] = new]
    <3>1. /\ old.stack = th.stack /\ old.path = th.path /\ DOMAIN old = ThreadFields
          /\ old.ctx = c /\ old.dir = "down" /\ Top(th).at = "inherit" /\ Kept("inherit", v)
      BY <1>0, <2>1 DEF ThreadFields, Proc, Kept
    <3>3. IsContext(old.ctx)
      BY <2>2, <3>1
    <3> HIDE DEF old, v, c
    <3>4. /\ th.dir # "done" /\ FrameShape(prog, Top(th)) /\ Top(th).at # "end"
          /\ Kept(Top(th).at, v)
      BY <1>0, <2>1, <3>1
    <3>5. old.stack = th.stack /\ old.path = th.path /\ DOMAIN old = ThreadFields /\ old.dir = "down"
      BY <3>1
    <3>2. ThreadShape(prog, new)
      BY <1>0, <3>3, <3>4, <3>5, OnwardShape
    <3> HIDE DEF new
    <3> QED BY <2>4, <3>2, OneMoves
  <2> HIDE DEF c, new
  <2> QED BY <2>1, <2>2, <2>3, <2>4, ReturnShape
<1>10. CASE LeaveInherit(t)
  BY <1>0, <1>10, ReturnShape DEF LeaveInherit, At
<1> QED BY <1>2, <1>3, <1>4, <1>5, <1>6, <1>7, <1>8, <1>9, <1>10


\* No step changes the pipeline.
LEMMA ProgUnchanged ==
    ASSUME NEW t, Step(t)
    PROVE prog' = prog
  BY DEF Step, EnterRecover, LeaveRecover, EnterRetry, LeaveRetry, EnterResult, LeaveResult,
         EnterInputs, LeaveInputs, EnterVars, LeaveVars, LeaveVarsFails, EnterOutputs, LeaveOutputs,
         PreparationFails, EnterOutput, LeaveOutput, LeaveOutputFails, Skip, DoNotSkip, ConditionFails, LeaveCheck,
         AllowFailure, EnterTemplate, LeaveTemplate, EnterRedirect, RedirectFails, LeaveRedirect, EnterNeeds,
         NeededReturns, MoreNeeds, LeaveNeeds, EnterAnd, ReferenceReturns, EnterInherit,
         InheritedReturns, LeaveInherit, StartContainer, StartFails, ContainerEnds, LeaveRun,
         EnterConcurrent, EnterMatrix, LeaveGroup, Receive, End


LEMMA MapsCopyType ==
    ASSUME NEW a, NEW b
    PROVE /\ DOMAIN MapsCopy(a, b) = DOMAIN a \cup DOMAIN b
          /\ \A x \in DOMAIN b : MapsCopy(a, b)[x] = b[x]
          /\ \A x \in DOMAIN a \ DOMAIN b : MapsCopy(a, b)[x] = a[x]
  BY DEF MapsCopy

\* What a fork leaves: the thread itself, its goroutines, and the others as they were.
ForkEffect(t, step, context, c) ==
    LET forked == {Append(t, x) : x \in DOMAIN step}
    IN  /\ \A x : /\ IsSeq(Append(t, x)) /\ Append(t, x)[Len(Append(t, x))] = x
                  /\ Len(Append(t, x)) = Len(t) + 1
                  /\ \A i \in 1 .. Len(t) : Append(t, x)[i] = t[i]
        /\ t \notin forked
        /\ DOMAIN threads' = DOMAIN threads \cup forked
        /\ \A x \in DOMAIN step :
              threads'[Append(t, x)] = NewThread(step[x], context[x], heap', Path(t))
        /\ threads'[t] = SetTop([threads[t] EXCEPT !.ctx = c, !.dir = "waiting"],
                                Keep(Frame(t), "ok"))
        /\ \A u \in DOMAIN threads \ ({t} \cup forked) : threads'[u] = threads[u]

LEMMA Forked ==
    ASSUME Shape, NEW t \in DOMAIN threads, NEW step, NEW context, NEW c,
           Fork(t, step, context, c)
    PROVE ForkEffect(t, step, context, c)
<1> DEFINE forked == {Append(t, x) : x \in DOMAIN step}
           h == MapsCopy(heap, [a \in {Fresh(u, k, heap) : u \in forked, k \in Copied(c)} |->
                                   heap[c[a[2]]]])
           new == [u \in forked |-> NewThread(step[u[Len(u)]], context[u[Len(u)]], h, Path(t))]
           waiting == SetTop([threads[t] EXCEPT !.ctx = c, !.dir = "waiting"],
                             Keep(Frame(t), "ok"))
           left == [threads EXCEPT ![t] = waiting]
<1>1. heap' = h /\ threads' = MapsCopy(left, new)
  BY DEF Fork
<1>2. \A x : /\ IsSeq(Append(t, x)) /\ Append(t, x)[Len(Append(t, x))] = x
             /\ Len(Append(t, x)) = Len(t) + 1
             /\ \A i \in 1 .. Len(t) : Append(t, x)[i] = t[i]
  <2> TAKE x
  <2>1. IsSeq(t)
    BY DEF Shape
  <2> QED BY <2>1, Pushed
<1>3. t \notin forked
  <2> SUFFICES ASSUME NEW x, Append(t, x) = t
               PROVE FALSE
    OBVIOUS
  <2>1. Len(t) \in Nat /\ Len(t) = Len(t) + 1
    BY <1>2, SeqType DEF Shape
  <2> QED BY <2>1
<1>4. DOMAIN left = DOMAIN threads /\ left[t] = waiting
      /\ \A u \in DOMAIN threads \ {t} : left[u] = threads[u]
  OBVIOUS
<1> HIDE DEF h
<1>5. /\ DOMAIN new = forked
      /\ \A x \in DOMAIN step : new[Append(t, x)] = NewThread(step[x], context[x], h, Path(t))
  <2>1. DOMAIN new = forked
    OBVIOUS
  <2>2. ASSUME NEW x \in DOMAIN step
        PROVE new[Append(t, x)] = NewThread(step[x], context[x], h, Path(t))
    <3> DEFINE u == Append(t, x)
    <3>1. u \in forked /\ u[Len(u)] = x
      BY <1>2
    <3>2. new[u] = NewThread(step[u[Len(u)]], context[u[Len(u)]], h, Path(t))
      BY <3>1
    <3> HIDE DEF u, new
    <3>3. new[u] = NewThread(step[x], context[x], h, Path(t))
      BY <3>1, <3>2
    <3> QED BY <3>3 DEF u
  <2> QED BY <2>1, <2>2
<1> HIDE DEF left, new, waiting
<1>6. /\ DOMAIN threads' = DOMAIN threads \cup forked
      /\ \A u \in forked : threads'[u] = new[u]
      /\ \A u \in DOMAIN threads \ forked : threads'[u] = left[u]
  <2>1. /\ DOMAIN MapsCopy(left, new) = DOMAIN left \cup DOMAIN new
        /\ \A x \in DOMAIN new : MapsCopy(left, new)[x] = new[x]
        /\ \A x \in DOMAIN left \ DOMAIN new : MapsCopy(left, new)[x] = left[x]
    BY MapsCopyType
  <2> QED BY <1>1, <1>4, <1>5, <2>1
<1>7. \A x \in DOMAIN step :
         threads'[Append(t, x)] = NewThread(step[x], context[x], heap', Path(t))
  BY <1>1, <1>5, <1>6
<1>8. threads'[t] = waiting
  BY <1>3, <1>4, <1>6
<1>9. \A u \in DOMAIN threads \ ({t} \cup forked) : threads'[u] = threads[u]
  BY <1>4, <1>6
<1> QED BY <1>2, <1>3, <1>6, <1>7, <1>8, <1>9 DEF waiting, ForkEffect

LEMMA ForkShape ==
    ASSUME Shape, NEW t \in DOMAIN threads, threads[t].dir = "down",
           Proc(t) \in {"matrix", "concurrent"},
           NEW step, NEW context, NEW c, IsContext(c),
           \A x \in DOMAIN step : step[x] \in DOMAIN prog /\ IsContext(context[x]),
           Fork(t, step, context, c)
    PROVE ShapeNext
<1> DEFINE th == threads[t]
           f == Frame(t)
           k == Keep(f, "ok")
           old == [th EXCEPT !.ctx = c, !.dir = "waiting"]
           forked == {Append(t, x) : x \in DOMAIN step}
<1>1. /\ ThreadShape(prog, th) /\ FrameShape(prog, f) /\ TopShape(prog, f, "down")
      /\ DOMAIN th = ThreadFields /\ f.at \in {"matrix", "concurrent"} /\ IsSeq(t)
  BY ShapeOf DEF Shape, Proc, Frame
<1>2. /\ old.stack = th.stack /\ old.path = th.path /\ DOMAIN old = ThreadFields
      /\ old.ctx = c /\ old.dir = "waiting" /\ "waiting" \in Directions \ {"done"}
  BY <1>1 DEF ThreadFields, Directions
<1> HIDE DEF f, old
<1>3. FrameShape(prog, k) /\ TopShape(prog, k, "waiting")
  <2>1. /\ DOMAIN f = FrameFields /\ f.step \in DOMAIN prog
        /\ f.at \in Processors(prog[f.step]) /\ f.at # "end"
        /\ \A p \in DOMAIN f.saved : Kept(p, f.saved[p])
    BY <1>1 DEF FrameShape, FrameFields
  <2>2. UpTo(prog[f.step], f.at) = Before(prog[f.step], f.at) \cup {f.at}
    BY <2>1, EnteredNext
  <2>3. /\ DOMAIN k = FrameFields
        /\ k.step = f.step /\ k.at = f.at
        /\ DOMAIN k.saved = DOMAIN f.saved \cup {f.at}
        /\ k.saved[f.at] = "ok"
        /\ \A p \in DOMAIN f.saved \ {f.at} : k.saved[p] = f.saved[p]
    BY <2>1, KeepType
  <2> HIDE DEF k
  <2>4. Kept(f.at, "ok")
    BY <1>1, KeptAny
  <2>5. \A p \in DOMAIN k.saved : Kept(p, k.saved[p])
    BY <2>1, <2>3, <2>4
  <2>6. FrameShape(prog, k)
    BY <2>1, <2>3, <2>5 DEF FrameShape, FrameFields
  <2>7. TopShape(prog, k, "waiting")
    BY <1>1, <2>2, <2>3 DEF TopShape
  <2> QED BY <2>6, <2>7 DEF k
<1> HIDE DEF k
<1>4. ThreadShape(prog, SetTop(old, k))
  BY <1>1, <1>2, <1>3, TopMoved
<1> USE DEF ForkEffect
<1>f. ForkEffect(t, step, context, c)
  BY Forked
<1>5. threads'[t] = SetTop(old, k)
  BY <1>f DEF old, k, f
<1>6. ASSUME NEW x \in DOMAIN step
      PROVE IsSeq(Append(t, x)) /\ ThreadShape(prog, threads'[Append(t, x)])
  <2>1. ThreadShape(prog, NewThread(step[x], context[x], heap', Path(t)))
    BY <1>6, NewThreadShape, PathType
  <2> QED BY <1>f, <2>1
<1>7. ASSUME NEW u \in DOMAIN threads \ ({t} \cup forked)
      PROVE IsSeq(u) /\ ThreadShape(prog, threads'[u])
  <2>1. threads'[u] = threads[u]
    BY <1>f
  <2> QED BY <2>1 DEF Shape
<1>8. DOMAIN threads' = DOMAIN threads \cup forked
  BY <1>f
<1> QED BY <1>1, <1>4, <1>5, <1>6, <1>7, <1>8 DEF ShapeNext

\* Run, concurrent, matrix, the end of a chain.
LEMMA ContainerShape ==
    ASSUME Shape, NEW t \in DOMAIN threads,
           \/ StartContainer(t) \/ StartFails(t) \/ ContainerEnds(t) \/ LeaveRun(t)
           \/ EnterConcurrent(t) \/ EnterMatrix(t) \/ LeaveGroup(t) \/ End(t)
    PROVE ShapeNext
<1> DEFINE th == threads[t]
<1>0. /\ IsContext(Ctx(t)) /\ DOMAIN th = ThreadFields /\ ThreadShape(prog, th)
      /\ th.dir # "done" =>
            /\ FrameShape(prog, Top(th)) /\ TopShape(prog, Top(th), th.dir)
            /\ Frame(t).step \in DOMAIN prog
  BY ShapeOf DEF Shape, Frame
<1>1. CASE StartContainer(t)
  <2> DEFINE old == [th EXCEPT !.dir = "running"]
  <2>1. At(t, "down", "run") /\ th.dir = "down" /\ Top(th).at = "run"
    BY <1>1 DEF StartContainer, At, Proc
  <2>2. \/ threads' = [threads EXCEPT ![t].dir = "running"]
        \/ Panic(t)
    BY <1>1 DEF StartContainer
  <2>3. CASE threads' = [threads EXCEPT ![t].dir = "running"]
    <3>1. threads' = [threads EXCEPT ![t] = old]
      BY <2>3
    <3>2. /\ old.stack = th.stack /\ old.path = th.path /\ DOMAIN old = ThreadFields
          /\ old.ctx = th.ctx /\ old.dir = "running"
      BY <1>0 DEF ThreadFields
    <3>3. TopShape(prog, Top(th), "running") /\ Top(old) = Top(th)
      BY <1>0, <2>1, <3>2 DEF TopShape, Top
    <3> HIDE DEF old
    <3>4. ThreadShape(prog, old)
      BY <1>0, <2>1, <3>2, <3>3 DEF ThreadShape, ThreadType, Directions
    <3> QED BY <3>1, <3>4, OneMoves
  <2> QED BY <2>1, <2>2, <2>3, PanicShape DEF Proc
<1>2. CASE StartFails(t)
  BY <1>0, <1>2, ReturnShape DEF StartFails, At
<1>3. CASE ContainerEnds(t)
  <2>1. At(t, "running", "run") /\ th.dir = "running" /\ Top(th).at = "run" /\ th.dir # "done"
    BY <1>3 DEF ContainerEnds, At, Proc
  <2>2. PICK wrote \in {{}, Options(t).publishes} :
           LET f == [Frame(t) EXCEPT !.published = [k \in {"env", "secret"} |-> wrote]]
               new == SetTop([threads[t] EXCEPT !.dir = "down"], f)
           IN  \/ threads' = [threads EXCEPT ![t] = SetTop(new, Onward(Keep(f, TRUE)))]
               \/ threads' = [threads EXCEPT ![t] = Returned(new, Ctx(t), "hard")]
    BY <1>3 DEF ContainerEnds
  <2> DEFINE f == [Frame(t) EXCEPT !.published = [k \in {"env", "secret"} |-> wrote]]
             old == [th EXCEPT !.dir = "down"]
             new == SetTop(old, f)
  <2>3. /\ DOMAIN f = FrameFields /\ f.step = Top(th).step /\ f.at = "run"
        /\ f.saved = Top(th).saved
    BY <1>0, <2>1 DEF FrameShape, FrameFields, Frame
  <2>4. /\ old.stack = th.stack /\ old.path = th.path /\ DOMAIN old = ThreadFields
        /\ old.ctx = th.ctx /\ old.dir = "down" /\ "down" \in Directions \ {"done"}
        /\ IsContext(old.ctx)
    BY <1>0 DEF ThreadFields, Directions, Ctx
  <2>5. \/ threads' = [threads EXCEPT ![t] = SetTop(new, Onward(Keep(f, TRUE)))]
        \/ threads' = [threads EXCEPT ![t] = Returned(new, Ctx(t), "hard")]
    BY <2>2
  <2> HIDE DEF f
  <2>6. FrameShape(prog, f) /\ TopShape(prog, f, "down")
    BY <1>0, <2>1, <2>3 DEF FrameShape, FrameFields, TopShape
  <2> HIDE DEF old
  <2>7. /\ ThreadShape(prog, new) /\ Top(new) = f
        /\ new.ctx = old.ctx /\ new.dir = "down" /\ new.path = th.path
    BY <1>0, <2>1, <2>4, <2>6, TopMoved
  <2> HIDE DEF new
  <2>8. ThreadShape(prog, SetTop(new, Onward(Keep(f, TRUE))))
    <3>1. DOMAIN new = ThreadFields /\ IsContext(new.ctx) /\ Kept(f.at, TRUE)
      BY <2>3, <2>4, <2>7, KeptAny DEF ThreadShape, ThreadType
    <3> QED BY <2>3, <2>6, <2>7, <3>1, OnwardShape
  <2>9. ThreadShape(prog, Returned(new, Ctx(t), "hard"))
    BY <1>0, <2>3, <2>7, ReturnedInside
  <2> QED BY <2>5, <2>8, <2>9, OneMoves
<1>4. CASE LeaveRun(t)
  BY <1>0, <1>4, ReturnShape DEF LeaveRun, At
<1>5. CASE EnterConcurrent(t)
  <2> DEFINE refs == {Options(t).concurrent[i] : i \in DOMAIN Options(t).concurrent}
             c == Ctx(t)
             step == [x \in refs |-> x]
             context == [x \in refs |-> DeepCopy(Append(t, x), c, heap)]
  <2>1. At(t, "down", "concurrent") /\ th.dir = "down" /\ Proc(t) = "concurrent"
    BY <1>5 DEF EnterConcurrent, At
  <2>2. Panic(t) \/ Fork(t, step, context, c)
    BY <1>5 DEF EnterConcurrent
  <2>3. \A x \in DOMAIN step : step[x] \in DOMAIN prog /\ IsContext(context[x])
    <3>1. refs \subseteq DOMAIN prog
      <4>1. Options(t).concurrent \in Seq(DOMAIN prog)
        BY <1>0, <2>1, ReferencesType DEF Options
      <4> QED BY <4>1, ElementOfSeq, LenProperties
    <3>2. \A u : IsContext(DeepCopy(u, c, heap))
      BY <1>0, ContextType
    <3> QED BY <3>1, <3>2
  <2> HIDE DEF step, context
  <2> QED BY <1>0, <2>1, <2>2, <2>3, PanicShape, ForkShape
<1>6. CASE EnterMatrix(t)
  <2> DEFINE c == Ctx(t)
             s == Frame(t).step
             d == Instance(c, s)
             params == Options(t).matrix
             step == [x \in params |-> s]
             context == [x \in params |-> WithNamespace(DeepCopy(Append(t, x), d, heap), x)]
  <2>1. At(t, "down", "matrix") /\ th.dir = "down" /\ Proc(t) = "matrix"
    BY <1>6 DEF EnterMatrix, At
  <2>2. Panic(t) \/ Forward(t, c, "instance") \/ Fork(t, step, context, d)
    BY <1>6 DEF EnterMatrix
  <2>3. IsContext(d)
    BY <1>0, ContextType
  <2>4. \A x \in DOMAIN step : step[x] \in DOMAIN prog /\ IsContext(context[x])
    <3>1. s \in DOMAIN prog
      BY <1>0, <2>1
    <3>2. \A u : IsContext(DeepCopy(u, d, heap))
      BY <2>3, ContextType
    <3>3. \A u, n : IsContext(WithNamespace(DeepCopy(u, d, heap), n))
      BY <3>2, ContextType
    <3> QED BY <3>1, <3>3
  <2> HIDE DEF step, context, d
  <2> QED BY <1>0, <2>1, <2>2, <2>3, <2>4, PanicShape, ForkShape, ForwardShape, KeptAny
<1>7. CASE LeaveGroup(t)
  BY <1>0, <1>7, ReturnShape DEF LeaveGroup, At
<1>8. CASE End(t)
  BY <1>0, <1>8, ReturnShape DEF End, At
<1> QED BY <1>1, <1>2, <1>3, <1>4, <1>5, <1>6, <1>7, <1>8

LEMMA ReceiveShape ==
    ASSUME Shape, NEW t \in DOMAIN threads, NEW p \in {"concurrent", "matrix"}, Receive(t, p)
    PROVE ShapeNext
<1> DEFINE th == threads[t]
<1>1. PICK u \in Children(t) :
         LET c == Ctx(t)
             child == threads[u]
             err == IF Abort(child.err) THEN "hard" ELSE Saved(t, p)
             kept == SetTop(threads[t], Keep(Frame(t), err))
             last == Children(t) = {u}
             rest == [v \in DOMAIN threads \ {u} |-> threads[v]]
         IN  threads' = [rest EXCEPT ![t] =
                   IF ~last THEN kept
                   ELSE IF p = "matrix" \/ err # "ok" THEN Returned(kept, c, err)
                   ELSE SetTop([kept EXCEPT !.dir = "down"], Onward(Top(kept)))]
  BY DEF Receive
<1> DEFINE err == IF Abort(threads[u].err) THEN "hard" ELSE Saved(t, p)
           k == Keep(Frame(t), err)
           kept == SetTop(th, k)
           rest == [v \in DOMAIN threads \ {u} |-> threads[v]]
           old == [kept EXCEPT !.dir = "down"]
           gone == SetTop(old, Onward(Top(kept)))
<1>2. /\ At(t, "waiting", p) /\ th.dir = "waiting" /\ Top(th).at = p /\ Frame(t) = Top(th)
      /\ Proc(t) = p
  BY DEF Receive, At, Proc, Frame
<1>3. /\ ThreadShape(prog, th) /\ DOMAIN th = ThreadFields /\ IsContext(Ctx(t)) /\ IsContext(th.ctx)
      /\ FrameShape(prog, Frame(t)) /\ TopShape(prog, Frame(t), "waiting")
  BY <1>2, ShapeOf DEF Shape, Ctx
<1>4. PICK new : /\ new \in {kept, Returned(kept, Ctx(t), err), gone}
                 /\ threads' = [rest EXCEPT ![t] = new]
  <2> HIDE DEF kept, rest, err, gone
  <2>1. \/ threads' = [rest EXCEPT ![t] = kept]
        \/ threads' = [rest EXCEPT ![t] = Returned(kept, Ctx(t), err)]
        \/ threads' = [rest EXCEPT ![t] = gone]
    BY <1>1 DEF kept, rest, err, gone
  <2> QED BY <2>1
<1> HIDE DEF err
<1>5. FrameShape(prog, k) /\ TopShape(prog, k, "waiting") /\ k.at = p
  <2> DEFINE f == Frame(t)
  <2>1. DOMAIN f = FrameFields /\ \A q \in DOMAIN f.saved : Kept(q, f.saved[q])
    BY <1>3 DEF FrameShape, FrameFields
  <2>2. f.at \in DOMAIN f.saved /\ f.at = p
    BY <1>2, SavedShape
  <2> HIDE DEF f
  <2>3. /\ DOMAIN Keep(f, err) = FrameFields
        /\ Keep(f, err).step = f.step /\ Keep(f, err).at = f.at
        /\ DOMAIN Keep(f, err).saved = DOMAIN f.saved \cup {f.at}
        /\ Keep(f, err).saved[f.at] = err
        /\ \A q \in DOMAIN f.saved \ {f.at} : Keep(f, err).saved[q] = f.saved[q]
    BY <2>1, KeepType
  <2>4. Kept(p, err)
    BY KeptAny
  <2>5. k = Keep(f, err)
    BY DEF f
  <2> HIDE DEF k
  <2>6. /\ DOMAIN k = FrameFields /\ k.step = f.step /\ k.at = p
        /\ DOMAIN k.saved = DOMAIN f.saved
        /\ \A q \in DOMAIN k.saved : Kept(q, k.saved[q])
    BY <2>1, <2>2, <2>3, <2>4, <2>5
  <2> QED BY <1>3, <2>2, <2>6 DEF FrameShape, TopShape, FrameFields, f
<1> HIDE DEF k
<1>6. /\ ThreadShape(prog, kept) /\ Top(kept) = k /\ kept.dir = "waiting"
      /\ kept.ctx = th.ctx /\ kept.path = th.path /\ DOMAIN kept = ThreadFields
  <2>1. "waiting" \in Directions \ {"done"}
    BY DEF Directions
  <2>2. /\ ThreadShape(prog, kept) /\ Top(kept) = k /\ kept.dir = "waiting"
        /\ kept.ctx = th.ctx /\ kept.path = th.path
    BY <1>2, <1>3, <1>5, <2>1, TopMoved
  <2> QED BY <2>2 DEF ThreadShape, ThreadType
<1> HIDE DEF kept
<1>7. ThreadShape(prog, Returned(kept, Ctx(t), err))
  BY <1>3, <1>5, <1>6, ReturnedInside
<1>8. ThreadShape(prog, gone)
  <2>1. /\ old.stack = kept.stack /\ old.path = kept.path /\ DOMAIN old = ThreadFields
        /\ old.ctx = kept.ctx /\ old.dir = "down"
    BY <1>6 DEF ThreadFields
  <2> DEFINE g == Onward(k)
  <2>2. FrameShape(prog, g) /\ TopShape(prog, g, "down")
    <3>1. /\ DOMAIN k = FrameFields /\ k.step \in DOMAIN prog /\ k.at # "end"
          /\ k.at \in Processors(prog[k.step]) /\ DOMAIN k.saved = UpTo(prog[k.step], k.at)
      BY <1>5 DEF FrameShape, FrameFields, TopShape
    <3>2. /\ g.at = Inner(prog[k.step], k.at) /\ g.step = k.step /\ g.saved = k.saved
          /\ DOMAIN g = FrameFields
      BY <3>1 DEF Onward, FrameFields
    <3> HIDE DEF g
    <3>3. /\ Inner(prog[k.step], k.at) \in Processors(prog[k.step])
          /\ Before(prog[k.step], Inner(prog[k.step], k.at)) = UpTo(prog[k.step], k.at)
      BY <3>1, InnerType, EnteredNext
    <3>4. FrameShape(prog, g)
      BY <1>5, <3>1, <3>2, <3>3 DEF FrameShape, FrameFields
    <3>5. TopShape(prog, g, "down")
      BY <3>1, <3>2, <3>3 DEF TopShape
    <3> QED BY <3>4, <3>5
  <2>3. gone = SetTop(old, g) /\ "down" \in Directions \ {"done"}
    BY <1>6 DEF Directions
  <2> HIDE DEF gone, g, old
  <2>4. ThreadShape(prog, SetTop(old, g))
    BY <1>3, <1>6, <2>1, <2>2, <2>3, TopMoved
  <2> QED BY <2>3, <2>4
<1> HIDE DEF gone
<1>9. ThreadShape(prog, new)
  BY <1>4, <1>6, <1>7, <1>8
<1>10. \A v \in DOMAIN threads' : v \in DOMAIN threads /\ (v # t => threads'[v] = threads[v])
  BY <1>4
<1>11. t \in DOMAIN threads' => threads'[t] = new
  BY <1>4
<1> QED BY <1>9, <1>10, <1>11 DEF Shape, ShapeNext

LEMMA InitShape == Init => Shape
<1> SUFFICES ASSUME Init PROVE Shape
  OBVIOUS
<1> DEFINE c == [NewContext(<<>>, EmptyMap) EXCEPT !.alive = TRUE, !.whole = TRUE]
<1>1. prog \in Programs /\ threads = [t \in {<<>>} |-> NewThread("main", c, heap, <<>>)]
  BY DEF Init
<1>2. IsContext(c)
  BY NewContextType DEF IsContext
<1>3. "main" \in DOMAIN prog /\ IsSeq(<<>>)
  <2>1. "main" \in DOMAIN prog
    BY <1>1, ProgramsAssumption DEF ProgramsAssumption
  <2>2. <<>> \in Seq({})
    OBVIOUS
  <2> QED BY <2>1, <2>2, SeqOfElements
<1> HIDE DEF c
<1>4. ThreadShape(prog, NewThread("main", c, heap, <<>>))
  BY <1>2, <1>3, NewThreadShape
<1> QED BY <1>1, <1>3, <1>4 DEF Shape

LEMMA StepShape ==
    ASSUME Shape, NEW t \in DOMAIN threads, Step(t)
    PROVE ShapeNext
  BY FirstShape, VariablesShape, ChecksShape, CallsShape, ContainerShape, ReceiveShape DEF Step

LEMMA NextShape == Shape /\ [Next]_vars => Shape'
<1> SUFFICES ASSUME Shape, [Next]_vars PROVE Shape'
  OBVIOUS
<1>1. CASE UNCHANGED vars
  BY <1>1 DEF vars, Shape
<1>2. ASSUME NEW t \in DOMAIN threads, Step(t)
      PROVE Shape'
  <2>1. prog' = prog
    BY <1>2, ProgUnchanged
  <2>2. ShapeNext
    BY <1>2, StepShape
  <2> QED BY <2>1, <2>2 DEF Shape, ShapeNext
<1> QED BY <1>1, <1>2 DEF Next, Finished


-----------------------------------------------------------------------------
(* The writers of a container.                                             *)

Terms(W) == {Nil, Discard} \cup {<<"term", s>> : s \in W}

\* The writer of c, or of what a redirect keeps, is that of a step in W.
Writing(c, W) == c.stdout \in Terms(W) \ {Nil}

\* What a redirect that fails may leave: the files of steps that redirect both streams.
Broken == {<<"stdout", s>> : s \in {x \in DOMAIN prog : {"stdout", "stderr"} \subseteq prog[x].redirect}}

\* The files of c are those of the steps in R; in an inherited pipeline there is
\* always a writer, that of a step in W.
Streams(c, W, R) ==
    /\ \A x \in c.files : x[2] \in R
    /\ c.closed \subseteq Broken
    /\ "pipeline" \in c.tags => Writing(c, W)

\* The step of frame f, when its own writers or files are in use.
OwnOutput(f) ==
    {s \in {f.step} : "output" \in DOMAIN f.saved /\ f.saved["output"] = TRUE}
OwnFiles(f) == {s \in {f.step} : "redirect" \in DOMAIN f.saved}

\* The steps whose writers or files may be in use above the i-th frame.
Writers(path, stack, i) ==
    {path[j] : j \in DOMAIN path} \cup UNION {OwnOutput(stack[j]) : j \in 1 .. i}
Redirects(path, stack, i) ==
    {path[j] : j \in DOMAIN path} \cup UNION {OwnFiles(stack[j]) : j \in 1 .. i}

\* What the processors of frame f have kept, W and R being the steps of the callers.
SavedStreams(f, W, R) ==
    /\ "recover" \in DOMAIN f.saved => Streams(f.saved["recover"], W, R)
    /\ "output" \in DOMAIN f.saved =>
          (f.saved["output"] = TRUE => "pipeline" \notin f.saved["recover"].tags)
    /\ "needs" \in DOMAIN f.saved =>
          (f.saved["needs"].next > 0 =>
              /\ Streams(f.saved["needs"].ctx, W \cup OwnOutput(f), R)
              /\ f.saved["needs"].ctx.tags = f.saved["recover"].tags
              /\ "output" \in DOMAIN f.saved => Writing(f.saved["needs"].ctx, W \cup OwnOutput(f)))
    /\ "inherit" \in DOMAIN f.saved =>
          (f.saved["inherit"].called =>
              /\ Streams(f.saved["inherit"].ctx, W \cup OwnOutput(f), R \cup OwnFiles(f))
              /\ f.saved["inherit"].ctx.tags = f.saved["recover"].tags)
    /\ "redirect" \in DOMAIN f.saved =>
          ("pipeline" \in f.saved["recover"].tags =>
              Writing(f.saved["redirect"], W \cup OwnOutput(f)))

\* The tags that the step of frame f was called with; c is the context of the thread.
EnteredTags(f, c) == IF "recover" \in DOMAIN f.saved THEN f.saved["recover"].tags ELSE c.tags

\* The context is that of another step, which processor p has called.
Foreign(p, v) ==
    \/ p = "needs" /\ v.next > 0
    \/ p = "inherit" /\ v.called

FrameStreams(f, c, dir, W, R) ==
    /\ SavedStreams(f, W, R)
    /\ Streams(c, W \cup OwnOutput(f), R \cup OwnFiles(f))
    /\ (dir = "up" /\ Foreign(f.at, f.saved[f.at])) \/ c.tags = EnteredTags(f, c)
    /\ (dir \in {"down", "merged", "running"} /\ "output" \in DOMAIN f.saved
          /\ Order[f.at] <= 18) => Writing(c, W \cup OwnOutput(f))
    /\ (dir \in {"down", "running"} /\ f.at = "run" /\ "redirect" \in DOMAIN f.saved)
          => c.stdout = Discard

\* The frames that have called another: what they kept, and their tags.
CallingStreams(path, stack, n) ==
    /\ \A i \in 1 .. n :
          SavedStreams(stack[i], Writers(path, stack, i - 1), Redirects(path, stack, i - 1))
    /\ \A i \in 1 .. n - 1 : stack[i].at = "and" =>
          stack[i + 1].saved["recover"].tags = stack[i].saved["recover"].tags

\* A reference of an `and` has the tags of the step.
TagsPassed(stack, n, tags) ==
    n > 0 /\ stack[n].at = "and" => tags = stack[n].saved["recover"].tags

ThreadStreams(th) ==
    th.dir # "done" =>
       LET n == Len(th.stack) - 1
       IN  /\ CallingStreams(th.path, th.stack, n)
           /\ TagsPassed(th.stack, n, EnteredTags(Top(th), th.ctx))
           /\ FrameStreams(Top(th), th.ctx, th.dir, Writers(th.path, th.stack, n),
                           Redirects(th.path, th.stack, n))

AllStreams == \A t \in DOMAIN threads : ThreadStreams(threads[t])


\* What has been kept was kept by the processors before.
LEMMA SavedOrder ==
    ASSUME NEW f, NEW dir, FrameShape(prog, f), TopShape(prog, f, dir)
    PROVE /\ \A q \in DOMAIN f.saved :
                q \in AllProcessors /\ Order[q] <= Order[f.at]
                  /\ (dir \in {"down", "running"} => Order[q] < Order[f.at])
          /\ f.at # "recover" => "recover" \in DOMAIN f.saved
          /\ \A q \in Processors(prog[f.step]) : Order[q] < Order[f.at] => q \in DOMAIN f.saved
<1>1. f.at \in Processors(prog[f.step]) /\ Processors(prog[f.step]) \subseteq AllProcessors
  BY ProcessorsType DEF FrameShape
<1>2. \A q \in Processors(prog[f.step]) : Order[q] \in 1 .. 21
  BY <1>1, OrderType
<1>3. \/ DOMAIN f.saved = Before(prog[f.step], f.at)
      \/ dir \notin {"down", "running"} /\ DOMAIN f.saved = UpTo(prog[f.step], f.at)
  BY DEF TopShape
<1>4. Before(prog[f.step], f.at) \subseteq DOMAIN f.saved
  BY <1>1, <1>2, <1>3 DEF Before, UpTo
<1>5. f.at # "recover" => "recover" \in DOMAIN f.saved
  BY <1>1, <1>4, RecoverEntered
<1>6. \A q \in Processors(prog[f.step]) : Order[q] < Order[f.at] => q \in DOMAIN f.saved
  BY <1>4 DEF Before
<1>7. \A q \in DOMAIN f.saved :
         q \in AllProcessors /\ Order[q] <= Order[f.at]
           /\ (dir \in {"down", "running"} => Order[q] < Order[f.at])
  BY <1>1, <1>2, <1>3 DEF Before, UpTo
<1> QED BY <1>5, <1>6, <1>7

LEMMA Places ==
    /\ Order["recover"] = 1 /\ Order["retry"] = 2 /\ Order["result"] = 3 /\ Order["matrix"] = 8
    /\ Order["output"] = 9 /\ Order["template"] = 14 /\ Order["needs"] = 15
    /\ Order["redirect"] = 16 /\ Order["run"] = 17 /\ Order["inherit"] = 18
    /\ Order["and"] = 19 /\ Order["concurrent"] = 20 /\ Order["end"] = 21
  BY DEF Order

\* More callers, more writers.
LEMMA StreamsMonotone ==
    ASSUME NEW c, NEW W, NEW R, NEW V, NEW Q, W \subseteq V, R \subseteq Q, Streams(c, W, R)
    PROVE Streams(c, V, Q)
  BY DEF Streams, Writing, Terms

LEMMA WritingMonotone ==
    ASSUME NEW c, NEW W, NEW V, W \subseteq V, Writing(c, W)
    PROVE Writing(c, V)
  BY DEF Writing, Terms

\* Processor p keeps v.
KeptStreams(p, v, f, W, R) ==
    /\ p = "recover" => Streams(v, W, R)
    /\ p = "output" => (v = TRUE => "pipeline" \notin f.saved["recover"].tags)
    /\ p = "needs" =>
          (v.next > 0 =>
              /\ Streams(v.ctx, W \cup OwnOutput(f), R)
              /\ v.ctx.tags = f.saved["recover"].tags
              /\ "output" \in DOMAIN f.saved => Writing(v.ctx, W \cup OwnOutput(f)))
    /\ p = "inherit" =>
          (v.called =>
              /\ Streams(v.ctx, W \cup OwnOutput(f), R \cup OwnFiles(f))
              /\ v.ctx.tags = f.saved["recover"].tags)
    /\ p = "redirect" =>
          ("pipeline" \in f.saved["recover"].tags => Writing(v, W \cup OwnOutput(f)))

LEMMA SavedStreamsKept ==
    ASSUME NEW f, NEW dir, FrameShape(prog, f), TopShape(prog, f, dir),
           NEW W, NEW R, SavedStreams(f, W, R),
           f.at \in {"recover", "output"} => dir = "down",
           NEW v, KeptStreams(f.at, v, f, W, R),
           NEW g, g.step = f.step, DOMAIN g.saved = DOMAIN f.saved \cup {f.at},
           g.saved[f.at] = v, \A p \in DOMAIN f.saved \ {f.at} : g.saved[p] = f.saved[p]
    PROVE /\ SavedStreams(g, W, R)
          /\ OwnOutput(f) \subseteq OwnOutput(g) /\ OwnFiles(f) \subseteq OwnFiles(g)
          /\ f.at # "output" => OwnOutput(g) = OwnOutput(f)
          /\ f.at # "redirect" => OwnFiles(g) = OwnFiles(f)
          /\ f.at # "recover" =>
                g.saved["recover"] = f.saved["recover"] /\ "recover" \in DOMAIN f.saved
          /\ f.at = "recover" => DOMAIN f.saved = {}
<1>1. /\ \A q \in DOMAIN f.saved :
            q \in AllProcessors /\ Order[q] <= Order[f.at]
              /\ (dir \in {"down", "running"} => Order[q] < Order[f.at])
      /\ f.at # "recover" => "recover" \in DOMAIN f.saved
  BY SavedOrder
<1>2. f.at \in AllProcessors /\ Order[f.at] \in 1 .. 21
  BY ProcessorsType, OrderType DEF FrameShape
<1>3. f.at # "recover" => g.saved["recover"] = f.saved["recover"] /\ "recover" \in DOMAIN f.saved
  BY <1>1
<1>4. f.at = "recover" => DOMAIN f.saved = {}
  <2> SUFFICES ASSUME f.at = "recover", NEW q \in DOMAIN f.saved
               PROVE FALSE
    OBVIOUS
  <2>1. q \in AllProcessors /\ Order[q] < Order["recover"]
    BY <1>1
  <2> QED BY <2>1, OrderType, Places
<1>5. f.at = "output" => f.at \notin DOMAIN f.saved
  BY <1>1, <1>2
<1>6. OwnOutput(f) \subseteq OwnOutput(g) /\ (f.at # "output" => OwnOutput(g) = OwnOutput(f))
  BY <1>5 DEF OwnOutput
<1>7. OwnFiles(f) \subseteq OwnFiles(g) /\ (f.at # "redirect" => OwnFiles(g) = OwnFiles(f))
  BY DEF OwnFiles
<1>8. SavedStreams(g, W, R)
  <2>1. CASE f.at = "recover"
    <3>1. DOMAIN g.saved = {"recover"} /\ Streams(g.saved["recover"], W, R)
      BY <1>4, <2>1 DEF KeptStreams
    <3> QED BY <3>1 DEF SavedStreams
  <2>2. CASE f.at # "recover"
    <3>1. Streams(g.saved["recover"], W, R)
      BY <1>3, <2>2 DEF SavedStreams
    <3>2. "output" \in DOMAIN g.saved =>
             (g.saved["output"] = TRUE => "pipeline" \notin g.saved["recover"].tags)
      BY <1>3, <2>2 DEF SavedStreams, KeptStreams
    <3>3. /\ W \cup OwnOutput(f) \subseteq W \cup OwnOutput(g)
          /\ R \cup OwnFiles(f) \subseteq R \cup OwnFiles(g)
      BY <1>6, <1>7
    <3>4. ASSUME "needs" \in DOMAIN g.saved, g.saved["needs"].next > 0
          PROVE /\ Streams(g.saved["needs"].ctx, W \cup OwnOutput(g), R)
                /\ g.saved["needs"].ctx.tags = g.saved["recover"].tags
                /\ "output" \in DOMAIN g.saved => Writing(g.saved["needs"].ctx, W \cup OwnOutput(g))
      <4>1. f.at # "output"
        <5>1. f.at = "output" => "needs" \notin DOMAIN f.saved
          BY <1>1, <1>2, Places
        <5> QED BY <3>4, <5>1
      <4>2. /\ Streams(g.saved["needs"].ctx, W \cup OwnOutput(f), R)
            /\ g.saved["needs"].ctx.tags = f.saved["recover"].tags
            /\ "output" \in DOMAIN f.saved => Writing(g.saved["needs"].ctx, W \cup OwnOutput(f))
        BY <3>4 DEF SavedStreams, KeptStreams
      <4>3. Streams(g.saved["needs"].ctx, W \cup OwnOutput(g), R)
        BY <3>3, <4>2, StreamsMonotone
      <4>4. "output" \in DOMAIN g.saved => Writing(g.saved["needs"].ctx, W \cup OwnOutput(g))
        BY <3>3, <4>1, <4>2, WritingMonotone
      <4> QED BY <1>3, <2>2, <4>2, <4>3, <4>4
    <3>5. ASSUME "inherit" \in DOMAIN g.saved, g.saved["inherit"].called
          PROVE /\ Streams(g.saved["inherit"].ctx, W \cup OwnOutput(g), R \cup OwnFiles(g))
                /\ g.saved["inherit"].ctx.tags = g.saved["recover"].tags
      <4>1. /\ Streams(g.saved["inherit"].ctx, W \cup OwnOutput(f), R \cup OwnFiles(f))
            /\ g.saved["inherit"].ctx.tags = f.saved["recover"].tags
        BY <3>5 DEF SavedStreams, KeptStreams
      <4>2. Streams(g.saved["inherit"].ctx, W \cup OwnOutput(g), R \cup OwnFiles(g))
        BY <3>3, <4>1, StreamsMonotone
      <4> QED BY <1>3, <2>2, <4>1, <4>2
    <3>6. ASSUME "redirect" \in DOMAIN g.saved
          PROVE "pipeline" \in g.saved["recover"].tags =>
                   Writing(g.saved["redirect"], W \cup OwnOutput(g))
      <4>1. "pipeline" \in f.saved["recover"].tags =>
               Writing(g.saved["redirect"], W \cup OwnOutput(f))
        BY <3>6 DEF SavedStreams, KeptStreams
      <4> QED BY <1>3, <2>2, <3>3, <4>1, WritingMonotone
    <3> QED BY <3>1, <3>2, <3>4, <3>5, <3>6 DEF SavedStreams
  <2> QED BY <2>1, <2>2
<1> QED BY <1>3, <1>4, <1>6, <1>7, <1>8

\* What is left when a processor has dropped what it kept.
LEMMA SavedStreamsDropped ==
    ASSUME NEW f, NEW dir, FrameShape(prog, f), TopShape(prog, f, dir), f.at # "recover",
           NEW W, NEW R, SavedStreams(f, W, R),
           NEW g, g.step = f.step, DOMAIN g.saved = DOMAIN f.saved \ {f.at},
           \A p \in DOMAIN g.saved : g.saved[p] = f.saved[p]
    PROVE /\ SavedStreams(g, W, R)
          /\ "recover" \in DOMAIN g.saved /\ g.saved["recover"] = f.saved["recover"]
          /\ "recover" \in DOMAIN f.saved
          /\ f.at # "output" \/ dir = "down" => OwnOutput(g) = OwnOutput(f)
          /\ f.at # "redirect" \/ dir = "down" => OwnFiles(g) = OwnFiles(f)
<1>1. /\ \A q \in DOMAIN f.saved :
            q \in AllProcessors /\ Order[q] <= Order[f.at]
              /\ (dir \in {"down", "running"} => Order[q] < Order[f.at])
      /\ "recover" \in DOMAIN f.saved
  BY SavedOrder
<1>2. f.at \in AllProcessors /\ Order[f.at] \in 1 .. 21
  BY ProcessorsType, OrderType DEF FrameShape
<1>3. "recover" \in DOMAIN g.saved /\ g.saved["recover"] = f.saved["recover"]
  BY <1>1
<1>4. dir = "down" => f.at \notin DOMAIN f.saved
  BY <1>1, <1>2
<1>5. f.at # "output" \/ dir = "down" => OwnOutput(g) = OwnOutput(f)
  BY <1>4 DEF OwnOutput
<1>6. f.at # "redirect" \/ dir = "down" => OwnFiles(g) = OwnFiles(f)
  BY <1>4 DEF OwnFiles
<1>7. f.at = "output" => DOMAIN g.saved \cap {"needs", "redirect", "inherit"} = {}
  BY <1>1, <1>2, Places
<1>8. f.at = "redirect" => "inherit" \notin DOMAIN g.saved
  BY <1>1, <1>2, Places
<1>9. SavedStreams(g, W, R)
  <2>1. Streams(g.saved["recover"], W, R)
    BY <1>1, <1>3 DEF SavedStreams
  <2>2. "output" \in DOMAIN g.saved =>
           (g.saved["output"] = TRUE => "pipeline" \notin g.saved["recover"].tags)
    BY <1>3 DEF SavedStreams
  <2>3. ASSUME "needs" \in DOMAIN g.saved, g.saved["needs"].next > 0
        PROVE /\ Streams(g.saved["needs"].ctx, W \cup OwnOutput(g), R)
              /\ g.saved["needs"].ctx.tags = g.saved["recover"].tags
              /\ "output" \in DOMAIN g.saved => Writing(g.saved["needs"].ctx, W \cup OwnOutput(g))
    BY <1>3, <1>5, <1>7, <2>3 DEF SavedStreams
  <2>4. ASSUME "inherit" \in DOMAIN g.saved, g.saved["inherit"].called
        PROVE /\ Streams(g.saved["inherit"].ctx, W \cup OwnOutput(g), R \cup OwnFiles(g))
              /\ g.saved["inherit"].ctx.tags = g.saved["recover"].tags
    BY <1>3, <1>5, <1>6, <1>7, <1>8, <2>4 DEF SavedStreams
  <2>5. ASSUME "redirect" \in DOMAIN g.saved
        PROVE "pipeline" \in g.saved["recover"].tags =>
                 Writing(g.saved["redirect"], W \cup OwnOutput(g))
    BY <1>3, <1>5, <1>7, <2>5 DEF SavedStreams
  <2> QED BY <2>1, <2>2, <2>3, <2>4, <2>5 DEF SavedStreams
<1> QED BY <1>1, <1>3, <1>5, <1>6, <1>9


LEMMA OrderNat == \A p \in AllProcessors : Order[p] \in Nat
  BY OrderType

\* The callers of th, and what they may write to.
Callers(th) == Len(th.stack) - 1
CallersWriters(th) == Writers(th.path, th.stack, Callers(th))
CallersFiles(th) == Redirects(th.path, th.stack, Callers(th))

SameUpTo(q, s, n) == \A i \in 1 .. n : q[i] = s[i]

LEMMA WritersOf ==
    ASSUME NEW path, NEW s, NEW q, NEW n \in Nat, SameUpTo(q, s, n), NEW i \in 0 .. n
    PROVE /\ Writers(path, q, i) = Writers(path, s, i)
          /\ Redirects(path, q, i) = Redirects(path, s, i)
<1>1. \A j \in 1 .. i : q[j] = s[j]
  BY DEF SameUpTo
<1>2. {OwnOutput(q[j]) : j \in 1 .. i} = {OwnOutput(s[j]) : j \in 1 .. i}
  BY <1>1
<1>3. {OwnFiles(q[j]) : j \in 1 .. i} = {OwnFiles(s[j]) : j \in 1 .. i}
  BY <1>1
<1> QED BY <1>2, <1>3 DEF Writers, Redirects

LEMMA WritersNext ==
    ASSUME NEW path, NEW s, NEW i \in Nat, i > 0
    PROVE /\ Writers(path, s, i) = Writers(path, s, i - 1) \cup OwnOutput(s[i])
          /\ Redirects(path, s, i) = Redirects(path, s, i - 1) \cup OwnFiles(s[i])
<1>1. 1 .. i = (1 .. i - 1) \cup {i}
  OBVIOUS
<1> QED BY <1>1 DEF Writers, Redirects

LEMMA CallingStreamsOf ==
    ASSUME NEW path, NEW s, NEW q, NEW n \in Nat, SameUpTo(q, s, n),
           CallingStreams(path, s, n)
    PROVE CallingStreams(path, q, n)
<1>1. ASSUME NEW i \in 1 .. n
      PROVE SavedStreams(q[i], Writers(path, q, i - 1), Redirects(path, q, i - 1))
  <2>1. i - 1 \in 0 .. n
    OBVIOUS
  <2>2. /\ Writers(path, q, i - 1) = Writers(path, s, i - 1)
        /\ Redirects(path, q, i - 1) = Redirects(path, s, i - 1)
    BY <2>1, WritersOf
  <2>3. SavedStreams(s[i], Writers(path, s, i - 1), Redirects(path, s, i - 1))
    BY DEF CallingStreams
  <2> QED BY <2>2, <2>3 DEF SameUpTo
<1>2. ASSUME NEW i \in 1 .. n - 1, q[i].at = "and"
      PROVE q[i + 1].saved["recover"].tags = q[i].saved["recover"].tags
  <2>1. i \in 1 .. n /\ i + 1 \in 1 .. n
    OBVIOUS
  <2> QED BY <1>2, <2>1 DEF CallingStreams, SameUpTo
<1> QED BY <1>1, <1>2 DEF CallingStreams

\* The frame on top has changed, and the context.
LEMMA StreamsMoved ==
    ASSUME NEW th, ThreadShape(prog, th), ThreadStreams(th), th.dir # "done",
           NEW new, Len(new.stack) = Len(th.stack), new.path = th.path,
           \A i \in 1 .. Len(th.stack) - 1 : new.stack[i] = th.stack[i],
           FrameStreams(Top(new), new.ctx, new.dir, CallersWriters(th), CallersFiles(th)),
           EnteredTags(Top(new), new.ctx) = EnteredTags(Top(th), th.ctx)
    PROVE ThreadStreams(new)
<1> DEFINE n == Len(th.stack) - 1
<1>1. n \in Nat
  <2>1. Len(th.stack) \in Nat /\ Len(th.stack) > 0
    BY SeqType DEF ThreadShape, ThreadType
  <2> QED BY <2>1
<1>2. /\ CallingStreams(th.path, th.stack, n)
      /\ TagsPassed(th.stack, n, EnteredTags(Top(th), th.ctx))
  BY DEF ThreadStreams
<1>3. \A i \in 1 .. n : new.stack[i] = th.stack[i]
  OBVIOUS
<1>4. Len(new.stack) - 1 = n
  OBVIOUS
<1>5. FrameStreams(Top(new), new.ctx, new.dir, Writers(th.path, th.stack, n),
                   Redirects(th.path, th.stack, n))
  BY DEF CallersWriters, CallersFiles, Callers
<1> HIDE DEF n
<1>6. n \in 0 .. n
  BY <1>1
<1>same. SameUpTo(new.stack, th.stack, n)
  BY <1>3 DEF SameUpTo
<1>7. /\ Writers(th.path, new.stack, n) = Writers(th.path, th.stack, n)
      /\ Redirects(th.path, new.stack, n) = Redirects(th.path, th.stack, n)
  BY <1>1, <1>6, <1>same, WritersOf
<1>8. CallingStreams(th.path, new.stack, n)
  BY <1>1, <1>2, <1>same, CallingStreamsOf
<1>9. TagsPassed(new.stack, n, EnteredTags(Top(new), new.ctx))
  <2>1. n > 0 => n \in 1 .. n
    BY <1>1
  <2> QED BY <1>2, <1>3, <2>1 DEF TagsPassed
<1> QED BY <1>4, <1>5, <1>7, <1>8, <1>9 DEF ThreadStreams

\* A step is called by the frame k.
LEMMA StreamsPushed ==
    ASSUME NEW th, ThreadShape(prog, th), ThreadStreams(th), th.dir # "done",
           NEW new, Len(new.stack) = Len(th.stack) + 1, new.path = th.path,
           \A i \in 1 .. Len(th.stack) - 1 : new.stack[i] = th.stack[i],
           NEW k, new.stack[Len(th.stack)] = k, k.at = Top(th).at,
           k.saved["recover"] = Top(th).saved["recover"], "recover" \in DOMAIN Top(th).saved,
           SavedStreams(k, CallersWriters(th), CallersFiles(th)),
           DOMAIN Top(new).saved = {}, Top(new).at = "recover",
           new.dir = "down",
           k.at = "and" => new.ctx.tags = k.saved["recover"].tags,
           Streams(new.ctx, CallersWriters(th) \cup OwnOutput(k), CallersFiles(th) \cup OwnFiles(k))
    PROVE ThreadStreams(new)
<1> DEFINE n == Len(th.stack) - 1
           m == Len(th.stack)
<1>1. n \in Nat /\ m \in Nat /\ m = n + 1 /\ m > 0 /\ m - 1 = n
  <2>1. Len(th.stack) \in Nat /\ Len(th.stack) > 0
    BY SeqType DEF ThreadShape, ThreadType
  <2> QED BY <2>1
<1>2. /\ CallingStreams(th.path, th.stack, n)
      /\ TagsPassed(th.stack, n, EnteredTags(Top(th), th.ctx))
  BY DEF ThreadStreams
<1>3. (\A i \in 1 .. n : new.stack[i] = th.stack[i]) /\ new.stack[m] = k
  OBVIOUS
<1>4. Len(new.stack) - 1 = m
  <2>1. \A j \in Nat : j + 1 - 1 = j
    OBVIOUS
  <2> QED BY <1>1, <2>1
<1>5. /\ CallersWriters(th) = Writers(th.path, th.stack, n)
      /\ CallersFiles(th) = Redirects(th.path, th.stack, n)
  BY DEF CallersWriters, CallersFiles, Callers
<1> HIDE DEF n, m
<1>6. n \in 0 .. n
  BY <1>1
<1>same. SameUpTo(new.stack, th.stack, n)
  BY <1>3 DEF SameUpTo
<1>7. /\ Writers(th.path, new.stack, n) = CallersWriters(th)
      /\ Redirects(th.path, new.stack, n) = CallersFiles(th)
  BY <1>1, <1>5, <1>6, <1>same, WritersOf
<1>8. /\ Writers(th.path, new.stack, m) = CallersWriters(th) \cup OwnOutput(k)
      /\ Redirects(th.path, new.stack, m) = CallersFiles(th) \cup OwnFiles(k)
  <2>1. /\ Writers(th.path, new.stack, m) = Writers(th.path, new.stack, m - 1) \cup OwnOutput(new.stack[m])
        /\ Redirects(th.path, new.stack, m) = Redirects(th.path, new.stack, m - 1) \cup OwnFiles(new.stack[m])
    <3> DEFINE path == th.path
               q == new.stack
    <3>1. m \in Nat /\ m > 0
      BY <1>1
    <3> HIDE DEF path, q
    <3>2. /\ Writers(path, q, m) = Writers(path, q, m - 1) \cup OwnOutput(q[m])
          /\ Redirects(path, q, m) = Redirects(path, q, m - 1) \cup OwnFiles(q[m])
      BY <3>1, WritersNext
    <3> QED BY <3>2 DEF path, q
  <2> QED BY <1>1, <1>3, <1>7, <2>1
<1>9. CallingStreams(th.path, new.stack, n)
  BY <1>1, <1>2, <1>same, CallingStreamsOf
<1>10. ASSUME NEW i \in 1 .. m
       PROVE SavedStreams(new.stack[i], Writers(th.path, new.stack, i - 1),
                          Redirects(th.path, new.stack, i - 1))
  <2>1. CASE i = m
    BY <1>1, <1>3, <1>7, <2>1
  <2>2. CASE i # m
    <3>1. i \in 1 .. n
      BY <1>1, <2>2
    <3> QED BY <1>9, <3>1 DEF CallingStreams
  <2> QED BY <2>1, <2>2
<1>11. ASSUME NEW i \in 1 .. m - 1, new.stack[i].at = "and"
       PROVE new.stack[i + 1].saved["recover"].tags = new.stack[i].saved["recover"].tags
  <2>1. CASE i = n
    <3>1. EnteredTags(Top(th), th.ctx) = k.saved["recover"].tags
      BY DEF EnteredTags
    <3>2. n > 0 /\ n \in 1 .. n /\ n + 1 = m
      BY <1>1, <2>1
    <3>3. new.stack[n] = th.stack[n]
      BY <1>3, <3>2
    <3>4. k.saved["recover"].tags = th.stack[n].saved["recover"].tags
      BY <1>2, <1>11, <2>1, <3>1, <3>2, <3>3 DEF TagsPassed
    <3> QED BY <1>3, <2>1, <3>2, <3>3, <3>4
  <2>2. CASE i # n
    <3>1. i \in 1 .. n - 1
      BY <1>1, <2>2
    <3> QED BY <1>9, <1>11, <3>1 DEF CallingStreams
  <2> QED BY <2>1, <2>2
<1>12. CallingStreams(th.path, new.stack, m)
  BY <1>10, <1>11 DEF CallingStreams
<1>13. TagsPassed(new.stack, m, EnteredTags(Top(new), new.ctx))
  BY <1>3 DEF TagsPassed, EnteredTags
<1>14. FrameStreams(Top(new), new.ctx, new.dir, CallersWriters(th) \cup OwnOutput(k),
                    CallersFiles(th) \cup OwnFiles(k))
  <2>1. OwnOutput(Top(new)) = {} /\ OwnFiles(Top(new)) = {}
    BY DEF OwnOutput, OwnFiles
  <2>2. SavedStreams(Top(new), CallersWriters(th) \cup OwnOutput(k), CallersFiles(th) \cup OwnFiles(k))
    BY DEF SavedStreams
  <2> QED BY <2>1, <2>2 DEF FrameStreams, EnteredTags
<1> QED BY <1>4, <1>8, <1>12, <1>13, <1>14 DEF ThreadStreams

\* The step on top is over.
LEMMA StreamsPopped ==
    ASSUME NEW th, ThreadShape(prog, th), ThreadStreams(th), th.dir # "done", Len(th.stack) # 1,
           NEW new, Len(new.stack) = Len(th.stack) - 1, new.path = th.path,
           \A i \in 1 .. Len(th.stack) - 1 : new.stack[i] = th.stack[i],
           Top(new) = th.stack[Len(th.stack) - 1], CallingShape(prog, Top(new)),
           FrameShape(prog, Top(new)),
           new.dir = "up", Streams(new.ctx, CallersWriters(th), CallersFiles(th)),
           new.ctx.tags = EnteredTags(Top(th), th.ctx)
    PROVE ThreadStreams(new)
<1> DEFINE n == Len(th.stack) - 1
           f == Top(new)
<1>1. n \in Nat /\ n > 0
  <2>1. Len(th.stack) \in Nat /\ Len(th.stack) > 0
    BY SeqType DEF ThreadShape, ThreadType
  <2>2. \A m \in Nat : m > 0 /\ m # 1 => m - 1 \in Nat /\ m - 1 > 0
    OBVIOUS
  <2> QED BY <2>1, <2>2
<1>2. /\ CallingStreams(th.path, th.stack, n)
      /\ TagsPassed(th.stack, n, EnteredTags(Top(th), th.ctx))
  BY DEF ThreadStreams
<1>3. /\ \A i \in 1 .. n : new.stack[i] = th.stack[i]
      /\ f = th.stack[n] /\ Len(new.stack) = n
  OBVIOUS
<1>4. /\ CallersWriters(th) = Writers(th.path, th.stack, n)
      /\ CallersFiles(th) = Redirects(th.path, th.stack, n)
  BY DEF CallersWriters, CallersFiles, Callers
<1>5. CallingShape(prog, f) /\ FrameShape(prog, f)
  OBVIOUS
<1> HIDE DEF n, f
<1>6. n \in 1 .. n /\ n - 1 \in 0 .. n /\ n - 1 \in Nat
  BY <1>1
<1>same. SameUpTo(new.stack, th.stack, n)
  BY <1>3 DEF SameUpTo
<1>7. /\ Writers(th.path, new.stack, n - 1) = Writers(th.path, th.stack, n - 1)
      /\ Redirects(th.path, new.stack, n - 1) = Redirects(th.path, th.stack, n - 1)
  BY <1>1, <1>6, <1>same, WritersOf
<1>8. /\ CallersWriters(th) = Writers(th.path, th.stack, n - 1) \cup OwnOutput(f)
      /\ CallersFiles(th) = Redirects(th.path, th.stack, n - 1) \cup OwnFiles(f)
  BY <1>1, <1>3, <1>4, WritersNext
<1>9. CallingStreams(th.path, new.stack, n)
  BY <1>1, <1>2, <1>same, CallingStreamsOf
<1>10. CallingStreams(th.path, new.stack, n - 1)
  <2>1. \A i \in 1 .. n - 1 : i \in 1 .. n
    BY <1>1
  <2>2. \A i \in 1 .. n - 1 - 1 : i \in 1 .. n - 1
    BY <1>1
  <2> QED BY <1>9, <2>1, <2>2 DEF CallingStreams
<1>11. "recover" \in DOMAIN f.saved
  <2>1. "recover" \in Before(prog[f.step], f.at)
    BY <1>5, RecoverEntered DEF CallingShape, CalledFrom, FrameShape
  <2>2. Before(prog[f.step], f.at) \subseteq UpTo(prog[f.step], f.at)
    <3>1. Order[f.at] \in Nat /\ \A q \in Processors(prog[f.step]) : Order[q] \in Nat
      <4>1. f.at \in Processors(prog[f.step])
        BY <1>5 DEF FrameShape
      <4>2. Processors(prog[f.step]) \subseteq AllProcessors
        BY ProcessorsType
      <4> QED BY <4>1, <4>2, OrderNat
    <3> QED BY <3>1 DEF Before, UpTo
  <2> QED BY <1>5, <2>1, <2>2 DEF CallingShape
<1>12. TagsPassed(new.stack, n - 1, EnteredTags(f, new.ctx))
  <2> SUFFICES ASSUME n - 1 > 0, new.stack[n - 1].at = "and"
               PROVE f.saved["recover"].tags = new.stack[n - 1].saved["recover"].tags
    BY <1>11 DEF TagsPassed, EnteredTags
  <2>1. n - 1 \in 1 .. n - 1 /\ n - 1 + 1 = n
    BY <1>1
  <2>2. new.stack[n - 1 + 1].saved["recover"].tags = new.stack[n - 1].saved["recover"].tags
    BY <1>9, <2>1 DEF CallingStreams
  <2> QED BY <1>3, <1>6, <2>1, <2>2
<1>13. FrameStreams(f, new.ctx, "up", Writers(th.path, th.stack, n - 1),
                    Redirects(th.path, th.stack, n - 1))
  <2>1. SavedStreams(f, Writers(th.path, th.stack, n - 1), Redirects(th.path, th.stack, n - 1))
    BY <1>2, <1>3, <1>6 DEF CallingStreams
  <2>2. Foreign(f.at, f.saved[f.at]) \/ new.ctx.tags = EnteredTags(f, new.ctx)
    <3>1. CASE f.at = "and"
      BY <1>1, <1>2, <1>3, <1>11, <3>1 DEF TagsPassed, EnteredTags
    <3>2. CASE f.at # "and"
      BY <1>5, <3>2 DEF CallingShape, CalledFrom, Foreign
    <3> QED BY <3>1, <3>2
  <2> QED BY <1>8, <2>1, <2>2 DEF FrameStreams
<1> QED BY <1>3, <1>7, <1>10, <1>12, <1>13 DEF ThreadStreams, f


-----------------------------------------------------------------------------
(* The writers, when a frame moves.                                        *)

\* The two contexts have the same writers.
SameStreams(c, d) ==
    c.stdout = d.stdout /\ c.files = d.files /\ c.closed = d.closed /\ c.tags = d.tags

LEMMA SameStreamsOf ==
    ASSUME NEW c, NEW d, SameStreams(c, d), NEW W, NEW R, Streams(d, W, R)
    PROVE Streams(c, W, R)
  BY DEF Streams, SameStreams, Writing

\* Context c may be handed to the processor after that of frame f.
OnwardContext(f, c, v, W, R) ==
    /\ Streams(c, W \cup OwnOutput(Keep(f, v)), R \cup OwnFiles(Keep(f, v)))
    /\ c.tags = IF f.at = "recover" THEN v.tags ELSE f.saved["recover"].tags
    /\ "output" \in DOMAIN f.saved \cup {f.at} /\ Order[f.at] < 18
          => Writing(c, W \cup OwnOutput(Keep(f, v)))
    /\ f.at = "redirect" => c.stdout = Discard

LEMMA OnwardStreams ==
    ASSUME NEW f, NEW dir, FrameShape(prog, f), TopShape(prog, f, dir), f.at # "end",
           f.at \in {"recover", "output"} => dir = "down",
           NEW W, NEW R, SavedStreams(f, W, R),
           NEW v, Kept(f.at, v), KeptStreams(f.at, v, f, W, R), NEW c, OnwardContext(f, c, v, W, R)
    PROVE LET g == Onward(Keep(f, v))
          IN  /\ FrameStreams(g, c, "down", W, R)
              /\ EnteredTags(g, c) = c.tags
<1> DEFINE k == Keep(f, v)
           g == Onward(k)
<1>1. /\ FrameShape(prog, g) /\ DOMAIN g.saved = Before(prog[g.step], g.at)
      /\ g.step = f.step /\ g.at = Inner(prog[f.step], f.at)
      /\ DOMAIN g.saved = DOMAIN f.saved \cup {f.at}
      /\ g.saved[f.at] = v
      /\ \A p \in DOMAIN f.saved \ {f.at} : g.saved[p] = f.saved[p]
  BY Forwarded DEF TopShape
<1>2. /\ DOMAIN f = FrameFields /\ f.at \in Processors(prog[f.step])
  BY DEF FrameShape, FrameFields
<1>3. /\ DOMAIN k = FrameFields /\ k.step = f.step
      /\ DOMAIN k.saved = DOMAIN f.saved \cup {f.at}
      /\ k.saved[f.at] = v
      /\ \A p \in DOMAIN f.saved \ {f.at} : k.saved[p] = f.saved[p]
  BY <1>2, KeepType
<1> HIDE DEF k, g
<1>4. OwnOutput(g) = OwnOutput(k) /\ OwnFiles(g) = OwnFiles(k)
  BY <1>1, <1>3 DEF OwnOutput, OwnFiles
<1>5. /\ SavedStreams(g, W, R)
      /\ f.at # "recover" =>
            g.saved["recover"] = f.saved["recover"] /\ "recover" \in DOMAIN f.saved
  BY <1>1, SavedStreamsKept
<1>6. c.tags = g.saved["recover"].tags /\ "recover" \in DOMAIN g.saved
  BY <1>1, <1>5 DEF OnwardContext
<1>7. Streams(c, W \cup OwnOutput(g), R \cup OwnFiles(g))
  BY <1>4 DEF OnwardContext, k
<1>8. /\ Order[f.at] < Order[g.at] /\ Order[f.at] \in 1 .. 21 /\ Order[g.at] \in 1 .. 21
  <2>1. Processors(prog[f.step]) \subseteq AllProcessors
    BY ProcessorsType
  <2>2. g.at \in Processors(prog[f.step]) /\ Order[f.at] < Order[g.at]
    BY <1>1, <1>2, InnerType
  <2> QED BY <1>2, <2>1, <2>2, OrderType
<1>9. "output" \in DOMAIN g.saved /\ Order[g.at] <= 18 => Writing(c, W \cup OwnOutput(g))
  BY <1>1, <1>4, <1>8 DEF OnwardContext, k
<1>10. ASSUME g.at = "run", "redirect" \in DOMAIN g.saved
       PROVE c.stdout = Discard
  <2>1. Order[g.at] = 17 /\ Order["redirect"] = 16
    BY <1>10, Places
  <2>2. f.at = "redirect" \/ "redirect" \in DOMAIN f.saved
    BY <1>1, <1>10
  <2>3. "redirect" \in DOMAIN f.saved => Order["redirect"] <= Order[f.at] /\ "redirect" \in AllProcessors
    BY SavedOrder
  <2>4. f.at \in AllProcessors /\ (Order[f.at] = Order["redirect"] => f.at = "redirect")
    BY <1>2, ProcessorsType, OrderType, OrderInjective
  <2>5. f.at = "redirect"
    BY <1>8, <2>1, <2>2, <2>3, <2>4
  <2> QED BY <2>5 DEF OnwardContext
<1>11. FrameStreams(g, c, "down", W, R) /\ EnteredTags(g, c) = c.tags
  BY <1>5, <1>6, <1>7, <1>9, <1>10 DEF FrameStreams, EnteredTags
<1> QED BY <1>11 DEF g, k

\* Context c may be handed back to the processor before that of frame f.
BackContext(f, c, W, R) ==
    /\ Streams(c, W \cup OwnOutput(Drop(f)), R \cup OwnFiles(Drop(f)))
    /\ c.tags = f.saved["recover"].tags

LEMMA BackStreams ==
    ASSUME NEW f, NEW dir, FrameShape(prog, f), TopShape(prog, f, dir), f.at # "recover",
           NEW W, NEW R, SavedStreams(f, W, R), NEW c, BackContext(f, c, W, R)
    PROVE LET g == [Drop(f) EXCEPT !.at = Outer(prog[f.step], @)]
          IN  /\ FrameStreams(g, c, "up", W, R)
              /\ EnteredTags(g, c) = c.tags
<1> DEFINE k == Drop(f)
           g == [k EXCEPT !.at = Outer(prog[f.step], @)]
<1>1. DOMAIN f = FrameFields
  BY DEF FrameShape, FrameFields
<1>2. /\ DOMAIN k = FrameFields /\ k.step = f.step
      /\ DOMAIN k.saved = DOMAIN f.saved \ {f.at}
      /\ \A p \in DOMAIN f.saved \ {f.at} : k.saved[p] = f.saved[p]
  BY <1>1, DropType
<1> HIDE DEF k
<1>3. g.step = f.step /\ g.saved = k.saved
  BY <1>2 DEF FrameFields
<1> HIDE DEF g
<1>4. OwnOutput(g) = OwnOutput(k) /\ OwnFiles(g) = OwnFiles(k)
  BY <1>2, <1>3 DEF OwnOutput, OwnFiles
<1>5. /\ SavedStreams(g, W, R)
      /\ "recover" \in DOMAIN g.saved /\ g.saved["recover"] = f.saved["recover"]
  BY <1>2, <1>3, SavedStreamsDropped
<1>6. FrameStreams(g, c, "up", W, R) /\ EnteredTags(g, c) = c.tags
  BY <1>4, <1>5 DEF FrameStreams, EnteredTags, BackContext, k
<1> QED BY <1>6 DEF g, k

\* A context with the writers that the thread has, handed on by a processor that leaves them.
LEMMA PassedContext ==
    ASSUME NEW f, NEW dir, FrameShape(prog, f), TopShape(prog, f, dir),
           f.at \notin {"recover", "output", "redirect", "end"},
           NEW W, NEW R, NEW c, FrameStreams(f, c, dir, W, R),
           ~(dir = "up" /\ Foreign(f.at, f.saved[f.at])),
           dir \in {"down", "merged", "running"} \/ f.at = "retry" \/ Order[f.at] >= 18,
           NEW d, SameStreams(d, c), NEW v
    PROVE OnwardContext(f, d, v, W, R)
<1> DEFINE k == Keep(f, v)
<1>1. /\ DOMAIN f = FrameFields /\ f.at \in Processors(prog[f.step])
  BY DEF FrameShape, FrameFields
<1>2. /\ k.step = f.step
      /\ DOMAIN k.saved = DOMAIN f.saved \cup {f.at}
      /\ \A p \in DOMAIN f.saved \ {f.at} : k.saved[p] = f.saved[p]
  BY <1>1, KeepType
<1> HIDE DEF k
<1>3. OwnOutput(k) = OwnOutput(f) /\ OwnFiles(k) = OwnFiles(f)
  BY <1>2 DEF OwnOutput, OwnFiles
<1>4. Streams(d, W \cup OwnOutput(f), R \cup OwnFiles(f))
  BY SameStreamsOf DEF FrameStreams
<1>5. /\ "recover" \in DOMAIN f.saved
      /\ \A q \in DOMAIN f.saved : Order[q] <= Order[f.at]
  BY SavedOrder
<1>6. d.tags = f.saved["recover"].tags
  BY <1>5 DEF FrameStreams, EnteredTags, SameStreams
<1>7. "output" \in DOMAIN f.saved /\ Order[f.at] < 18 => Writing(d, W \cup OwnOutput(f))
  <2> SUFFICES ASSUME "output" \in DOMAIN f.saved, Order[f.at] < 18
               PROVE Writing(d, W \cup OwnOutput(f))
    OBVIOUS
  <2>1. Order["output"] <= Order[f.at] /\ Order["output"] = 9 /\ Order["retry"] = 2
    BY <1>5, Places
  <2>2. Order[f.at] \in Nat
    BY <1>1, ProcessorsType, OrderNat
  <2>3. f.at # "retry" /\ ~(Order[f.at] >= 18) /\ Order[f.at] <= 18
    BY <2>1, <2>2
  <2>4. dir \in {"down", "merged", "running"}
    BY <2>3
  <2> QED BY <2>3, <2>4 DEF FrameStreams, SameStreams, Writing
<1> QED BY <1>3, <1>4, <1>6, <1>7 DEF OnwardContext, k

\* The same, handed back.
LEMMA PassedBackContext ==
    ASSUME NEW f, NEW dir, FrameShape(prog, f), TopShape(prog, f, dir),
           f.at # "recover", f.at \in {"output", "redirect"} => dir = "down",
           NEW W, NEW R, NEW c, FrameStreams(f, c, dir, W, R),
           ~(dir = "up" /\ Foreign(f.at, f.saved[f.at])),
           NEW d, SameStreams(d, c)
    PROVE BackContext(f, d, W, R)
<1>1. DOMAIN f = FrameFields
  BY DEF FrameShape, FrameFields
<1>2. /\ Drop(f).step = f.step
      /\ DOMAIN Drop(f).saved = DOMAIN f.saved \ {f.at}
      /\ \A p \in DOMAIN f.saved \ {f.at} : Drop(f).saved[p] = f.saved[p]
  BY <1>1, DropType
<1>3. /\ OwnOutput(Drop(f)) = OwnOutput(f) /\ OwnFiles(Drop(f)) = OwnFiles(f)
      /\ "recover" \in DOMAIN f.saved
  <2>1. SavedStreams(f, W, R)
    BY DEF FrameStreams
  <2> QED BY <1>2, <2>1, SavedStreamsDropped
<1>4. Streams(d, W \cup OwnOutput(f), R \cup OwnFiles(f))
  BY SameStreamsOf DEF FrameStreams
<1> QED BY <1>3, <1>4 DEF BackContext, FrameStreams, EnteredTags, SameStreams

-----------------------------------------------------------------------------
(* The writers, when a thread moves.                                       *)

LEMMA FrameStreamsOf ==
    ASSUME NEW th, ThreadShape(prog, th), ThreadStreams(th), th.dir # "done"
    PROVE /\ FrameShape(prog, Top(th)) /\ TopShape(prog, Top(th), th.dir)
          /\ FrameStreams(Top(th), th.ctx, th.dir, CallersWriters(th), CallersFiles(th))
          /\ SavedStreams(Top(th), CallersWriters(th), CallersFiles(th))
          /\ Top(th).at # "recover" =>
                /\ "recover" \in DOMAIN Top(th).saved
                /\ EnteredTags(Top(th), th.ctx) = Top(th).saved["recover"].tags
<1>1. FrameShape(prog, Top(th)) /\ TopShape(prog, Top(th), th.dir)
  BY DEF ThreadShape
<1>2. FrameStreams(Top(th), th.ctx, th.dir, CallersWriters(th), CallersFiles(th))
  BY DEF ThreadStreams, CallersWriters, CallersFiles, Callers
<1>3. Top(th).at # "recover" => "recover" \in DOMAIN Top(th).saved
  <2> DEFINE f == Top(th)
  <2>1. FrameShape(prog, f) /\ TopShape(prog, f, th.dir)
    BY <1>1
  <2> HIDE DEF f
  <2>2. f.at # "recover" => "recover" \in DOMAIN f.saved
    BY <2>1, SavedOrder
  <2> QED BY <2>2 DEF f
<1> QED BY <1>1, <1>2, <1>3 DEF FrameStreams, EnteredTags

\* The two frames are of one step, at one processor, and have kept the same.
SameFrame(f, g) == f.step = g.step /\ f.at = g.at /\ f.saved = g.saved

LEMMA SameFrameStreams ==
    ASSUME NEW f, NEW g, SameFrame(f, g), NEW W, NEW R, NEW dir
    PROVE /\ SavedStreams(g, W, R) => SavedStreams(f, W, R)
          /\ TopShape(prog, g, dir) => TopShape(prog, f, dir)
          /\ \A c : FrameStreams(g, c, dir, W, R) => FrameStreams(f, c, dir, W, R)
          /\ \A c : EnteredTags(f, c) = EnteredTags(g, c)
<1>1. OwnOutput(f) = OwnOutput(g) /\ OwnFiles(f) = OwnFiles(g)
  BY DEF OwnOutput, OwnFiles, SameFrame
<1>2. SavedStreams(g, W, R) => SavedStreams(f, W, R)
  BY <1>1 DEF SavedStreams, SameFrame
<1>3. TopShape(prog, g, dir) => TopShape(prog, f, dir)
  BY DEF TopShape, SameFrame
<1>4. \A c : EnteredTags(f, c) = EnteredTags(g, c)
  BY DEF EnteredTags, SameFrame
<1>5. \A c : FrameStreams(g, c, dir, W, R) => FrameStreams(f, c, dir, W, R)
  BY <1>1, <1>2, <1>4 DEF FrameStreams, SameFrame
<1> QED BY <1>2, <1>3, <1>4, <1>5

LEMMA OnwardMoves ==
    ASSUME NEW th, ThreadShape(prog, th), ThreadStreams(th), th.dir # "done",
           NEW old, NEW f, NEW v,
           old.stack = th.stack, old.path = th.path, DOMAIN old = ThreadFields,
           IsContext(old.ctx), old.dir = "down",
           FrameShape(prog, f), SameFrame(f, Top(th)), f.at # "end", Kept(f.at, v),
           f.at \in {"recover", "output"} => th.dir = "down",
           KeptStreams(f.at, v, f, CallersWriters(th), CallersFiles(th)),
           OnwardContext(f, old.ctx, v, CallersWriters(th), CallersFiles(th)),
           old.ctx.tags = EnteredTags(Top(th), th.ctx)
    PROVE ThreadStreams(SetTop(old, Onward(Keep(f, v))))
<1> DEFINE g == Onward(Keep(f, v))
           new == SetTop(old, g)
           W == CallersWriters(th)
           R == CallersFiles(th)
<1>1. /\ Top(new) = g
      /\ Len(new.stack) = Len(th.stack)
      /\ \A i \in 1 .. Len(th.stack) - 1 : new.stack[i] = th.stack[i]
      /\ new.ctx = old.ctx /\ new.dir = "down" /\ new.path = th.path
  BY OnwardShape DEF SameFrame
<1>2. SavedStreams(f, W, R) /\ TopShape(prog, f, th.dir)
  BY FrameStreamsOf, SameFrameStreams
<1>3. KeptStreams(f.at, v, f, W, R) /\ OnwardContext(f, old.ctx, v, W, R)
  OBVIOUS
<1> HIDE DEF W, R
<1>4. FrameStreams(g, old.ctx, "down", W, R) /\ EnteredTags(g, old.ctx) = old.ctx.tags
  BY <1>2, <1>3, OnwardStreams
<1> HIDE DEF g, new
<1>5. FrameStreams(Top(new), new.ctx, new.dir, CallersWriters(th), CallersFiles(th))
  BY <1>1, <1>4 DEF W, R
<1>6. EnteredTags(Top(new), new.ctx) = EnteredTags(Top(th), th.ctx)
  BY <1>1, <1>4
<1>7. ThreadStreams(new)
  BY <1>1, <1>5, <1>6, StreamsMoved
<1> QED BY <1>7 DEF new, g

LEMMA BackMoves ==
    ASSUME NEW th, ThreadShape(prog, th), ThreadStreams(th), th.dir # "done",
           Top(th).at # "recover", NEW c, IsContext(c), NEW e,
           BackContext(Top(th), c, CallersWriters(th), CallersFiles(th))
    PROVE ThreadStreams(Returned(th, c, e))
<1> DEFINE f == Top(th)
           g == [Drop(f) EXCEPT !.at = Outer(prog[f.step], @)]
           new == Returned(th, c, e)
           W == CallersWriters(th)
           R == CallersFiles(th)
<1>1. /\ Top(new) = g
      /\ Len(new.stack) = Len(th.stack)
      /\ \A i \in 1 .. Len(th.stack) - 1 : new.stack[i] = th.stack[i]
      /\ new.ctx = c /\ new.dir = "up" /\ new.path = th.path
  BY ReturnedInside
<1>2. /\ FrameShape(prog, f) /\ TopShape(prog, f, th.dir) /\ SavedStreams(f, W, R)
      /\ f.at # "recover" /\ BackContext(f, c, W, R)
      /\ EnteredTags(Top(th), th.ctx) = f.saved["recover"].tags
  BY FrameStreamsOf
<1> HIDE DEF f, W, R
<1>3. FrameStreams(g, c, "up", W, R) /\ EnteredTags(g, c) = c.tags
  BY <1>2, BackStreams
<1> HIDE DEF g, new
<1>4. FrameStreams(Top(new), new.ctx, new.dir, CallersWriters(th), CallersFiles(th))
  BY <1>1, <1>3 DEF W, R
<1>5. EnteredTags(Top(new), new.ctx) = EnteredTags(Top(th), th.ctx)
  BY <1>1, <1>2, <1>3 DEF BackContext
<1>6. ThreadStreams(new)
  BY <1>1, <1>4, <1>5, StreamsMoved
<1> QED BY <1>6 DEF new

LEMMA OutMoves ==
    ASSUME NEW th, ThreadShape(prog, th), ThreadStreams(th), th.dir # "done",
           NEW new, NEW c, Streams(c, CallersWriters(th), CallersFiles(th)),
           c.tags = EnteredTags(Top(th), th.ctx), new.ctx = c, new.path = th.path,
           \/ new.dir = "done"
           \/ /\ Len(th.stack) # 1
              /\ Len(new.stack) = Len(th.stack) - 1
              /\ \A i \in 1 .. Len(th.stack) - 1 : new.stack[i] = th.stack[i]
              /\ Top(new) = th.stack[Len(th.stack) - 1]
              /\ CallingShape(prog, Top(new)) /\ FrameShape(prog, Top(new))
              /\ new.dir = "up"
    PROVE ThreadStreams(new)
<1>1. CASE new.dir = "done"
  BY <1>1 DEF ThreadStreams
<1>2. CASE new.dir # "done"
  BY <1>2, StreamsPopped
<1> QED BY <1>1, <1>2

\* The first processor returns.
LEMMA LastMoves ==
    ASSUME NEW th, ThreadShape(prog, th), ThreadStreams(th), th.dir = "up",
           Top(th).at = "recover", NEW e
    PROVE ThreadStreams(Returned(th, th.ctx, e))
<1> DEFINE f == Top(th)
           new == Returned(th, th.ctx, e)
           W == CallersWriters(th)
           R == CallersFiles(th)
<1>1. DOMAIN th = ThreadFields /\ IsSeq(th.stack) /\ IsContext(th.ctx)
  BY DEF ThreadShape, ThreadType
<1>2. /\ new.ctx = th.ctx /\ new.path = th.path
      /\ \/ new.dir = "done"
         \/ /\ Len(th.stack) # 1
            /\ Len(new.stack) = Len(th.stack) - 1
            /\ \A i \in 1 .. Len(th.stack) - 1 : new.stack[i] = th.stack[i]
            /\ Top(new) = th.stack[Len(th.stack) - 1]
            /\ CallingShape(prog, Top(new)) /\ FrameShape(prog, Top(new))
            /\ new.dir = "up"
  BY <1>1, ReturnedOut
<1>3. /\ FrameShape(prog, f) /\ TopShape(prog, f, "up") /\ f.at = "recover"
      /\ FrameStreams(f, th.ctx, "up", W, R)
  BY FrameStreamsOf
<1> HIDE DEF f, new, W, R
<1>4. OwnOutput(f) = {} /\ OwnFiles(f) = {}
  <2>1. \A q \in DOMAIN f.saved : Order[q] <= Order["recover"]
    BY <1>3, SavedOrder
  <2>2. ~(Order["output"] <= Order["recover"]) /\ ~(Order["redirect"] <= Order["recover"])
    BY Places
  <2> QED BY <2>1, <2>2 DEF OwnOutput, OwnFiles
<1>5. Streams(th.ctx, W, R) /\ th.ctx.tags = EnteredTags(f, th.ctx)
  BY <1>3, <1>4 DEF FrameStreams, Foreign
<1>6. ThreadStreams(new)
  BY <1>2, <1>5, OutMoves DEF f, W, R
<1> QED BY <1>6 DEF new

\* A panic hands back the context that the step was called with.
LEMMA PanicMoves ==
    ASSUME NEW th, ThreadShape(prog, th), ThreadStreams(th), th.dir # "done",
           Top(th).at # "recover"
    PROVE ThreadStreams(Panicked(th))
<1> DEFINE c == Top(th).saved["recover"]
           new == Panicked(th)
<1>1. /\ "recover" \in DOMAIN Top(th).saved
      /\ EnteredTags(Top(th), th.ctx) = c.tags
      /\ Streams(c, CallersWriters(th), CallersFiles(th))
  BY FrameStreamsOf DEF SavedStreams
<1>2. /\ new.ctx = c /\ new.path = th.path
      /\ \/ new.dir = "done"
         \/ /\ Len(th.stack) # 1
            /\ Len(new.stack) = Len(th.stack) - 1
            /\ \A i \in 1 .. Len(th.stack) - 1 : new.stack[i] = th.stack[i]
            /\ Top(new) = th.stack[Len(th.stack) - 1]
            /\ CallingShape(prog, Top(new)) /\ FrameShape(prog, Top(new))
            /\ new.dir = "up"
  BY <1>1, PanickedShape
<1> HIDE DEF c, new
<1>3. ThreadStreams(new)
  BY <1>1, <1>2, OutMoves
<1> QED BY <1>3 DEF new

\* Only the history in the frame on top has changed.
LEMMA TouchedMoves ==
    ASSUME NEW th, ThreadShape(prog, th), ThreadStreams(th), th.dir # "done",
           NEW f, FrameShape(prog, f), SameFrame(f, Top(th))
    PROVE LET new == SetTop(th, f)
          IN  /\ ThreadShape(prog, new) /\ ThreadStreams(new) /\ Top(new) = f
              /\ new.ctx = th.ctx /\ new.dir = th.dir /\ new.path = th.path
              /\ CallersWriters(new) = CallersWriters(th) /\ CallersFiles(new) = CallersFiles(th)
<1> DEFINE new == SetTop(th, f)
<1>1. /\ DOMAIN th = ThreadFields /\ IsContext(th.ctx) /\ th.dir \in Directions \ {"done"}
  BY DEF ThreadShape, ThreadType
<1>2. FrameStreams(Top(th), th.ctx, th.dir, CallersWriters(th), CallersFiles(th))
        /\ TopShape(prog, Top(th), th.dir)
  BY FrameStreamsOf
<1>3. /\ TopShape(prog, f, th.dir)
      /\ FrameStreams(f, th.ctx, th.dir, CallersWriters(th), CallersFiles(th))
      /\ EnteredTags(f, th.ctx) = EnteredTags(Top(th), th.ctx)
  BY <1>2, SameFrameStreams
<1>4. /\ ThreadShape(prog, new) /\ Top(new) = f
      /\ Len(new.stack) = Len(th.stack)
      /\ \A i \in 1 .. Len(th.stack) - 1 : new.stack[i] = th.stack[i]
      /\ new.ctx = th.ctx /\ new.dir = th.dir /\ new.path = th.path
  BY <1>1, <1>3, TopMoved
<1> HIDE DEF new
<1>5. ThreadStreams(new)
  BY <1>3, <1>4, StreamsMoved
<1>6. CallersWriters(new) = CallersWriters(th) /\ CallersFiles(new) = CallersFiles(th)
  <2> DEFINE n == Len(th.stack) - 1
  <2>1. n \in Nat
    <3>1. Len(th.stack) \in Nat /\ Len(th.stack) > 0
      BY SeqType DEF ThreadShape, ThreadType
    <3> QED BY <3>1
  <2>2. SameUpTo(new.stack, th.stack, n) /\ Callers(new) = n /\ Callers(th) = n
    BY <1>4 DEF SameUpTo, Callers
  <2> HIDE DEF n
  <2>3. n \in 0 .. n
    BY <2>1
  <2> QED BY <1>4, <2>1, <2>2, <2>3, WritersOf DEF CallersWriters, CallersFiles
<1> QED BY <1>4, <1>5, <1>6 DEF new

\* A processor that leaves the writers as they are calls the next.
LEMMA HandedOn ==
    ASSUME NEW th, ThreadShape(prog, th), ThreadStreams(th), th.dir # "done",
           NEW old, NEW f, NEW v,
           old.stack = th.stack, old.path = th.path, DOMAIN old = ThreadFields,
           IsContext(old.ctx), old.dir = "down", SameStreams(old.ctx, th.ctx),
           FrameShape(prog, f), SameFrame(f, Top(th)), Kept(f.at, v),
           f.at \notin {"recover", "output", "redirect", "end"}, ~Foreign(f.at, v),
           th.dir = "up" => ~Foreign(f.at, f.saved[f.at]),
           th.dir \in {"down", "merged", "running"} \/ f.at = "retry" \/ Order[f.at] >= 18
    PROVE ThreadStreams(SetTop(old, Onward(Keep(f, v))))
<1> DEFINE W == CallersWriters(th)
           R == CallersFiles(th)
<1>1. /\ TopShape(prog, f, th.dir) /\ SavedStreams(f, W, R)
      /\ FrameStreams(f, th.ctx, th.dir, W, R)
      /\ EnteredTags(Top(th), th.ctx) = f.saved["recover"].tags
  BY FrameStreamsOf, SameFrameStreams DEF SameFrame
<1> HIDE DEF W, R
<1>2. OnwardContext(f, old.ctx, v, W, R)
  BY <1>1, PassedContext
<1>3. KeptStreams(f.at, v, f, W, R)
  BY DEF KeptStreams, Foreign
<1>4. old.ctx.tags = EnteredTags(Top(th), th.ctx)
  BY <1>1, <1>2 DEF OnwardContext
<1> QED BY <1>2, <1>3, <1>4, OnwardMoves DEF W, R

\* It returns.
LEMMA HandedBack ==
    ASSUME NEW th, ThreadShape(prog, th), ThreadStreams(th), th.dir # "done",
           Top(th).at # "recover", Top(th).at \in {"output", "redirect"} => th.dir = "down",
           th.dir = "up" => ~Foreign(Top(th).at, Top(th).saved[Top(th).at]),
           NEW c, IsContext(c), SameStreams(c, th.ctx), NEW e
    PROVE ThreadStreams(Returned(th, c, e))
<1> DEFINE f == Top(th)
           W == CallersWriters(th)
           R == CallersFiles(th)
<1>1. /\ FrameShape(prog, f) /\ TopShape(prog, f, th.dir)
      /\ FrameStreams(f, th.ctx, th.dir, W, R)
  BY FrameStreamsOf
<1>2. /\ f.at # "recover" /\ (f.at \in {"output", "redirect"} => th.dir = "down")
      /\ ~(th.dir = "up" /\ Foreign(f.at, f.saved[f.at]))
  OBVIOUS
<1> HIDE DEF f, W, R
<1>3. BackContext(f, c, W, R)
  BY <1>1, <1>2, PassedBackContext
<1> QED BY <1>3, BackMoves DEF f, W, R

\* Another step is called.
LEMMA CallMoves ==
    ASSUME NEW th, ThreadShape(prog, th), ThreadStreams(th), th.dir # "done",
           NEW v, Kept(Top(th).at, v), CalledFrom(Top(th).at, v),
           KeptStreams(Top(th).at, v, Top(th), CallersWriters(th), CallersFiles(th)),
           NEW s \in DOMAIN prog, NEW c, IsContext(c), NEW h,
           Streams(c, CallersWriters(th) \cup OwnOutput(Top(th)),
                   CallersFiles(th) \cup OwnFiles(Top(th))),
           Top(th).at = "and" => c.tags = Top(th).saved["recover"].tags
    PROVE ThreadStreams(Called(th, s, c, h, v))
<1> DEFINE f == Top(th)
           k == Keep(f, v)
           new == Called(th, s, c, h, v)
           W == CallersWriters(th)
           R == CallersFiles(th)
<1>1. /\ Len(new.stack) = Len(th.stack) + 1
      /\ \A i \in 1 .. Len(th.stack) - 1 : new.stack[i] = th.stack[i]
      /\ new.stack[Len(th.stack)] = k
      /\ Top(new) = NewFrame(s, c, h)
      /\ new.ctx = c /\ new.dir = "down" /\ new.path = th.path
  BY CalledShape
<1>2. /\ FrameShape(prog, f) /\ TopShape(prog, f, th.dir) /\ SavedStreams(f, W, R)
      /\ f.at \in {"needs", "and", "inherit"} /\ KeptStreams(f.at, v, f, W, R)
  BY FrameStreamsOf DEF CalledFrom
<1>3. Streams(c, W \cup OwnOutput(f), R \cup OwnFiles(f))
        /\ (f.at = "and" => c.tags = f.saved["recover"].tags)
  OBVIOUS
<1> HIDE DEF f, new, W, R
<1>4. /\ k.step = f.step /\ k.at = f.at
      /\ DOMAIN k.saved = DOMAIN f.saved \cup {f.at}
      /\ k.saved[f.at] = v
      /\ \A p \in DOMAIN f.saved \ {f.at} : k.saved[p] = f.saved[p]
  <2>1. DOMAIN f = FrameFields
    BY <1>2 DEF FrameShape, FrameFields
  <2> QED BY <2>1, KeepType
<1> HIDE DEF k
<1>5. /\ SavedStreams(k, W, R)
      /\ OwnOutput(k) = OwnOutput(f) /\ OwnFiles(k) = OwnFiles(f)
      /\ k.saved["recover"] = f.saved["recover"] /\ "recover" \in DOMAIN f.saved
  BY <1>2, <1>4, SavedStreamsKept
<1>6. DOMAIN Top(new).saved = {} /\ Top(new).at = "recover"
  BY <1>1, NewFrameShape
<1>7. /\ SavedStreams(k, CallersWriters(th), CallersFiles(th))
      /\ k.at = Top(th).at /\ k.saved["recover"] = Top(th).saved["recover"]
      /\ "recover" \in DOMAIN Top(th).saved
      /\ Streams(new.ctx, CallersWriters(th) \cup OwnOutput(k), CallersFiles(th) \cup OwnFiles(k))
      /\ (k.at = "and" => new.ctx.tags = k.saved["recover"].tags)
  BY <1>1, <1>3, <1>4, <1>5 DEF f, W, R
<1>8. ThreadStreams(new)
  BY <1>1, <1>6, <1>7, StreamsPushed
<1> QED BY <1>8 DEF new

\* A goroutine starts.
LEMMA NewThreadStreams ==
    ASSUME NEW s \in DOMAIN prog, NEW c, IsContext(c), NEW h, NEW path, IsSeq(path),
           NEW W, W = {path[j] : j \in DOMAIN path}, Streams(c, W, W)
    PROVE ThreadStreams(NewThread(s, c, h, path))
<1> DEFINE th == NewThread(s, c, h, path)
           f == NewFrame(s, c, h)
<1>1. /\ Len(th.stack) = 1 /\ Top(th) = f
      /\ th.ctx = c /\ th.dir = "down" /\ th.path = path
  BY NewThreadShape
<1>2. DOMAIN f.saved = {} /\ f.at = "recover"
  BY NewFrameShape
<1> HIDE DEF th, f
<1>3. OwnOutput(f) = {} /\ OwnFiles(f) = {}
  BY <1>2 DEF OwnOutput, OwnFiles
<1>4. Len(th.stack) - 1 = 0
  BY <1>1
<1>5. /\ Writers(path, th.stack, 0) = W /\ Redirects(path, th.stack, 0) = W
  BY DEF Writers, Redirects
<1>6. CallingStreams(path, th.stack, 0) /\ TagsPassed(th.stack, 0, EnteredTags(f, c))
  BY DEF CallingStreams, TagsPassed
<1>7. FrameStreams(f, c, "down", W, W)
  BY <1>2, <1>3 DEF FrameStreams, SavedStreams, EnteredTags
<1> QED BY <1>1, <1>4, <1>5, <1>6, <1>7 DEF ThreadStreams, th

-----------------------------------------------------------------------------
(* The writers, at every step.                                             *)

StreamsNext == \A u \in DOMAIN threads' : ThreadStreams(threads'[u])

LEMMA OneStreams ==
    ASSUME AllStreams, NEW t \in DOMAIN threads, NEW new, ThreadStreams(new),
           threads' = [threads EXCEPT ![t] = new]
    PROVE StreamsNext
  BY DEF AllStreams, StreamsNext

\* The processor of thread t has not called a step that is still in its chain.
Own(t) == threads[t].dir = "up" => ~Foreign(Proc(t), Saved(t, Proc(t)))

\* It calls the next.
LEMMA ForwardSame ==
    ASSUME Shape, AllStreams, NEW t \in DOMAIN threads, threads[t].dir = "down",
           Proc(t) \notin {"recover", "output", "redirect", "end"},
           NEW c, IsContext(c), SameStreams(c, Ctx(t)),
           NEW v, Kept(Proc(t), v), ~Foreign(Proc(t), v), Forward(t, c, v)
    PROVE StreamsNext
<1> DEFINE th == threads[t]
           old == [th EXCEPT !.ctx = c]
           new == SetTop(old, Onward(Keep(Top(th), v)))
<1>1. ThreadShape(prog, th) /\ ThreadStreams(th)
  BY DEF Shape, AllStreams
<1>2. /\ old.stack = th.stack /\ old.path = th.path /\ DOMAIN old = ThreadFields
      /\ old.ctx = c /\ old.dir = "down" /\ FrameShape(prog, Top(th))
  BY <1>1 DEF ThreadShape, ThreadType, ThreadFields
<1>3. Top(old) = Top(th)
  BY <1>2 DEF Top
<1>4. threads' = [threads EXCEPT ![t] = new]
  BY <1>3 DEF Forward
<1>5. SameStreams(old.ctx, th.ctx) /\ IsContext(old.ctx)
  BY <1>2 DEF Ctx
<1>6. SameFrame(Top(th), Top(th))
  BY DEF SameFrame
<1> HIDE DEF old
<1>7. ThreadStreams(new)
  BY <1>1, <1>2, <1>5, <1>6, HandedOn DEF Proc
<1> QED BY <1>4, <1>7, OneStreams

\* It returns.
LEMMA ReturnSame ==
    ASSUME Shape, AllStreams, NEW t \in DOMAIN threads, threads[t].dir # "done",
           Proc(t) # "recover", Proc(t) \in {"output", "redirect"} => threads[t].dir = "down",
           Own(t), NEW c, IsContext(c), SameStreams(c, Ctx(t)), NEW e, Return(t, c, e)
    PROVE StreamsNext
<1> DEFINE th == threads[t]
           new == Returned(th, c, e)
<1>1. ThreadShape(prog, th) /\ ThreadStreams(th)
  BY DEF Shape, AllStreams
<1>2. /\ th.dir # "done" /\ Top(th).at # "recover"
      /\ (Top(th).at \in {"output", "redirect"} => th.dir = "down")
      /\ (th.dir = "up" => ~Foreign(Top(th).at, Top(th).saved[Top(th).at]))
      /\ SameStreams(c, th.ctx)
  BY DEF Proc, Own, Saved, Frame, Ctx
<1>3. ThreadStreams(new)
  BY <1>1, <1>2, HandedBack
<1> HIDE DEF new
<1> QED BY <1>3, OneStreams DEF Return, new

LEMMA PanicStreams ==
    ASSUME Shape, AllStreams, NEW t \in DOMAIN threads, threads[t].dir # "done",
           Proc(t) # "recover", Panic(t)
    PROVE StreamsNext
<1>1. ThreadShape(prog, threads[t]) /\ ThreadStreams(threads[t])
  BY DEF Shape, AllStreams
<1>2. ThreadStreams(Panicked(threads[t]))
  BY <1>1, PanicMoves DEF Proc
<1> QED BY <1>2, OneStreams DEF Panic

\* Most of what a processor changes in the context is not its writers.
LEMMA SameStreamsType ==
    ASSUME NEW c, IsContext(c)
    PROVE /\ SameStreams(c, c) /\ SameStreams(Cleared(c), c)
          /\ \A x : /\ SameStreams([c EXCEPT !.expanding = x], c)
                    /\ SameStreams([c EXCEPT !.uname = x], c)
                    /\ SameStreams([c EXCEPT !.outlist = x], c)
                    /\ SameStreams([c EXCEPT !.template = x], c)
          /\ \A x, k : k \in VarMaps => SameStreams([c EXCEPT ![k] = x], c)
          /\ \A x : SameStreams(WithNamespace(c, x), c)
          /\ \A t, h : SameStreams(DeepCopy(t, c, h), c)
<1>1. DOMAIN c = ContextFields
  BY DEF IsContext
<1>2. /\ SameStreams(c, c) /\ SameStreams(Cleared(c), c)
      /\ \A x : /\ SameStreams([c EXCEPT !.expanding = x], c)
                /\ SameStreams([c EXCEPT !.uname = x], c)
                /\ SameStreams([c EXCEPT !.outlist = x], c)
                /\ SameStreams([c EXCEPT !.template = x], c)
      /\ \A x : SameStreams(WithNamespace(c, x), c)
  BY <1>1 DEF SameStreams, Cleared, WithNamespace, ContextFields
<1>3. \A x, k : k \in VarMaps => SameStreams([c EXCEPT ![k] = x], c)
  BY <1>1 DEF SameStreams, ContextFields, VarMaps
<1>4. \A t, h : SameStreams(DeepCopy(t, c, h), c)
  <2>1. /\ {"stdout", "files", "closed", "tags"} \subseteq DOMAIN c
        /\ {"stdout", "files", "closed", "tags"} \cap Copied(c) = {}
    BY <1>1 DEF ContextFields, Copied, Cloned, Maps, Kinds, VarMaps
  <2> QED BY <2>1 DEF SameStreams, DeepCopy
<1> QED BY <1>2, <1>3, <1>4

LEMMA AnyForeign ==
    ASSUME NEW p, p \notin {"needs", "inherit"}, NEW v
    PROVE ~Foreign(p, v)
  BY DEF Foreign

\* Recover, retry, result.
LEMMA FirstStreams ==
    ASSUME Shape, AllStreams, NEW t \in DOMAIN threads,
           \/ EnterRecover(t) \/ LeaveRecover(t) \/ EnterRetry(t) \/ LeaveRetry(t)
           \/ EnterResult(t) \/ LeaveResult(t)
    PROVE StreamsNext
<1> DEFINE th == threads[t]
<1>0. /\ ThreadShape(prog, th) /\ ThreadStreams(th) /\ IsContext(Ctx(t)) /\ DOMAIN th = ThreadFields
      /\ th.dir # "done" => FrameShape(prog, Top(th))
      /\ SameFrame(Top(th), Top(th)) /\ Ctx(t) = th.ctx
  BY ShapeOf DEF Shape, AllStreams, Frame, SameFrame, Ctx
<1>1. CASE EnterRecover(t)
  <2> DEFINE c == Ctx(t)
             f == Top(th)
             old == [th EXCEPT !.ctx = c]
             new == SetTop(old, Onward(Keep(Top(th), c)))
             W == CallersWriters(th)
             R == CallersFiles(th)
  <2>1. th.dir = "down" /\ f.at = "recover" /\ FrameShape(prog, f)
    BY <1>0, <1>1 DEF EnterRecover, At, Proc
  <2>2. /\ old.stack = th.stack /\ old.path = th.path /\ DOMAIN old = ThreadFields
        /\ old.ctx = c /\ old.dir = "down"
    BY <1>0, <2>1 DEF ThreadFields
  <2>3. threads' = [threads EXCEPT ![t] = new]
    <3>1. Top(old) = Top(th)
      BY <2>2 DEF Top
    <3> QED BY <1>1, <3>1 DEF EnterRecover, Forward
  <2>4. /\ FrameStreams(f, c, "down", W, R) /\ TopShape(prog, f, "down")
        /\ EnteredTags(Top(th), th.ctx) = EnteredTags(f, c)
    BY <1>0, <2>1, FrameStreamsOf
  <2> HIDE DEF old, f, W, R, c
  <2>5. DOMAIN f.saved = {}
    <3>1. \A q \in DOMAIN f.saved : Order[q] < Order["recover"] /\ q \in AllProcessors
      BY <2>1, <2>4, SavedOrder
    <3> QED BY <3>1, OrderType, Places
  <2>6. Streams(c, W, R) /\ EnteredTags(f, c) = c.tags
    BY <2>4, <2>5 DEF FrameStreams, OwnOutput, OwnFiles, EnteredTags
  <2>7. OnwardContext(f, c, c, W, R)
    <3>1. /\ Keep(f, c).step = f.step /\ DOMAIN Keep(f, c).saved = {"recover"}
      <4>1. DOMAIN f = FrameFields
        BY <2>1 DEF FrameShape, FrameFields
      <4> QED BY <2>1, <2>5, <4>1, KeepType
    <3>2. Streams(c, W \cup OwnOutput(Keep(f, c)), R \cup OwnFiles(Keep(f, c)))
      BY <2>6, StreamsMonotone
    <3> QED BY <2>1, <2>5, <3>2 DEF OnwardContext
  <2>8. KeptStreams("recover", c, f, W, R) /\ Kept("recover", c) /\ IsContext(c)
    BY <1>0, <2>6 DEF KeptStreams, Kept, c
  <2>9. ThreadStreams(new)
    BY <1>0, <2>1, <2>2, <2>4, <2>6, <2>7, <2>8, OnwardMoves DEF f, W, R
  <2> HIDE DEF new
  <2> QED BY <2>3, <2>9, OneStreams
<1>2. CASE LeaveRecover(t)
  <2>1. th.dir = "up" /\ Top(th).at = "recover" /\ Return(t, th.ctx, Err(t))
    BY <1>0, <1>2 DEF LeaveRecover, At, Proc
  <2>2. ThreadStreams(Returned(th, th.ctx, Err(t)))
    BY <1>0, <2>1, LastMoves
  <2> QED BY <2>1, <2>2, OneStreams DEF Return
<1>3. CASE EnterRetry(t)
  <2>1. th.dir = "down" /\ Proc(t) = "retry" /\ th.dir # "done"
    BY <1>3 DEF EnterRetry, At
  <2>2. CASE Ctx(t).alive
    <3> DEFINE v == [left |-> Options(t).retry, ctx |-> Ctx(t)]
    <3>1. Forward(t, Ctx(t), v)
      BY <1>3, <2>2 DEF EnterRetry
    <3> HIDE DEF v
    <3> QED BY <1>0, <2>1, <3>1, KeptAny, AnyForeign, SameStreamsType, ForwardSame
  <2>3. CASE ~Ctx(t).alive
    BY <1>3, <2>1, <2>3, PanicStreams DEF EnterRetry
  <2> QED BY <2>2, <2>3
<1>4. CASE LeaveRetry(t)
  <2> DEFINE v == Saved(t, "retry")
             again == [Ctx(t) EXCEPT !.expanding = v.ctx.expanding]
             kept == [left |-> v.left - 1, ctx |-> v.ctx]
             old == [th EXCEPT !.dir = "down", !.err = "ok", !.ctx = again]
             new == SetTop(old, Onward(Keep(Top(th), kept)))
  <2>1. th.dir = "up" /\ Proc(t) = "retry" /\ Top(th).at = "retry" /\ Own(t)
    BY <1>4, AnyForeign DEF LeaveRetry, At, Proc, Own
  <2>2. CASE Return(t, Ctx(t), Err(t))
    BY <1>0, <2>1, <2>2, SameStreamsType, ReturnSame
  <2>3. CASE threads' = [threads EXCEPT ![t] =
                SetTop([@ EXCEPT !.dir = "down", !.err = "ok", !.ctx = again],
                       Onward(Keep(Top(@), kept)))]
    <3>1. /\ old.stack = th.stack /\ old.path = th.path /\ DOMAIN old = ThreadFields
          /\ old.ctx = again /\ old.dir = "down"
      BY <1>0 DEF ThreadFields
    <3>2. IsContext(again) /\ SameStreams(again, th.ctx)
      BY <1>0, SameStreamsType DEF IsContext
    <3>3. Kept("retry", kept) /\ ~Foreign("retry", kept) /\ ~Foreign("retry", Top(th).saved["retry"])
      BY KeptAny, AnyForeign
    <3>4. threads' = [threads EXCEPT ![t] = new]
      BY <2>3
    <3> HIDE DEF old, kept, again, v
    <3>5. IsContext(old.ctx) /\ SameStreams(old.ctx, th.ctx)
      BY <3>1, <3>2
    <3>6. ThreadStreams(new)
      BY <1>0, <2>1, <3>1, <3>3, <3>5, HandedOn
    <3> HIDE DEF new
    <3> QED BY <3>4, <3>6, OneStreams
  <2> QED BY <1>4, <2>2, <2>3 DEF LeaveRetry
<1>5. CASE EnterResult(t)
  <2> DEFINE c == [Ctx(t) EXCEPT !.uname = Append(Ctx(t).ns, Frame(t).step)]
  <2>1. IsContext(c) /\ SameStreams(c, Ctx(t))
    BY <1>0, SameStreamsType DEF IsContext
  <2>2. Forward(t, c, TRUE) /\ th.dir = "down" /\ Proc(t) = "result"
    BY <1>5 DEF EnterResult, At
  <2> HIDE DEF c
  <2> QED BY <2>1, <2>2, KeptAny, AnyForeign, ForwardSame
<1>6. CASE LeaveResult(t)
  <2> DEFINE c == Cleared(Ctx(t))
  <2>1. IsContext(c) /\ SameStreams(c, Ctx(t))
    BY <1>0, ContextType, SameStreamsType
  <2>2. Return(t, c, Err(t)) /\ th.dir = "up" /\ Proc(t) = "result" /\ Own(t)
    BY <1>6, AnyForeign DEF LeaveResult, At, Own
  <2> HIDE DEF c
  <2> QED BY <2>1, <2>2, ReturnSame
<1> QED BY <1>1, <1>2, <1>3, <1>4, <1>5, <1>6

\* The maps of variables, outputs.
LEMMA VariablesStreams ==
    ASSUME Shape, AllStreams, NEW t \in DOMAIN threads,
           \/ EnterInputs(t) \/ LeaveInputs(t)
           \/ \E k \in {"env", "secret"} : EnterVars(t, k) \/ LeaveVars(t, k) \/ LeaveVarsFails(t, k)
           \/ EnterOutputs(t) \/ LeaveOutputs(t) \/ PreparationFails(t)
    PROVE StreamsNext
<1> DEFINE th == threads[t]
<1>0. /\ ThreadShape(prog, th) /\ ThreadStreams(th) /\ IsContext(Ctx(t)) /\ DOMAIN th = ThreadFields
      /\ th.dir # "done" => FrameShape(prog, Top(th))
      /\ Ctx(t) = th.ctx /\ SameStreams(th.ctx, th.ctx) /\ SameStreams(Ctx(t), Ctx(t))
  BY ShapeOf DEF Shape, AllStreams, Frame, Ctx, SameStreams
<1>1. CASE EnterInputs(t)
  <2>1. th.dir = "down" /\ Proc(t) = "inputs" /\ Forward(t, Ctx(t), heap[Ctx(t).inputs])
    BY <1>1 DEF EnterInputs, At
  <2> QED BY <1>0, <2>1, KeptAny, AnyForeign, ForwardSame
<1>2. CASE LeaveInputs(t)
  <2> DEFINE c == [Ctx(t) EXCEPT !.inputs = Fresh(t, "inputs", heap)]
  <2>1. IsContext(c) /\ SameStreams(c, Ctx(t))
    BY <1>0 DEF IsContext, SameStreams, ContextFields
  <2>2. Return(t, c, Err(t)) /\ th.dir = "up" /\ Proc(t) = "inputs" /\ Own(t)
    BY <1>2, AnyForeign DEF LeaveInputs, At, Own
  <2> HIDE DEF c
  <2> QED BY <2>1, <2>2, ReturnSame
<1>3. ASSUME NEW k \in {"env", "secret"}, EnterVars(t, k)
      PROVE StreamsNext
  <2> DEFINE f == [Top(th) EXCEPT !.published[k] = {}]
             v == Origin(t, k)
             new == SetTop(th, Onward(Keep(f, v)))
  <2>1. At(t, "down", k) /\ threads' = [threads EXCEPT ![t] = new]
    BY <1>3 DEF EnterVars
  <2>2. FrameShape(prog, Top(th)) /\ th.dir = "down" /\ Top(th).at = k
    BY <1>0, <2>1 DEF At, Proc
  <2>3. /\ DOMAIN f = FrameFields /\ f.step = Top(th).step /\ f.at = k
        /\ f.saved = Top(th).saved
    BY <2>2 DEF FrameShape, FrameFields
  <2> HIDE DEF f, v
  <2>4. /\ FrameShape(prog, f) /\ Kept(f.at, v) /\ ~Foreign(f.at, v) /\ SameFrame(f, Top(th))
        /\ f.at \notin {"recover", "output", "redirect", "end"}
    BY <2>2, <2>3, KeptAny, AnyForeign DEF FrameShape, FrameFields, SameFrame
  <2>5. IsContext(th.ctx)
    BY <1>0
  <2>6. ThreadStreams(new)
    BY <1>0, <2>2, <2>4, <2>5, HandedOn
  <2> HIDE DEF new
  <2> QED BY <2>1, <2>6, OneStreams
<1>4. ASSUME NEW k \in {"env", "secret"}, LeaveVars(t, k)
      PROVE StreamsNext
  <2> DEFINE c == [Ctx(t) EXCEPT ![k] = Fresh(t, k, heap)]
  <2>1. IsContext(c) /\ SameStreams(c, Ctx(t))
    BY <1>0 DEF IsContext, SameStreams, ContextFields
  <2>2. Return(t, c, Err(t)) /\ th.dir = "up" /\ Proc(t) = k /\ Own(t)
    BY <1>4, AnyForeign DEF LeaveVars, At, Own
  <2> HIDE DEF c
  <2> QED BY <2>1, <2>2, ReturnSame
<1>5. ASSUME NEW dir \in {"down", "up"}, th.dir = dir, NEW r,
             Proc(t) \notin {"recover", "output", "needs", "inherit"},
             Proc(t) = "redirect" => dir = "down",
             NEW f, f = [Frame(t) EXCEPT !.unrestored = r],
             threads' = [threads EXCEPT ![t] = Returned(SetTop(@, f), Ctx(t), "hard")]
      PROVE StreamsNext
  <2>1. /\ FrameShape(prog, Top(th)) /\ f.at = Top(th).at /\ f.at = Proc(t)
        /\ DOMAIN f = FrameFields /\ f.step = Top(th).step /\ f.saved = Top(th).saved
    BY <1>0, <1>5 DEF FrameShape, FrameFields, Frame, Proc
  <2>2. FrameShape(prog, f) /\ SameFrame(f, Top(th))
    BY <2>1 DEF FrameShape, FrameFields, SameFrame
  <2> DEFINE new == SetTop(th, f)
  <2>3. /\ ThreadShape(prog, new) /\ ThreadStreams(new) /\ Top(new) = f
        /\ new.ctx = th.ctx /\ new.dir = th.dir
    BY <1>0, <1>5, <2>2, TouchedMoves
  <2>4. threads' = [threads EXCEPT ![t] = Returned(new, Ctx(t), "hard")]
    BY <1>5
  <2> HIDE DEF new
  <2>5. /\ new.dir # "done" /\ Top(new).at \notin {"recover", "output"}
        /\ (Top(new).at = "redirect" => new.dir = "down")
        /\ ~Foreign(Top(new).at, Top(new).saved[Top(new).at])
        /\ SameStreams(Ctx(t), new.ctx)
    BY <1>0, <1>5, <2>1, <2>3, AnyForeign
  <2>6. ThreadStreams(Returned(new, Ctx(t), "hard"))
    BY <1>0, <2>3, <2>5, HandedBack
  <2> QED BY <2>4, <2>6, OneStreams
<1>6. ASSUME NEW k \in {"env", "secret"}, LeaveVarsFails(t, k)
      PROVE StreamsNext
  BY <1>5, <1>6 DEF LeaveVarsFails, At
<1>7. CASE EnterOutputs(t)
  <2> DEFINE c == [Ctx(t) EXCEPT !.outlist = @ \cup {<<o, Ctx(t).uname>> : o \in Options(t).outputs}]
  <2>1. IsContext(c) /\ SameStreams(c, Ctx(t))
    BY <1>0 DEF IsContext, SameStreams, ContextFields
  <2>2. Forward(t, c, TRUE) /\ th.dir = "down" /\ Proc(t) = "outputs"
    BY <1>7 DEF EnterOutputs, At
  <2> HIDE DEF c
  <2> QED BY <2>1, <2>2, KeptAny, AnyForeign, ForwardSame
<1>8. CASE LeaveOutputs(t)
  <2>1. Return(t, Ctx(t), Err(t)) /\ th.dir = "up" /\ Proc(t) = "outputs" /\ Own(t)
    BY <1>8, AnyForeign DEF LeaveOutputs, At, Own
  <2> QED BY <1>0, <2>1, ReturnSame
<1>9. CASE PreparationFails(t)
  <2>1. /\ th.dir \in {"down", "up"}
        /\ Proc(t) \in {"inputs", "env", "secret", "outputs", "redirect", "matrix"}
        /\ (Proc(t) = "redirect" => th.dir = "down")
    BY <1>9 DEF PreparationFails, At, VarMaps
  <2> QED BY <1>5, <1>9, <2>1 DEF PreparationFails
<1> QED BY <1>1, <1>2, <1>3, <1>4, <1>6, <1>7, <1>8, <1>9

\* A processor that changes the writers calls the next.
LEMMA ForwardStreams ==
    ASSUME Shape, AllStreams, NEW t \in DOMAIN threads, threads[t].dir = "down",
           Proc(t) \notin {"recover", "end"},
           NEW c, IsContext(c), NEW v, Kept(Proc(t), v), Forward(t, c, v),
           KeptStreams(Proc(t), v, Frame(t), CallersWriters(threads[t]), CallersFiles(threads[t])),
           OnwardContext(Frame(t), c, v, CallersWriters(threads[t]), CallersFiles(threads[t]))
    PROVE StreamsNext
<1> DEFINE th == threads[t]
           old == [th EXCEPT !.ctx = c]
           f == Top(th)
           new == SetTop(old, Onward(Keep(f, v)))
<1>1. ThreadShape(prog, th) /\ ThreadStreams(th)
  BY DEF Shape, AllStreams
<1>2. /\ old.stack = th.stack /\ old.path = th.path /\ DOMAIN old = ThreadFields
      /\ old.ctx = c /\ old.dir = "down" /\ FrameShape(prog, f)
  BY <1>1 DEF ThreadShape, ThreadType, ThreadFields
<1>3. Top(old) = f
  BY <1>2 DEF Top
<1>4. threads' = [threads EXCEPT ![t] = new]
  BY <1>3 DEF Forward
<1>5. /\ f.at = Proc(t) /\ Frame(t) = f /\ SameFrame(f, Top(th))
  BY DEF Proc, Frame, SameFrame
<1>6. EnteredTags(f, th.ctx) = f.saved["recover"].tags
  BY <1>1, <1>5, FrameStreamsOf
<1>7. c.tags = f.saved["recover"].tags
  BY <1>5 DEF OnwardContext
<1>8. f = Top(th)
  OBVIOUS
<1> HIDE DEF old, f
<1>9. /\ f.at # "recover" /\ f.at # "end" /\ Kept(f.at, v) /\ IsContext(old.ctx)
      /\ KeptStreams(f.at, v, f, CallersWriters(th), CallersFiles(th))
      /\ OnwardContext(f, old.ctx, v, CallersWriters(th), CallersFiles(th))
      /\ old.ctx.tags = EnteredTags(Top(th), th.ctx)
  BY <1>2, <1>5, <1>6, <1>7, <1>8
<1>10. ThreadStreams(new)
  BY <1>1, <1>2, <1>5, <1>9, OnwardMoves
<1> HIDE DEF new
<1> QED BY <1>4, <1>10, OneStreams

\* It returns.
LEMMA ReturnStreams ==
    ASSUME Shape, AllStreams, NEW t \in DOMAIN threads, threads[t].dir # "done",
           Proc(t) # "recover", NEW c, IsContext(c), NEW e, Return(t, c, e),
           BackContext(Frame(t), c, CallersWriters(threads[t]), CallersFiles(threads[t]))
    PROVE StreamsNext
<1> DEFINE th == threads[t]
           new == Returned(th, c, e)
<1>1. ThreadShape(prog, th) /\ ThreadStreams(th)
  BY DEF Shape, AllStreams
<1>2. Top(th).at # "recover" /\ BackContext(Top(th), c, CallersWriters(th), CallersFiles(th))
  BY DEF Proc, Frame
<1>3. ThreadStreams(new)
  BY <1>1, <1>2, BackMoves
<1> HIDE DEF new
<1> QED BY <1>3, OneStreams DEF Return, new

LEMMA TermNotNil ==
    /\ Discard # Nil /\ \A s : <<"term", s>> # Nil /\ <<"term", s>> # Discard
<1>1. Discard # Nil
  BY DEF Discard, Nil
<1>2. ASSUME NEW s
      PROVE <<"term", s>> # Nil /\ <<"term", s>> # Discard
  <2>1. Len(<<"term", s>>) = 2 /\ Len(<<"nil">>) = 1 /\ Len(<<"discard">>) = 1
    OBVIOUS
  <2> QED BY <2>1 DEF Nil, Discard
<1> QED BY <1>1, <1>2

\* What the processor keeps counts among what the step has from then on.
LEMMA OwnKept ==
    ASSUME NEW f, NEW dir, FrameShape(prog, f), TopShape(prog, f, dir), dir = "down", NEW v
    PROVE /\ f.at = "output" => OwnOutput(f) = {}
          /\ f.at = "output" => OwnOutput(Keep(f, v)) = {s \in {f.step} : v = TRUE}
          /\ f.at = "redirect" => OwnFiles(Keep(f, v)) = {f.step}
          /\ f.at # "output" => OwnOutput(Keep(f, v)) = OwnOutput(f)
          /\ f.at # "redirect" => OwnFiles(Keep(f, v)) = OwnFiles(f)
<1>1. DOMAIN f = FrameFields /\ f.at \in AllProcessors
  BY ProcessorsType DEF FrameShape, FrameFields
<1>2. /\ Keep(f, v).step = f.step
      /\ DOMAIN Keep(f, v).saved = DOMAIN f.saved \cup {f.at}
      /\ Keep(f, v).saved[f.at] = v
      /\ \A p \in DOMAIN f.saved \ {f.at} : Keep(f, v).saved[p] = f.saved[p]
  BY <1>1, KeepType
<1>3. f.at \notin DOMAIN f.saved
  <2>1. \A q \in DOMAIN f.saved : Order[q] < Order[f.at]
    BY SavedOrder
  <2>2. ~(Order[f.at] < Order[f.at])
    BY <1>1, OrderNat
  <2> QED BY <2>1, <2>2
<1> QED BY <1>2, <1>3 DEF OwnOutput, OwnFiles

LEMMA OwnDropped ==
    ASSUME NEW f, FrameShape(prog, f)
    PROVE /\ f.at = "output" => OwnOutput(Drop(f)) = {}
          /\ f.at = "redirect" => OwnFiles(Drop(f)) = {}
          /\ f.at # "output" => OwnOutput(Drop(f)) = OwnOutput(f)
          /\ f.at # "redirect" => OwnFiles(Drop(f)) = OwnFiles(f)
<1>1. DOMAIN f = FrameFields
  BY DEF FrameShape, FrameFields
<1>2. /\ Drop(f).step = f.step
      /\ DOMAIN Drop(f).saved = DOMAIN f.saved \ {f.at}
      /\ \A p \in DOMAIN f.saved \ {f.at} : Drop(f).saved[p] = f.saved[p]
  BY <1>1, DropType
<1> QED BY <1>2 DEF OwnOutput, OwnFiles

\* What a thread has when a processor of its own has just been entered, or left.
LEMMA StreamsOf ==
    ASSUME Shape, AllStreams, NEW t \in DOMAIN threads, threads[t].dir # "done",
           Proc(t) # "recover", Own(t)
    PROVE LET f == Frame(t)
              W == CallersWriters(threads[t])
              R == CallersFiles(threads[t])
          IN  /\ FrameShape(prog, f) /\ TopShape(prog, f, threads[t].dir) /\ f.at = Proc(t)
              /\ SavedStreams(f, W, R)
              /\ FrameStreams(f, Ctx(t), threads[t].dir, W, R)
              /\ Streams(Ctx(t), W \cup OwnOutput(f), R \cup OwnFiles(f))
              /\ "recover" \in DOMAIN f.saved /\ Ctx(t).tags = f.saved["recover"].tags
<1> DEFINE th == threads[t]
<1>1. ThreadShape(prog, th) /\ ThreadStreams(th)
  BY DEF Shape, AllStreams
<1>2. /\ FrameShape(prog, Top(th)) /\ TopShape(prog, Top(th), th.dir)
      /\ FrameStreams(Top(th), th.ctx, th.dir, CallersWriters(th), CallersFiles(th))
      /\ SavedStreams(Top(th), CallersWriters(th), CallersFiles(th))
      /\ "recover" \in DOMAIN Top(th).saved
      /\ EnteredTags(Top(th), th.ctx) = Top(th).saved["recover"].tags
  BY <1>1, FrameStreamsOf DEF Proc
<1>3. ~(th.dir = "up" /\ Foreign(Top(th).at, Top(th).saved[Top(th).at]))
  BY DEF Own, Proc, Saved, Frame
<1> QED BY <1>2, <1>3 DEF FrameStreams, Frame, Ctx, Proc

\* Writers, conditions, the template.
LEMMA ChecksStreams ==
    ASSUME Shape, AllStreams, NEW t \in DOMAIN threads,
           \/ EnterOutput(t) \/ LeaveOutput(t) \/ LeaveOutputFails(t)
           \/ Skip(t) \/ DoNotSkip(t) \/ ConditionFails(t) \/ LeaveCheck(t)
           \/ AllowFailure(t) \/ EnterTemplate(t) \/ LeaveTemplate(t)
           \/ EnterRedirect(t) \/ RedirectFails(t) \/ LeaveRedirect(t)
    PROVE StreamsNext
<1> DEFINE f == Frame(t)
           W == CallersWriters(threads[t])
           R == CallersFiles(threads[t])
<1>0. IsContext(Ctx(t)) /\ SameStreams(Ctx(t), Ctx(t))
  BY ShapeOf DEF SameStreams
<1>1. CASE EnterOutput(t)
  <2> DEFINE own(w) == IF w = Discard THEN w ELSE <<"term", Frame(t).step>>
             c == Ctx(t)
             d == [c EXCEPT !.stdout = own(@), !.stderr = own(@)]
  <2>1. /\ At(t, "down", "output") /\ threads[t].dir = "down" /\ Proc(t) = "output" /\ Own(t)
        /\ \/ "pipeline" \in c.tags /\ Forward(t, c, FALSE)
           \/ "pipeline" \notin c.tags /\ Forward(t, d, TRUE)
    BY <1>1 DEF EnterOutput, At, Own
  <2>2. /\ IsContext(d) /\ d.stdout \in {Discard, <<"term", f.step>>} /\ d.files = c.files
        /\ d.tags = c.tags /\ d.closed = c.closed
    BY <1>0 DEF IsContext, ContextFields
  <2>3. /\ FrameShape(prog, f) /\ TopShape(prog, f, "down") /\ f.at = "output"
        /\ Streams(c, W \cup OwnOutput(f), R \cup OwnFiles(f))
        /\ "recover" \in DOMAIN f.saved /\ c.tags = f.saved["recover"].tags
    BY <2>1, StreamsOf
  <2>4. Kept("output", TRUE) /\ Kept("output", FALSE)
    BY DEF Kept
  <2> HIDE DEF d, c, f, W, R
  <2>5. CASE "pipeline" \in c.tags /\ Forward(t, c, FALSE)
    <3>1. OwnOutput(Keep(f, FALSE)) = OwnOutput(f) /\ OwnFiles(Keep(f, FALSE)) = OwnFiles(f)
      BY <2>3, OwnKept
    <3>2. Writing(c, W \cup OwnOutput(f))
      BY <2>3, <2>5 DEF Streams
    <3>3. OnwardContext(f, c, FALSE, W, R)
      BY <2>3, <3>1, <3>2 DEF OnwardContext
    <3>4. KeptStreams("output", FALSE, f, W, R)
      BY DEF KeptStreams
    <3> QED BY <1>0, <2>1, <2>4, <2>5, <3>3, <3>4, ForwardStreams DEF c, f, W, R
  <2>6. CASE "pipeline" \notin c.tags /\ Forward(t, d, TRUE)
    <3>1. /\ OwnOutput(Keep(f, TRUE)) = {f.step} /\ OwnOutput(f) = {}
          /\ OwnFiles(Keep(f, TRUE)) = OwnFiles(f)
      <4>1. {s \in {f.step} : TRUE = TRUE} = {f.step}
        OBVIOUS
      <4> QED BY <2>3, <4>1, OwnKept
    <3>2. Writing(d, W \cup {f.step})
      BY <2>2, TermNotNil DEF Writing, Terms
    <3>3. Streams(d, W \cup {f.step}, R \cup OwnFiles(f))
      BY <2>2, <2>3, <3>2 DEF Streams
    <3>4. OnwardContext(f, d, TRUE, W, R)
      BY <2>2, <2>3, <3>1, <3>2, <3>3 DEF OnwardContext
    <3>5. KeptStreams("output", TRUE, f, W, R)
      BY <2>3, <2>6 DEF KeptStreams
    <3> QED BY <2>1, <2>2, <2>4, <2>6, <3>4, <3>5, ForwardStreams DEF f, W, R
  <2> QED BY <2>1, <2>5, <2>6
<1>2. CASE LeaveOutput(t)
  <2> DEFINE v == Saved(t, "output")
             c == Ctx(t)
             d == [c EXCEPT !.stdout = Nil, !.stderr = Nil]
  <2>1. /\ threads[t].dir = "up" /\ Proc(t) = "output" /\ Own(t)
        /\ \/ v /\ Return(t, d, Err(t))
           \/ ~v /\ Return(t, c, Err(t))
    BY <1>2, AnyForeign DEF LeaveOutput, At, Own
  <2>2. /\ IsContext(d) /\ d.stdout = Nil /\ d.files = c.files /\ d.tags = c.tags
        /\ d.closed = c.closed
    BY <1>0 DEF IsContext, ContextFields
  <2>3. /\ FrameShape(prog, f) /\ f.at = "output" /\ SavedStreams(f, W, R)
        /\ Streams(c, W \cup OwnOutput(f), R \cup OwnFiles(f))
        /\ "recover" \in DOMAIN f.saved /\ c.tags = f.saved["recover"].tags
    BY <2>1, StreamsOf
  <2>4. /\ v \in BOOLEAN /\ "output" \in DOMAIN f.saved /\ v = f.saved["output"]
    BY <2>1, SavedShape DEF Kept, Saved
  <2> HIDE DEF d, c, f, W, R, v
  <2>5. OwnOutput(Drop(f)) = {} /\ OwnFiles(Drop(f)) = OwnFiles(f)
    BY <2>3, OwnDropped
  <2>6. CASE v = TRUE /\ Return(t, d, Err(t))
    <3>1. "pipeline" \notin d.tags
      BY <2>2, <2>3, <2>4, <2>6 DEF SavedStreams
    <3>2. BackContext(f, d, W, R)
      BY <2>2, <2>3, <2>5, <3>1 DEF BackContext, Streams
    <3> QED BY <2>1, <2>2, <2>6, <3>2, ReturnStreams DEF f, W, R
  <2>7. CASE v = FALSE /\ Return(t, c, Err(t))
    <3>1. OwnOutput(f) = {}
      BY <2>4, <2>7 DEF OwnOutput
    <3>2. BackContext(f, c, W, R)
      BY <2>3, <2>5, <3>1 DEF BackContext
    <3> QED BY <1>0, <2>1, <2>7, <3>2, ReturnStreams DEF c, f, W, R
  <2> QED BY <2>1, <2>4, <2>6, <2>7
<1>3. CASE Skip(t)
  <2>1. /\ threads[t].dir = "down" /\ Proc(t) \in {"blacklist", "done", "if"} /\ Own(t)
        /\ Return(t, Ctx(t), "soft")
    BY <1>3 DEF Skip, At, Own
  <2> QED BY <1>0, <2>1, ReturnSame
<1>4. CASE DoNotSkip(t)
  <2>1. /\ threads[t].dir = "down" /\ Proc(t) \in {"blacklist", "done", "if", "soft"}
        /\ Forward(t, Ctx(t), TRUE)
    BY <1>4 DEF DoNotSkip, At
  <2> QED BY <1>0, <2>1, KeptAny, AnyForeign, ForwardSame
<1>5. CASE ConditionFails(t)
  <2>1. /\ threads[t].dir = "down" /\ Proc(t) = "if" /\ Own(t)
        /\ Return(t, Ctx(t), "hard") \/ Panic(t)
    BY <1>5 DEF ConditionFails, At, Own
  <2> QED BY <1>0, <2>1, ReturnSame, PanicStreams
<1>6. CASE LeaveCheck(t)
  <2>1. /\ threads[t].dir = "up" /\ Proc(t) \in {"blacklist", "done", "if"} /\ Own(t)
        /\ Return(t, Ctx(t), Err(t))
    BY <1>6, AnyForeign DEF LeaveCheck, At, Own
  <2> QED BY <1>0, <2>1, ReturnSame
<1>7. CASE AllowFailure(t)
  <2> DEFINE e == IF Err(t) = "ok" THEN "ok" ELSE "soft"
  <2>1. Return(t, Ctx(t), e) /\ threads[t].dir = "up" /\ Proc(t) = "soft" /\ Own(t)
    BY <1>7, AnyForeign DEF AllowFailure, At, Own
  <2> HIDE DEF e
  <2> QED BY <1>0, <2>1, ReturnSame
<1>8. CASE EnterTemplate(t)
  <2> DEFINE a == IF Ctx(t).template = Nil THEN Global(Frame(t).step) ELSE Ctx(t).template
             c == [Ctx(t) EXCEPT !.template = a]
  <2>1. IsContext(c) /\ SameStreams(c, Ctx(t))
    BY <1>0, SameStreamsType DEF IsContext
  <2>2. Forward(t, c, Ctx(t).template) /\ threads[t].dir = "down" /\ Proc(t) = "template"
    BY <1>8 DEF EnterTemplate, At
  <2> HIDE DEF c
  <2> QED BY <2>1, <2>2, KeptAny, AnyForeign, ForwardSame
<1>9. CASE LeaveTemplate(t)
  <2> DEFINE c == [Ctx(t) EXCEPT !.template = Saved(t, "template")]
  <2>1. IsContext(c) /\ SameStreams(c, Ctx(t))
    BY <1>0, SameStreamsType DEF IsContext
  <2>2. Return(t, c, Err(t)) /\ threads[t].dir = "up" /\ Proc(t) = "template" /\ Own(t)
    BY <1>9, AnyForeign DEF LeaveTemplate, At, Own
  <2> HIDE DEF c
  <2> QED BY <2>1, <2>2, ReturnSame
<1>10. CASE EnterRedirect(t)
  <2> DEFINE c == Ctx(t)
             d == [c EXCEPT !.stdout = Discard,
                            !.files = @ \cup {<<x, Frame(t).step>> : x \in Options(t).redirect}]
             v == [stdout |-> c.stdout, stderr |-> c.stderr]
  <2>1. Forward(t, d, v) /\ threads[t].dir = "down" /\ Proc(t) = "redirect" /\ Own(t)
    BY <1>10 DEF EnterRedirect, At, Own
  <2>2. /\ IsContext(d) /\ d.stdout = Discard /\ d.tags = c.tags /\ v.stdout = c.stdout
        /\ d.closed = c.closed
        /\ \A x \in d.files : x \in c.files \/ x[2] = f.step
    BY <1>0 DEF IsContext, ContextFields
  <2>3. /\ FrameShape(prog, f) /\ TopShape(prog, f, "down") /\ f.at = "redirect"
        /\ Streams(c, W \cup OwnOutput(f), R \cup OwnFiles(f))
        /\ "recover" \in DOMAIN f.saved /\ c.tags = f.saved["recover"].tags
    BY <2>1, StreamsOf
  <2> HIDE DEF d, c, f, W, R, v
  <2>4. OwnOutput(Keep(f, v)) = OwnOutput(f) /\ OwnFiles(Keep(f, v)) = {f.step}
    BY <2>3, OwnKept
  <2>5. OwnFiles(f) \subseteq {f.step}
    BY DEF OwnFiles
  <2>6. Writing(d, W \cup OwnOutput(f))
    BY <2>2, TermNotNil DEF Writing, Terms
  <2>7. Streams(d, W \cup OwnOutput(f), R \cup {f.step})
    BY <2>2, <2>3, <2>5, <2>6 DEF Streams
  <2>8. OnwardContext(f, d, v, W, R)
    BY <2>2, <2>3, <2>4, <2>6, <2>7 DEF OnwardContext
  <2>9. KeptStreams("redirect", v, f, W, R) /\ Kept("redirect", v)
    BY <2>2, <2>3, KeptAny DEF KeptStreams, Streams, Writing
  <2> QED BY <2>1, <2>2, <2>8, <2>9, ForwardStreams DEF f, W, R
<1>11. CASE LeaveRedirect(t)
  <2> DEFINE c == Ctx(t)
             d == Unredirected(t)
             v == Saved(t, "redirect")
  <2>1. Return(t, d, Err(t)) /\ threads[t].dir = "up" /\ Proc(t) = "redirect" /\ Own(t)
    BY <1>11, AnyForeign DEF LeaveRedirect, At, Own
  <2>2. /\ IsContext(d) /\ d.stdout = v.stdout /\ d.tags = c.tags /\ d.closed = c.closed
        /\ d.files = {x \in c.files : x[2] # f.step}
    BY <1>0, ContextType DEF IsContext, ContextFields, Unredirected
  <2>3. /\ FrameShape(prog, f) /\ f.at = "redirect" /\ SavedStreams(f, W, R)
        /\ Streams(c, W \cup OwnOutput(f), R \cup OwnFiles(f))
        /\ "recover" \in DOMAIN f.saved /\ c.tags = f.saved["recover"].tags
    BY <2>1, StreamsOf
  <2>4. "redirect" \in DOMAIN f.saved /\ v = f.saved["redirect"]
    BY <2>1, SavedShape DEF Saved
  <2> HIDE DEF d, c, f, W, R, v
  <2>5. OwnOutput(Drop(f)) = OwnOutput(f) /\ OwnFiles(Drop(f)) = {}
    BY <2>3, OwnDropped
  <2>6. OwnFiles(f) \subseteq {f.step}
    BY DEF OwnFiles
  <2>7. "pipeline" \in d.tags => Writing(v, W \cup OwnOutput(f))
    BY <2>2, <2>3, <2>4 DEF SavedStreams
  <2>8. \A x \in d.files : x[2] \in R
    BY <2>2, <2>3, <2>6 DEF Streams
  <2>9. BackContext(f, d, W, R)
    BY <2>2, <2>3, <2>5, <2>7, <2>8 DEF BackContext, Streams, Writing
  <2> QED BY <2>1, <2>2, <2>9, ReturnStreams DEF f, W, R
<1>12. CASE LeaveOutputFails(t)
  <2> DEFINE c == Ctx(t)
  <2>1. /\ threads[t].dir = "up" /\ Proc(t) = "output" /\ Own(t)
        /\ Saved(t, "output") /\ Return(t, c, "hard")
    BY <1>12, AnyForeign DEF LeaveOutputFails, At, Own
  <2>2. /\ FrameShape(prog, f) /\ f.at = "output" /\ SavedStreams(f, W, R)
        /\ Streams(c, W \cup OwnOutput(f), R \cup OwnFiles(f))
        /\ "recover" \in DOMAIN f.saved /\ c.tags = f.saved["recover"].tags
    BY <2>1, StreamsOf
  <2>3. "output" \in DOMAIN f.saved /\ f.saved["output"] = TRUE
    BY <2>1, SavedShape DEF Kept, Saved
  <2> HIDE DEF c, f, W, R
  <2>4. OwnOutput(Drop(f)) = {} /\ OwnFiles(Drop(f)) = OwnFiles(f)
    BY <2>2, OwnDropped
  <2>5. "pipeline" \notin c.tags
    BY <2>2, <2>3 DEF SavedStreams
  <2>6. BackContext(f, c, W, R)
    BY <2>2, <2>4, <2>5 DEF BackContext, Streams
  <2> QED BY <1>0, <2>1, <2>6, ReturnStreams DEF c, f, W, R
<1>13. CASE RedirectFails(t)
  <2> DEFINE c == Ctx(t)
  <2>1. /\ threads[t].dir = "down" /\ Proc(t) = "redirect" /\ Own(t)
    BY <1>13 DEF RedirectFails, At, Own
  <2>2. PICK stream \in Options(t).redirect :
           LET first == IF stream = "stderr" THEN Options(t).redirect \cap {"stdout"} ELSE {}
           IN  Return(t, [c EXCEPT !.stdout = Discard,
                                   !.closed = @ \cup {<<x, Frame(t).step>> : x \in first}], "hard")
    BY <1>13 DEF RedirectFails
  <2> DEFINE first == IF stream = "stderr" THEN Options(t).redirect \cap {"stdout"} ELSE {}
             d == [c EXCEPT !.stdout = Discard,
                            !.closed = @ \cup {<<x, Frame(t).step>> : x \in first}]
  <2>3. Return(t, d, "hard")
    BY <2>2
  <2>4. /\ IsContext(d) /\ d.stdout = Discard /\ d.tags = c.tags /\ d.files = c.files
        /\ d.closed = c.closed \cup {<<x, f.step>> : x \in first}
    BY <1>0 DEF IsContext, ContextFields
  <2>5. /\ FrameShape(prog, f) /\ TopShape(prog, f, "down") /\ f.at = "redirect"
        /\ SavedStreams(f, W, R)
        /\ Streams(c, W \cup OwnOutput(f), R \cup OwnFiles(f))
        /\ "recover" \in DOMAIN f.saved /\ c.tags = f.saved["recover"].tags
    BY <2>1, StreamsOf
  <2>6. {<<x, f.step>> : x \in first} \subseteq Broken
    <3>1. f.step \in DOMAIN prog /\ Options(t) = prog[f.step]
      BY <2>5 DEF FrameShape, Options
    <3>2. first \subseteq {"stdout"}
      OBVIOUS
    <3>3. first # {} => {"stdout", "stderr"} \subseteq prog[f.step].redirect
      BY <3>1
    <3> QED BY <3>1, <3>2, <3>3 DEF Broken
  <2> HIDE DEF d, c, f, W, R, first
  <2>7. OwnOutput(Drop(f)) = OwnOutput(f) /\ OwnFiles(Drop(f)) = OwnFiles(f)
    <3>1. DOMAIN f = FrameFields
      BY <2>5 DEF FrameShape, FrameFields
    <3>2. /\ Drop(f).step = f.step
          /\ DOMAIN Drop(f).saved = DOMAIN f.saved \ {f.at}
          /\ \A p \in DOMAIN f.saved \ {f.at} : Drop(f).saved[p] = f.saved[p]
      BY <3>1, DropType
    <3> QED BY <2>5, <3>2, SavedStreamsDropped
  <2>8. d.stdout # Nil /\ Discard \in Terms(W \cup OwnOutput(f))
    BY <2>4, TermNotNil DEF Terms
  <2>9. BackContext(f, d, W, R)
    BY <2>4, <2>5, <2>6, <2>7, <2>8 DEF BackContext, Streams, Writing
  <2> QED BY <2>1, <2>3, <2>4, <2>9, ReturnStreams DEF f, W, R
<1> QED BY <1>1, <1>2, <1>3, <1>4, <1>5, <1>6, <1>7, <1>8, <1>9, <1>10, <1>11, <1>12, <1>13

LEMMA OwnKeptOther ==
    ASSUME NEW f, FrameShape(prog, f), f.at \notin {"output", "redirect"}, NEW v
    PROVE OwnOutput(Keep(f, v)) = OwnOutput(f) /\ OwnFiles(Keep(f, v)) = OwnFiles(f)
<1>1. DOMAIN f = FrameFields
  BY DEF FrameShape, FrameFields
<1>2. /\ Keep(f, v).step = f.step
      /\ DOMAIN Keep(f, v).saved = DOMAIN f.saved \cup {f.at}
      /\ \A p \in DOMAIN f.saved \ {f.at} : Keep(f, v).saved[p] = f.saved[p]
  BY <1>1, KeepType
<1> QED BY <1>2 DEF OwnOutput, OwnFiles

\* Another step is called.
LEMMA CallStreams ==
    ASSUME Shape, AllStreams, NEW t \in DOMAIN threads, threads[t].dir # "done",
           NEW s \in DOMAIN prog, NEW c, IsContext(c), NEW h, NEW v,
           Kept(Proc(t), v), CalledFrom(Proc(t), v), Call(t, s, c, h, v),
           KeptStreams(Proc(t), v, Frame(t), CallersWriters(threads[t]), CallersFiles(threads[t])),
           Streams(c, CallersWriters(threads[t]) \cup OwnOutput(Frame(t)),
                   CallersFiles(threads[t]) \cup OwnFiles(Frame(t))),
           Proc(t) = "and" => c.tags = Frame(t).saved["recover"].tags
    PROVE StreamsNext
<1> DEFINE th == threads[t]
           new == Called(th, s, c, h, v)
<1>1. ThreadShape(prog, th) /\ ThreadStreams(th)
  BY DEF Shape, AllStreams
<1>2. /\ Top(th).at = Proc(t) /\ Top(th) = Frame(t)
  BY DEF Proc, Frame
<1>3. ThreadStreams(new)
  BY <1>1, <1>2, CallMoves
<1> HIDE DEF new
<1> QED BY <1>3, OneStreams DEF Call, new

\* A needed step is called, on a context without writers.
LEMMA CallNeededStreams ==
    ASSUME Shape, AllStreams, NEW t \in DOMAIN threads, threads[t].dir \in {"down", "merged"},
           Proc(t) = "needs", NEW i \in Nat, i > 0, Options(t).needs[i] \in DOMAIN prog,
           CallNeeded(t, Ctx(t), i)
    PROVE StreamsNext
<1> DEFINE new == [NewContext(t, heap) EXCEPT !.template = Fresh(t, "template", heap)]
           h == Assign(NewHeap(t, heap), new.template, heap[Ctx(t).template])
           c == Ctx(t)
           v == [next |-> i + 1, ctx |-> c]
           s == Options(t).needs[i]
           f == Frame(t)
           W == CallersWriters(threads[t])
           R == CallersFiles(threads[t])
<1>1. IsContext(new) /\ new.closed = {} /\ new.files = {} /\ new.tags = {}
  BY NewContextType DEF IsContext, NewContext
<1>2. Call(t, s, new, h, v) /\ s \in DOMAIN prog
  BY DEF CallNeeded
<1>3. v.next \in Nat /\ v.next > 0 /\ v.ctx = c
  <2>1. v.next = i + 1 /\ v.ctx = Ctx(t)
    OBVIOUS
  <2>2. i + 1 \in Nat /\ i + 1 > 0
    OBVIOUS
  <2> QED BY <2>1, <2>2
<1>4. IsContext(c)
  BY ShapeOf
<1>5. Own(t)
  BY DEF Own
<1>6. /\ FrameShape(prog, f) /\ TopShape(prog, f, threads[t].dir) /\ f.at = "needs"
      /\ FrameStreams(f, c, threads[t].dir, W, R)
      /\ Streams(c, W \cup OwnOutput(f), R \cup OwnFiles(f))
      /\ "recover" \in DOMAIN f.saved /\ c.tags = f.saved["recover"].tags
  BY <1>5, StreamsOf
<1> HIDE DEF new, h, v, s, c, f, W, R
<1>7. OwnFiles(f) = {}
  <2>1. \A q \in DOMAIN f.saved : Order[q] <= Order["needs"]
    BY <1>6, SavedOrder
  <2>2. ~(Order["redirect"] <= Order["needs"])
    BY Places
  <2> QED BY <2>1, <2>2 DEF OwnFiles
<1>8. "output" \in DOMAIN f.saved => Writing(c, W \cup OwnOutput(f))
  <2>1. Order["needs"] <= 18
    BY Places
  <2> QED BY <1>6, <2>1 DEF FrameStreams
<1>9. Kept("needs", v) /\ CalledFrom("needs", v)
  BY <1>3, <1>4 DEF Kept, CalledFrom
<1>10. KeptStreams("needs", v, f, W, R)
  BY <1>3, <1>6, <1>7, <1>8 DEF KeptStreams
<1>11. Streams(new, W \cup OwnOutput(f), R \cup OwnFiles(f))
  BY <1>1 DEF Streams
<1> QED BY <1>1, <1>2, <1>9, <1>10, <1>11, CallStreams DEF f, W, R

\* Needs, and, inherit.
LEMMA CallsStreams ==
    ASSUME Shape, AllStreams, NEW t \in DOMAIN threads,
           \/ EnterNeeds(t) \/ NeededReturns(t) \/ MoreNeeds(t) \/ LeaveNeeds(t)
           \/ EnterAnd(t) \/ ReferenceReturns(t)
           \/ EnterInherit(t) \/ InheritedReturns(t) \/ LeaveInherit(t)
    PROVE StreamsNext
<1> DEFINE th == threads[t]
           f == Top(th)
           W == CallersWriters(th)
           R == CallersFiles(th)
<1>0. /\ IsContext(Ctx(t)) /\ DOMAIN th = ThreadFields /\ ThreadShape(prog, th)
      /\ ThreadStreams(th) /\ SameStreams(Ctx(t), Ctx(t)) /\ Ctx(t) = th.ctx /\ Frame(t) = f
      /\ SameFrame(f, f) /\ f.at = Proc(t)
      /\ th.dir # "done" =>
            /\ Frame(t).step \in DOMAIN prog
            /\ Options(t).and \in Seq(DOMAIN prog)
            /\ Options(t).needs \in Seq(DOMAIN prog)
            /\ Options(t).inherit \in DOMAIN prog \cup {""}
            /\ Proc(t) \in Processors(Options(t))
            /\ FrameShape(prog, f) /\ TopShape(prog, f, th.dir)
            /\ SavedStreams(f, W, R)
            /\ f.at # "recover" =>
                  "recover" \in DOMAIN f.saved
                    /\ EnteredTags(f, th.ctx) = f.saved["recover"].tags
  <2>1. ThreadStreams(th) /\ ThreadShape(prog, th)
    BY DEF AllStreams, Shape
  <2>2. th.dir # "done" =>
            /\ FrameShape(prog, f) /\ TopShape(prog, f, th.dir)
            /\ SavedStreams(f, W, R)
            /\ f.at # "recover" =>
                  "recover" \in DOMAIN f.saved
                    /\ EnteredTags(f, th.ctx) = f.saved["recover"].tags
    BY <2>1, FrameStreamsOf
  <2> QED BY <2>1, <2>2, ShapeOf, ReferencesType
          DEF Options, Frame, SameStreams, Ctx, SameFrame, Proc
<1>2. CASE EnterNeeds(t)
  <2> DEFINE i == NextNeeded(t, Ctx(t), 1)
  <2>1. At(t, "down", "needs") /\ th.dir = "down" /\ Proc(t) = "needs"
    BY <1>2 DEF EnterNeeds, At
  <2>2. i = 0 \/ (i \in Nat /\ i > 0 /\ Options(t).needs[i] \in DOMAIN prog)
    <3>1. Options(t).needs \in Seq(DOMAIN prog)
      BY <1>0, <2>1
    <3>2. 1 \in Nat \ {0}
      OBVIOUS
    <3> QED BY <3>1, <3>2, NextNeededType
  <2>3. \/ i = 0 /\ Forward(t, Ctx(t), [next |-> 0])
        \/ i # 0 /\ CallNeeded(t, Ctx(t), i)
    BY <1>2 DEF EnterNeeds
  <2> HIDE DEF i
  <2>4. Kept("needs", [next |-> 0]) /\ ~Foreign("needs", [next |-> 0])
    BY DEF Kept, Foreign
  <2> QED BY <1>0, <2>1, <2>2, <2>3, <2>4, ForwardSame, CallNeededStreams
<1>3. CASE NeededReturns(t)
  <2> DEFINE c == Saved(t, "needs").ctx
             old == [th EXCEPT !.ctx = c, !.dir = "merged"]
             new == SetTop(old, f)
  <2>1. th.dir = "up" /\ Proc(t) = "needs" /\ Saved(t, "needs").next > 0
    BY <1>3 DEF NeededReturns, At
  <2>2. IsContext(c) /\ "needs" \in DOMAIN f.saved
    BY <1>0, <2>1, SavedShape DEF Kept
  <2>3. /\ Streams(c, W \cup OwnOutput(f), R)
        /\ c.tags = f.saved["recover"].tags
        /\ "output" \in DOMAIN f.saved => Writing(c, W \cup OwnOutput(f))
    BY <1>0, <2>1, <2>2 DEF SavedStreams, Saved
  <2>4. Streams(c, W \cup OwnOutput(f), R \cup OwnFiles(f))
    BY <2>3, StreamsMonotone
  <2>5. \/ threads' = [threads EXCEPT ![t] = Returned(@, c, Err(t))]
        \/ threads' = [threads EXCEPT ![t] = SetTop([@ EXCEPT !.ctx = c, !.dir = "merged"], Top(@))]
    BY <1>3 DEF NeededReturns
  <2>6. CASE threads' = [threads EXCEPT ![t] = Returned(@, c, Err(t))]
    <3>1. Return(t, c, Err(t))
      BY <2>6 DEF Return
    <3>2. BackContext(Frame(t), c, CallersWriters(th), CallersFiles(th))
      <4> HIDE DEF c, f, W, R
      <4>1. OwnOutput(Drop(f)) = OwnOutput(f) /\ OwnFiles(Drop(f)) = OwnFiles(f)
        BY <1>0, <2>1, OwnDropped
      <4>2. BackContext(f, c, W, R)
        BY <2>3, <2>4, <4>1 DEF BackContext
      <4> QED BY <1>0, <4>2 DEF W, R
    <3> HIDE DEF c
    <3> QED BY <2>1, <2>2, <3>1, <3>2, ReturnStreams
  <2>7. CASE threads' = [threads EXCEPT ![t] = SetTop([@ EXCEPT !.ctx = c, !.dir = "merged"], Top(@))]
    <3>1. threads' = [threads EXCEPT ![t] = new]
      BY <2>7
    <3>2. /\ old.stack = th.stack /\ old.path = th.path /\ DOMAIN old = ThreadFields
          /\ old.ctx = c /\ old.dir = "merged" /\ "merged" \in Directions \ {"done"}
      BY <1>0 DEF ThreadFields, Directions
    <3>3. TopShape(prog, f, "merged") /\ FrameShape(prog, f) /\ f.at = "needs"
      BY <1>0, <2>1 DEF TopShape, Saved
    <3>4. FrameStreams(f, c, "merged", W, R) /\ EnteredTags(f, c) = EnteredTags(f, th.ctx)
      <4> HIDE DEF c, f, W, R
      <4>1. "recover" \in DOMAIN f.saved /\ SavedStreams(f, W, R)
        BY <1>0, <2>1
      <4> QED BY <2>3, <2>4, <3>3, <4>1 DEF FrameStreams, EnteredTags
    <3> HIDE DEF old, c
    <3>ctx. /\ IsContext(old.ctx) /\ old.dir \in Directions \ {"done"}
            /\ TopShape(prog, f, old.dir) /\ th.dir # "done"
      BY <2>1, <2>2, <3>2, <3>3
    <3>5. /\ Top(new) = f
          /\ Len(new.stack) = Len(th.stack)
          /\ \A i \in 1 .. Len(th.stack) - 1 : new.stack[i] = th.stack[i]
          /\ new.ctx = c /\ new.dir = "merged" /\ new.path = th.path
      <4>1. ThreadShape(prog, th)
        BY <1>0
      <4> HIDE DEF f
      <4> QED BY <3>2, <3>3, <3>ctx, <4>1, TopMoved
    <3> HIDE DEF new
    <3>6. ThreadStreams(new)
      BY <1>0, <2>1, <3>4, <3>5, StreamsMoved
    <3> QED BY <3>1, <3>6, OneStreams
  <2> QED BY <2>5, <2>6, <2>7
<1>4. CASE MoreNeeds(t)
  <2> DEFINE i == NextNeeded(t, Ctx(t), Saved(t, "needs").next)
             old == [th EXCEPT !.dir = "down"]
             v == [next |-> 0]
             new == SetTop(old, Onward(Keep(Top(old), v)))
  <2>1. th.dir = "merged" /\ Proc(t) = "needs"
    BY <1>4 DEF MoreNeeds, At
  <2>2. \/ i # 0 /\ CallNeeded(t, Ctx(t), i)
        \/ threads' = [threads EXCEPT ![t] = new]
    BY <1>4 DEF MoreNeeds
  <2>3. Saved(t, "needs").next \in Nat \ {0}
    <3>1. Saved(t, "needs").next > 0
      BY <1>0, <2>1 DEF TopShape, Saved
    <3>2. Kept("needs", Saved(t, "needs"))
      BY <2>1, SavedShape
    <3> QED BY <3>1, <3>2 DEF Kept
  <2>4. i = 0 \/ (i \in Nat /\ i > 0 /\ Options(t).needs[i] \in DOMAIN prog)
    <3> DEFINE n == Saved(t, "needs").next
    <3>1. Options(t).needs \in Seq(DOMAIN prog) /\ n \in Nat \ {0}
      BY <1>0, <2>1, <2>3
    <3> HIDE DEF n
    <3>2. NextNeeded(t, Ctx(t), n) = 0
            \/ (NextNeeded(t, Ctx(t), n) \in Nat /\ NextNeeded(t, Ctx(t), n) > 0
                 /\ Options(t).needs[NextNeeded(t, Ctx(t), n)] \in DOMAIN prog)
      BY <3>1, NextNeededType
    <3> QED BY <3>2 DEF n
  <2> HIDE DEF i
  <2>5. CASE threads' = [threads EXCEPT ![t] = new]
    <3>1. /\ old.stack = th.stack /\ old.path = th.path /\ DOMAIN old = ThreadFields
          /\ old.ctx = th.ctx /\ old.dir = "down"
      BY <1>0 DEF ThreadFields
    <3>2. IsContext(old.ctx) /\ SameStreams(old.ctx, th.ctx)
      BY <1>0, <3>1
    <3>3. Top(old) = f
      BY <3>1 DEF Top
    <3>4. Kept("needs", v) /\ ~Foreign("needs", v)
      BY DEF Kept, Foreign
    <3>5. f.at = "needs" /\ FrameShape(prog, f) /\ th.dir # "done"
      BY <1>0, <2>1
    <3>6. new = SetTop(old, Onward(Keep(f, v)))
      BY <3>3
    <3>7. f = Top(th)
      OBVIOUS
    <3> HIDE DEF old, v, new, f
    <3>8. ThreadStreams(SetTop(old, Onward(Keep(f, v))))
      BY <1>0, <2>1, <3>1, <3>2, <3>4, <3>5, <3>7, HandedOn
    <3> QED BY <2>5, <3>6, <3>8, OneStreams
  <2> QED BY <2>1, <2>2, <2>4, <2>5, CallNeededStreams
<1>5. CASE LeaveNeeds(t)
  <2>1. /\ Return(t, Ctx(t), Err(t)) /\ th.dir = "up" /\ Proc(t) = "needs"
        /\ Saved(t, "needs").next = 0
    BY <1>5 DEF LeaveNeeds, At
  <2>2. Own(t)
    BY <2>1 DEF Own, Foreign
  <2> QED BY <1>0, <2>1, <2>2, ReturnSame
<1>and. ASSUME NEW s \in DOMAIN prog, NEW v \in Nat, Proc(t) = "and", th.dir \in {"down", "up"},
               Call(t, s, Ctx(t), heap, v)
        PROVE StreamsNext
  <2>1. Own(t)
    BY <1>and, AnyForeign DEF Own
  <2>2. /\ Streams(Ctx(t), W \cup OwnOutput(Frame(t)), R \cup OwnFiles(Frame(t)))
        /\ Ctx(t).tags = Frame(t).saved["recover"].tags
    BY <1>and, <2>1, StreamsOf
  <2>3. Kept("and", v) /\ CalledFrom("and", v) /\ KeptStreams("and", v, Frame(t), W, R)
    BY DEF Kept, CalledFrom, KeptStreams
  <2> QED BY <1>0, <1>and, <2>2, <2>3, CallStreams
<1>6. CASE EnterAnd(t)
  <2>1. th.dir = "down" /\ Proc(t) = "and"
    BY <1>6 DEF EnterAnd, At
  <2>2. Options(t).and \in Seq(DOMAIN prog) /\ Options(t).and # <<>>
    BY <1>0, <2>1 DEF Processors
  <2>3. Options(t).and[1] \in DOMAIN prog
    <3> DEFINE refs == Options(t).and
    <3>1. refs \in Seq(DOMAIN prog) /\ Len(refs) \in Nat \ {0}
      BY <2>2, EmptySeq
    <3> HIDE DEF refs
    <3>2. 1 \in 1 .. Len(refs)
      BY <3>1
    <3>3. refs[1] \in DOMAIN prog
      BY <3>1, <3>2, ElementOfSeq
    <3> QED BY <3>3 DEF refs
  <2>4. Call(t, Options(t).and[1], Ctx(t), heap, 1)
    BY <1>6 DEF EnterAnd
  <2> QED BY <1>and, <2>1, <2>3, <2>4
<1>7. CASE ReferenceReturns(t)
  <2> DEFINE i == Saved(t, "and")
             refs == Options(t).and
             old == [th EXCEPT !.dir = "down"]
             new == SetTop(old, Onward(Keep(f, i + 1)))
  <2>1. th.dir = "up" /\ Proc(t) = "and" /\ Own(t)
    BY <1>7, AnyForeign DEF ReferenceReturns, At, Own
  <2>2. i \in Nat /\ refs \in Seq(DOMAIN prog)
    BY <1>0, <2>1, SavedShape DEF Kept
  <2>3. \/ Return(t, Ctx(t), Err(t))
        \/ i < Len(refs) /\ Call(t, refs[i + 1], Ctx(t), heap, i + 1)
        \/ threads' = [threads EXCEPT ![t] = new]
    BY <1>7 DEF ReferenceReturns
  <2>4. i + 1 \in Nat
    BY <2>2
  <2>5. CASE i < Len(refs) /\ Call(t, refs[i + 1], Ctx(t), heap, i + 1)
    <3> HIDE DEF i, refs
    <3>1. i + 1 \in 1 .. Len(refs)
      BY <2>2, <2>5, LenProperties
    <3>2. refs[i + 1] \in DOMAIN prog
      BY <2>2, <3>1, ElementOfSeq
    <3> QED BY <1>and, <2>1, <2>4, <2>5, <3>2
  <2>6. CASE threads' = [threads EXCEPT ![t] = new]
    <3>1. /\ old.stack = th.stack /\ old.path = th.path /\ DOMAIN old = ThreadFields
          /\ old.ctx = th.ctx /\ old.dir = "down"
      BY <1>0 DEF ThreadFields
    <3>2. /\ IsContext(old.ctx) /\ SameStreams(old.ctx, th.ctx)
          /\ f.at = "and" /\ th.dir # "done"
          /\ ~Foreign(f.at, i + 1) /\ ~Foreign(f.at, f.saved[f.at])
          /\ Order[f.at] >= 18
      <4>1. Order["and"] >= 18
        BY Places
      <4> QED BY <1>0, <2>1, <3>1, <4>1, AnyForeign
    <3>3. Kept("and", i + 1)
      BY <2>4 DEF Kept
    <3>4. f = Top(th)
      OBVIOUS
    <3> HIDE DEF old, i, f
    <3>5. ThreadStreams(new)
      BY <1>0, <3>1, <3>2, <3>3, <3>4, HandedOn
    <3> HIDE DEF new
    <3> QED BY <2>6, <3>5, OneStreams
  <2> QED BY <1>0, <2>1, <2>3, <2>5, <2>6, ReturnSame
<1>8. CASE EnterInherit(t)
  <2> DEFINE c == Ctx(t)
             d == InheritContext(t, c, heap)
             h == InheritHeap(t, c, heap)
             v == [called |-> TRUE, ctx |-> c]
             s == Options(t).inherit
  <2>1. th.dir = "down" /\ Proc(t) = "inherit" /\ Own(t)
    BY <1>8 DEF EnterInherit, At, Own
  <2>2. Call(t, s, d, h, v) \/ Return(t, c, "hard")
    BY <1>8 DEF EnterInherit
  <2>3. IsContext(d) /\ d.stdout = c.stdout /\ d.files = c.files /\ d.closed = c.closed
    <3>1. IsContext(DeepCopy(t, c, heap)) /\ SameStreams(DeepCopy(t, c, heap), c)
      BY <1>0, ContextType, SameStreamsType
    <3> QED BY <1>0, <3>1, ContextType
            DEF InheritContext, WithNamespace, IsContext, ContextFields, SameStreams
  <2>4. s \in DOMAIN prog
    BY <1>0, <2>1 DEF Processors
  <2>5. v.called = TRUE /\ v.ctx = c /\ IsContext(v.ctx)
    BY <1>0
  <2>6. /\ FrameStreams(f, c, "down", W, R)
        /\ Streams(c, W \cup OwnOutput(f), R \cup OwnFiles(f))
        /\ c.tags = f.saved["recover"].tags
    BY <1>0, <2>1, StreamsOf
  <2>7. Writing(c, W \cup OwnOutput(f))
    <3>1. "output" \in Processors(Options(t))
      BY <1>0, <2>1 DEF Processors
    <3>2. "output" \in Processors(prog[f.step])
      BY <1>0, <3>1 DEF Options
    <3>3. f.at = "inherit" /\ Order["output"] < Order["inherit"] /\ Order["inherit"] <= 18
      <4>1. Order["output"] < Order["inherit"] /\ Order["inherit"] <= 18
        BY Places
      <4> QED BY <1>0, <2>1, <4>1
    <3>4. "output" \in DOMAIN f.saved
      <4>1. FrameShape(prog, f) /\ TopShape(prog, f, "down")
        BY <1>0, <2>1
      <4> HIDE DEF f
      <4> QED BY <3>2, <3>3, <4>1, SavedOrder
    <3> QED BY <2>6, <3>3, <3>4 DEF FrameStreams
  <2> HIDE DEF d, h, v, s, c, W, R, f
  <2>8. Kept("inherit", v) /\ CalledFrom("inherit", v) /\ KeptStreams("inherit", v, f, W, R)
    BY <2>5, <2>6 DEF Kept, CalledFrom, KeptStreams
  <2>9. Streams(d, W \cup OwnOutput(f), R \cup OwnFiles(f))
    BY <2>3, <2>6, <2>7 DEF Streams, Writing
  <2> QED BY <1>0, <2>1, <2>2, <2>3, <2>4, <2>8, <2>9, CallStreams, ReturnSame DEF W, R, c
<1>9. CASE InheritedReturns(t)
  <2> DEFINE c == Saved(t, "inherit").ctx
             old == [th EXCEPT !.dir = "down", !.ctx = c]
             v == [called |-> FALSE]
             new == SetTop(old, Onward(Keep(f, v)))
  <2>1. th.dir = "up" /\ Proc(t) = "inherit" /\ Saved(t, "inherit").called
    BY <1>9 DEF InheritedReturns, At
  <2>2. IsContext(c) /\ "inherit" \in DOMAIN f.saved
    BY <1>0, <2>1, SavedShape DEF Kept
  <2>3. Return(t, c, Err(t)) \/ threads' = [threads EXCEPT ![t] = new]
    BY <1>9 DEF InheritedReturns
  <2>4. /\ Streams(c, W \cup OwnOutput(f), R \cup OwnFiles(f))
        /\ c.tags = f.saved["recover"].tags
    BY <1>0, <2>1, <2>2 DEF SavedStreams, Saved
  <2>5. CASE Return(t, c, Err(t))
    <3>1. BackContext(Frame(t), c, CallersWriters(th), CallersFiles(th))
      <4> HIDE DEF c, f, W, R
      <4>1. OwnOutput(Drop(f)) = OwnOutput(f) /\ OwnFiles(Drop(f)) = OwnFiles(f)
        BY <1>0, <2>1, OwnDropped
      <4>2. BackContext(f, c, W, R)
        BY <2>4, <4>1 DEF BackContext
      <4> QED BY <1>0, <4>2 DEF W, R
    <3> HIDE DEF c
    <3> QED BY <2>1, <2>2, <2>5, <3>1, ReturnStreams
  <2>6. CASE threads' = [threads EXCEPT ![t] = new]
    <3>1. /\ old.stack = th.stack /\ old.path = th.path /\ DOMAIN old = ThreadFields
          /\ old.ctx = c /\ old.dir = "down"
      BY <1>0 DEF ThreadFields
    <3>2. v.called = FALSE
      OBVIOUS
    <3>3. f = Top(th)
      OBVIOUS
    <3> HIDE DEF old, v, c, f, W, R
    <3>4. Kept("inherit", v) /\ KeptStreams("inherit", v, f, W, R)
      BY <3>2 DEF Kept, KeptStreams
    <3>5. OwnOutput(Keep(f, v)) = OwnOutput(f) /\ OwnFiles(Keep(f, v)) = OwnFiles(f)
      BY <1>0, <2>1, OwnKeptOther
    <3>6. OnwardContext(f, c, v, W, R)
      <4>1. ~(Order["inherit"] < 18)
        BY Places
      <4> QED BY <1>0, <2>1, <2>4, <3>5, <4>1 DEF OnwardContext
    <3>7. IsContext(old.ctx) /\ OnwardContext(f, old.ctx, v, W, R)
            /\ old.ctx.tags = EnteredTags(f, th.ctx)
      BY <1>0, <2>1, <2>2, <2>4, <3>1, <3>6
    <3>8. ThreadStreams(new)
      BY <1>0, <2>1, <3>1, <3>3, <3>4, <3>7, OnwardMoves DEF W, R
    <3> HIDE DEF new
    <3> QED BY <2>6, <3>8, OneStreams
  <2> QED BY <2>3, <2>5, <2>6
<1>10. CASE LeaveInherit(t)
  <2>1. /\ Return(t, Ctx(t), Err(t)) /\ th.dir = "up" /\ Proc(t) = "inherit"
        /\ ~Saved(t, "inherit").called
    BY <1>10 DEF LeaveInherit, At
  <2>2. Own(t)
    BY <2>1 DEF Own, Foreign
  <2> QED BY <1>0, <2>1, <2>2, ReturnSame
<1> QED BY <1>2, <1>3, <1>4, <1>5, <1>6, <1>7, <1>8, <1>9, <1>10

\* To keep a thing twice is to keep it once.
LEMMA KeepTwice ==
    ASSUME NEW f, DOMAIN f = FrameFields, NEW v
    PROVE Keep(Keep(f, v), v) = Keep(f, v)
<1> DEFINE m == Assign(f.saved, f.at, v)
           k == [f EXCEPT !.saved = m]
<1>1. Keep(f, v) = k
  BY DEF Keep
<1>2. Assign(m, f.at, v) = m
  BY DEF Assign
<1> HIDE DEF m
<1>3. k.saved = m /\ k.at = f.at /\ DOMAIN k = FrameFields
  BY DEF FrameFields
<1>4. [k EXCEPT !.saved = m] = k
  BY <1>3
<1> HIDE DEF k
<1>5. Keep(k, v) = [k EXCEPT !.saved = Assign(k.saved, k.at, v)]
  BY DEF Keep
<1>6. Assign(k.saved, k.at, v) = m
  BY <1>2, <1>3
<1> QED BY <1>1, <1>4, <1>5, <1>6

\* What the steps of a thread have is that of the steps it is in.
LEMMA StreamsInPath ==
    ASSUME Shape, NEW t \in DOMAIN threads, threads[t].dir # "done"
    PROVE LET path == {Path(t)[i] : i \in DOMAIN Path(t)}
          IN  /\ CallersWriters(threads[t]) \cup OwnOutput(Frame(t)) \subseteq path
              /\ CallersFiles(threads[t]) \cup OwnFiles(Frame(t)) \subseteq path
<1> DEFINE th == threads[t]
           path == {Path(t)[i] : i \in DOMAIN Path(t)}
           n == Len(th.stack)
<1>1. /\ \A x \in {th.path[i] : i \in DOMAIN th.path} : x \in path
      /\ \A i \in 1 .. n : th.stack[i].step \in path
  BY PathType
<1>2. n \in Nat /\ n > 0
  BY SeqType DEF Shape, ThreadShape, ThreadType
<1> HIDE DEF path, n
<1>3. n \in 1 .. n /\ \A j \in 1 .. n - 1 : j \in 1 .. n
  BY <1>2
<1>4. OwnOutput(Frame(t)) \subseteq path /\ OwnFiles(Frame(t)) \subseteq path
  <2>1. Frame(t) = th.stack[n]
    BY DEF Frame, Top, n
  <2> QED BY <1>1, <1>3, <2>1 DEF OwnOutput, OwnFiles
<1>5. /\ UNION {OwnOutput(th.stack[j]) : j \in 1 .. n - 1} \subseteq path
      /\ UNION {OwnFiles(th.stack[j]) : j \in 1 .. n - 1} \subseteq path
  BY <1>1, <1>3 DEF OwnOutput, OwnFiles
<1>6. CallersWriters(th) \subseteq path /\ CallersFiles(th) \subseteq path
  BY <1>1, <1>5 DEF CallersWriters, CallersFiles, Callers, Writers, Redirects, n
<1> QED BY <1>4, <1>6 DEF path

LEMMA ForkStreams ==
    ASSUME Shape, AllStreams, NEW t \in DOMAIN threads, threads[t].dir = "down",
           Proc(t) \in {"matrix", "concurrent"},
           NEW step, NEW context, NEW c, IsContext(c), SameStreams(c, Ctx(t)),
           \A x \in DOMAIN step :
              step[x] \in DOMAIN prog /\ IsContext(context[x]) /\ SameStreams(context[x], Ctx(t)),
           Fork(t, step, context, c)
    PROVE StreamsNext
<1> DEFINE th == threads[t]
           f == Frame(t)
           k == Keep(f, "ok")
           old == [th EXCEPT !.ctx = c, !.dir = "waiting"]
           new == SetTop(old, k)
           forked == {Append(t, x) : x \in DOMAIN step}
           W == CallersWriters(th)
           R == CallersFiles(th)
           path == {Path(t)[i] : i \in DOMAIN Path(t)}
<1>0. Own(t) /\ Proc(t) # "recover" /\ th.dir # "done"
  BY DEF Own
<1>1. /\ FrameShape(prog, f) /\ TopShape(prog, f, "down") /\ f.at \in {"matrix", "concurrent"}
      /\ SavedStreams(f, W, R)
      /\ Streams(Ctx(t), W \cup OwnOutput(f), R \cup OwnFiles(f))
      /\ "recover" \in DOMAIN f.saved /\ Ctx(t).tags = f.saved["recover"].tags
  BY <1>0, StreamsOf
<1>2. /\ W \cup OwnOutput(f) \subseteq path /\ R \cup OwnFiles(f) \subseteq path
      /\ IsSeq(Path(t))
  BY <1>0, StreamsInPath, PathType
<1>3. /\ ThreadShape(prog, th) /\ ThreadStreams(th) /\ DOMAIN th = ThreadFields /\ f = Top(th)
  BY DEF Shape, AllStreams, ThreadShape, ThreadType, Frame
<1>4. /\ old.stack = th.stack /\ old.path = th.path /\ DOMAIN old = ThreadFields
      /\ old.ctx = c /\ old.dir = "waiting" /\ old.dir \in Directions \ {"done"}
  BY <1>3 DEF ThreadFields, Directions
<1>5. ForkEffect(t, step, context, c)
  BY Forked
<1>6. threads'[t] = new
  BY <1>5 DEF ForkEffect
<1> HIDE DEF f, old, W, R, path
<1>7. /\ FrameShape(prog, k) /\ TopShape(prog, k, "waiting")
      /\ FrameStreams(k, c, "waiting", W, R) /\ EnteredTags(k, c) = f.saved["recover"].tags
  <2>1. /\ DOMAIN f = FrameFields /\ f.step \in DOMAIN prog
        /\ f.at \in Processors(prog[f.step]) /\ f.at # "end"
        /\ \A p \in DOMAIN f.saved : Kept(p, f.saved[p])
    BY <1>1 DEF FrameShape, FrameFields
  <2>2. UpTo(prog[f.step], f.at) = Before(prog[f.step], f.at) \cup {f.at}
    BY <2>1, EnteredNext
  <2>3. /\ DOMAIN k = FrameFields
        /\ k.step = f.step /\ k.at = f.at
        /\ DOMAIN k.saved = DOMAIN f.saved \cup {f.at}
        /\ k.saved[f.at] = "ok"
        /\ \A p \in DOMAIN f.saved \ {f.at} : k.saved[p] = f.saved[p]
    BY <2>1, KeepType
  <2> HIDE DEF k
  <2>4. Kept(f.at, "ok") /\ KeptStreams(f.at, "ok", f, W, R)
    BY <1>1, KeptAny DEF KeptStreams
  <2>5. \A p \in DOMAIN k.saved : Kept(p, k.saved[p])
    BY <2>1, <2>3, <2>4
  <2>6. FrameShape(prog, k)
    BY <2>1, <2>3, <2>5 DEF FrameShape, FrameFields
  <2>7. TopShape(prog, k, "waiting")
    BY <1>1, <2>2, <2>3 DEF TopShape
  <2>8. /\ SavedStreams(k, W, R)
        /\ OwnOutput(k) = OwnOutput(f) /\ OwnFiles(k) = OwnFiles(f)
        /\ k.saved["recover"] = f.saved["recover"] /\ "recover" \in DOMAIN k.saved
    BY <1>1, <2>3, <2>4, SavedStreamsKept
  <2>9. Streams(c, W \cup OwnOutput(f), R \cup OwnFiles(f)) /\ c.tags = f.saved["recover"].tags
    BY <1>1, SameStreamsOf DEF SameStreams
  <2>10. FrameStreams(k, c, "waiting", W, R) /\ EnteredTags(k, c) = f.saved["recover"].tags
    BY <2>8, <2>9 DEF FrameStreams, EnteredTags
  <2> QED BY <2>6, <2>7, <2>10 DEF k
<1> HIDE DEF k
<1>8. /\ Top(new) = k
      /\ Len(new.stack) = Len(th.stack)
      /\ \A i \in 1 .. Len(th.stack) - 1 : new.stack[i] = th.stack[i]
      /\ new.ctx = c /\ new.dir = "waiting" /\ new.path = th.path
  <2>1. IsContext(old.ctx) /\ TopShape(prog, k, old.dir)
    BY <1>4, <1>7
  <2> QED BY <1>0, <1>3, <1>4, <1>7, <2>1, TopMoved
<1> HIDE DEF new
<1>9. ThreadStreams(new)
  <2>1. EnteredTags(Top(th), th.ctx) = f.saved["recover"].tags
    BY <1>1, <1>3 DEF EnteredTags
  <2>2. /\ FrameStreams(Top(new), new.ctx, new.dir, CallersWriters(th), CallersFiles(th))
        /\ EnteredTags(Top(new), new.ctx) = EnteredTags(Top(th), th.ctx)
    BY <1>7, <1>8, <2>1 DEF W, R
  <2> QED BY <1>0, <1>3, <1>8, <2>2, StreamsMoved
<1>10. ASSUME NEW x \in DOMAIN step
       PROVE ThreadStreams(threads'[Append(t, x)])
  <2>1. Streams(Ctx(t), path, path)
    BY <1>1, <1>2, StreamsMonotone
  <2>2. Streams(context[x], path, path)
    BY <2>1, SameStreamsOf
  <2>3. ThreadStreams(NewThread(step[x], context[x], heap', Path(t)))
    <3>1. path = {Path(t)[j] : j \in DOMAIN Path(t)}
      BY DEF path
    <3> QED BY <1>2, <2>2, <3>1, NewThreadStreams
  <2> QED BY <1>5, <2>3 DEF ForkEffect
<1>11. ASSUME NEW u \in DOMAIN threads \ ({t} \cup forked)
       PROVE ThreadStreams(threads'[u])
  <2>1. threads'[u] = threads[u]
    BY <1>5 DEF ForkEffect
  <2> QED BY <2>1 DEF AllStreams
<1>12. DOMAIN threads' = DOMAIN threads \cup forked
  BY <1>5 DEF ForkEffect
<1> QED BY <1>6, <1>9, <1>10, <1>11, <1>12 DEF StreamsNext

\* A container starts, or ends.
LEMMA ContainerMoves ==
    ASSUME NEW th, ThreadShape(prog, th), ThreadStreams(th),
           th.dir \in {"down", "running"}, Top(th).at = "run", NEW d \in {"down", "running"}
    PROVE LET new == [th EXCEPT !.dir = d]
          IN  /\ ThreadShape(prog, new) /\ ThreadStreams(new) /\ DOMAIN new = ThreadFields
              /\ Top(new) = Top(th) /\ new.stack = th.stack /\ new.path = th.path
              /\ new.ctx = th.ctx /\ new.dir = d
<1> DEFINE new == [th EXCEPT !.dir = d]
<1>1. /\ DOMAIN th = ThreadFields /\ th.dir # "done"
      /\ FrameShape(prog, Top(th)) /\ TopShape(prog, Top(th), th.dir)
      /\ FrameStreams(Top(th), th.ctx, th.dir, CallersWriters(th), CallersFiles(th))
  BY FrameStreamsOf DEF ThreadShape, ThreadType
<1>2. /\ new.stack = th.stack /\ new.path = th.path /\ DOMAIN new = ThreadFields
      /\ new.ctx = th.ctx /\ new.dir = d
  BY <1>1 DEF ThreadFields
<1> HIDE DEF new
<1>3. Top(new) = Top(th) /\ TopShape(prog, Top(th), d)
  BY <1>1, <1>2 DEF TopShape, Top
<1>4. ThreadShape(prog, new)
  BY <1>1, <1>2, <1>3 DEF ThreadShape, ThreadType, Directions
<1>5. FrameStreams(Top(new), new.ctx, new.dir, CallersWriters(th), CallersFiles(th))
  BY <1>1, <1>2, <1>3 DEF FrameStreams
<1>6. EnteredTags(Top(new), new.ctx) = EnteredTags(Top(th), th.ctx)
  BY <1>2, <1>3
<1>7. ThreadStreams(new)
  BY <1>1, <1>2, <1>5, <1>6, StreamsMoved
<1> QED BY <1>2, <1>3, <1>4, <1>7 DEF new

LEMMA ContainerEndsStreams ==
    ASSUME Shape, AllStreams, NEW t \in DOMAIN threads, ContainerEnds(t)
    PROVE StreamsNext
<1> DEFINE th == threads[t]
<1>0. th.dir = "running" /\ Top(th).at = "run" /\ Ctx(t) = th.ctx
  BY DEF ContainerEnds, At, Proc, Ctx
<1>1. /\ th.dir = "running" /\ Top(th).at = "run"
      /\ ThreadShape(prog, th) /\ ThreadStreams(th) /\ IsContext(Ctx(t))
      /\ FrameShape(prog, Top(th)) /\ Ctx(t) = th.ctx /\ IsContext(th.ctx)
  <2>1. ThreadShape(prog, th) /\ ThreadStreams(th)
    BY DEF Shape, AllStreams
  <2>2. IsContext(th.ctx) /\ FrameShape(prog, Top(th))
    BY <1>0, <2>1, FrameStreamsOf DEF ThreadShape, ThreadType
  <2> QED BY <1>0, <2>1, <2>2
<1>2. PICK wrote \in {{}, Options(t).publishes} :
         LET f == [Frame(t) EXCEPT !.published = [k \in {"env", "secret"} |-> wrote]]
             new == SetTop([threads[t] EXCEPT !.dir = "down"], f)
         IN  \/ threads' = [threads EXCEPT ![t] = SetTop(new, Onward(Keep(f, TRUE)))]
             \/ threads' = [threads EXCEPT ![t] = Returned(new, Ctx(t), "hard")]
  BY DEF ContainerEnds
<1> DEFINE f == [Frame(t) EXCEPT !.published = [k \in {"env", "secret"} |-> wrote]]
           old == [th EXCEPT !.dir = "down"]
           new == SetTop(old, f)
<1>3. SameFrame(f, Top(th)) /\ DOMAIN f = FrameFields
  BY <1>1 DEF FrameShape, FrameFields, Frame, SameFrame
<1>4. \/ threads' = [threads EXCEPT ![t] = SetTop(new, Onward(Keep(f, TRUE)))]
      \/ threads' = [threads EXCEPT ![t] = Returned(new, Ctx(t), "hard")]
  BY <1>2
<1> HIDE DEF f
<1>5. f.at = "run" /\ FrameShape(prog, f)
  BY <1>1, <1>3 DEF FrameShape, FrameFields, SameFrame
<1>6. /\ ThreadShape(prog, old) /\ ThreadStreams(old) /\ Top(old) = Top(th)
      /\ old.ctx = th.ctx /\ old.dir = "down"
  BY <1>1, ContainerMoves
<1> HIDE DEF old
<1>7. /\ ThreadShape(prog, new) /\ ThreadStreams(new) /\ Top(new) = f
      /\ new.ctx = th.ctx /\ new.dir = "down"
  BY <1>3, <1>5, <1>6, TouchedMoves
<1> HIDE DEF new
<1>8. DOMAIN new = ThreadFields /\ SameStreams(new.ctx, new.ctx) /\ SameFrame(f, Top(new))
  BY <1>7 DEF ThreadShape, ThreadType, SameStreams, SameFrame
<1>9. ThreadStreams(SetTop(new, Onward(Keep(f, TRUE))))
  <2>1. Kept(f.at, TRUE) /\ ~Foreign(f.at, TRUE)
    BY <1>5, KeptAny, AnyForeign
  <2> QED BY <1>1, <1>5, <1>7, <1>8, <2>1, HandedOn
<1>10. ThreadStreams(Returned(new, Ctx(t), "hard"))
  BY <1>1, <1>5, <1>7, <1>8, HandedBack
<1> QED BY <1>4, <1>9, <1>10, OneStreams

\* Run, concurrent, matrix, the end of a chain.
LEMMA ContainerStreams ==
    ASSUME Shape, AllStreams, NEW t \in DOMAIN threads,
           \/ StartContainer(t) \/ StartFails(t) \/ ContainerEnds(t) \/ LeaveRun(t)
           \/ EnterConcurrent(t) \/ EnterMatrix(t) \/ LeaveGroup(t) \/ End(t)
    PROVE StreamsNext
<1> DEFINE th == threads[t]
<1>0. /\ IsContext(Ctx(t)) /\ DOMAIN th = ThreadFields /\ ThreadShape(prog, th)
      /\ ThreadStreams(th) /\ SameStreams(Ctx(t), Ctx(t))
      /\ th.dir # "done" =>
            /\ FrameShape(prog, Top(th)) /\ TopShape(prog, Top(th), th.dir)
            /\ Frame(t).step \in DOMAIN prog
  BY ShapeOf, SameStreamsType DEF Shape, Frame, AllStreams
<1>o. Proc(t) \notin {"needs", "inherit"} => Own(t)
  BY AnyForeign DEF Own
<1>1. CASE StartContainer(t)
  <2> DEFINE old == [th EXCEPT !.dir = "running"]
  <2>1. At(t, "down", "run") /\ th.dir = "down" /\ Top(th).at = "run"
    BY <1>1 DEF StartContainer, At, Proc
  <2>2. \/ threads' = [threads EXCEPT ![t].dir = "running"]
        \/ Panic(t)
    BY <1>1 DEF StartContainer
  <2>3. CASE threads' = [threads EXCEPT ![t].dir = "running"]
    <3>1. threads' = [threads EXCEPT ![t] = old]
      BY <2>3
    <3>2. ThreadStreams(old)
      BY <1>0, <2>1, ContainerMoves
    <3> HIDE DEF old
    <3> QED BY <3>1, <3>2, OneStreams
  <2> QED BY <2>1, <2>2, <2>3, PanicStreams DEF Proc
<1>2. CASE StartFails(t)
  BY <1>0, <1>o, <1>2, ReturnSame DEF StartFails, At
<1>3. CASE ContainerEnds(t)
  BY <1>3, ContainerEndsStreams
<1>4. CASE LeaveRun(t)
  BY <1>0, <1>o, <1>4, ReturnSame DEF LeaveRun, At
<1>5. CASE EnterConcurrent(t)
  <2> DEFINE refs == {Options(t).concurrent[i] : i \in DOMAIN Options(t).concurrent}
             c == Ctx(t)
             step == [x \in refs |-> x]
             context == [x \in refs |-> DeepCopy(Append(t, x), c, heap)]
  <2>1. At(t, "down", "concurrent") /\ th.dir = "down" /\ Proc(t) = "concurrent"
    BY <1>5 DEF EnterConcurrent, At
  <2>2. Panic(t) \/ Fork(t, step, context, c)
    BY <1>5 DEF EnterConcurrent
  <2>3. \A x \in DOMAIN step :
           step[x] \in DOMAIN prog /\ IsContext(context[x]) /\ SameStreams(context[x], Ctx(t))
    <3>1. refs \subseteq DOMAIN prog
      <4>1. Options(t).concurrent \in Seq(DOMAIN prog)
        BY <1>0, <2>1, ReferencesType DEF Options
      <4> QED BY <4>1, ElementOfSeq, LenProperties
    <3>2. \A u : IsContext(DeepCopy(u, c, heap)) /\ SameStreams(DeepCopy(u, c, heap), c)
      BY <1>0, ContextType, SameStreamsType
    <3> QED BY <3>1, <3>2
  <2> HIDE DEF step, context
  <2> QED BY <1>0, <2>1, <2>2, <2>3, PanicStreams, ForkStreams
<1>6. CASE EnterMatrix(t)
  <2> DEFINE c == Ctx(t)
             s == Frame(t).step
             d == Instance(c, s)
             params == Options(t).matrix
             step == [x \in params |-> s]
             context == [x \in params |-> WithNamespace(DeepCopy(Append(t, x), d, heap), x)]
  <2>1. At(t, "down", "matrix") /\ th.dir = "down" /\ Proc(t) = "matrix"
    BY <1>6 DEF EnterMatrix, At
  <2>2. Panic(t) \/ Forward(t, c, "instance") \/ Fork(t, step, context, d)
    BY <1>6 DEF EnterMatrix
  <2>3. IsContext(d) /\ SameStreams(d, c)
    BY <1>0, ContextType, SameStreamsType DEF Instance
  <2>4. \A x \in DOMAIN step :
           step[x] \in DOMAIN prog /\ IsContext(context[x]) /\ SameStreams(context[x], Ctx(t))
    <3>1. s \in DOMAIN prog
      BY <1>0, <2>1
    <3>2. \A u : IsContext(DeepCopy(u, d, heap)) /\ SameStreams(DeepCopy(u, d, heap), d)
      BY <2>3, ContextType, SameStreamsType
    <3>3. \A u, n : /\ IsContext(WithNamespace(DeepCopy(u, d, heap), n))
                    /\ SameStreams(WithNamespace(DeepCopy(u, d, heap), n), DeepCopy(u, d, heap))
      BY <3>2, ContextType, SameStreamsType
    <3>4. \A u, n : SameStreams(WithNamespace(DeepCopy(u, d, heap), n), c)
      BY <2>3, <3>2, <3>3 DEF SameStreams
    <3> QED BY <3>1, <3>3, <3>4
  <2> HIDE DEF step, context, d
  <2>5. Kept("matrix", "instance") /\ ~Foreign("matrix", "instance")
    BY KeptAny, AnyForeign
  <2>6. IsContext(c) /\ SameStreams(c, Ctx(t))
    BY <1>0
  <2> HIDE DEF c
  <2> QED BY <1>0, <2>1, <2>2, <2>3, <2>4, <2>5, <2>6, PanicStreams, ForkStreams, ForwardSame DEF c
<1>7. CASE LeaveGroup(t)
  BY <1>0, <1>o, <1>7, ReturnSame DEF LeaveGroup, At
<1>8. CASE End(t)
  BY <1>0, <1>o, <1>8, ReturnSame DEF End, At
<1> QED BY <1>1, <1>2, <1>3, <1>4, <1>5, <1>6, <1>7, <1>8

LEMMA ReceiveStreams ==
    ASSUME Shape, AllStreams, NEW t \in DOMAIN threads, NEW p \in {"concurrent", "matrix"},
           Receive(t, p)
    PROVE StreamsNext
<1> DEFINE th == threads[t]
<1>1. PICK u \in Children(t) :
         LET c == Ctx(t)
             child == threads[u]
             err == IF Abort(child.err) THEN "hard" ELSE Saved(t, p)
             kept == SetTop(threads[t], Keep(Frame(t), err))
             last == Children(t) = {u}
             rest == [v \in DOMAIN threads \ {u} |-> threads[v]]
         IN  threads' = [rest EXCEPT ![t] =
                   IF ~last THEN kept
                   ELSE IF p = "matrix" \/ err # "ok" THEN Returned(kept, c, err)
                   ELSE SetTop([kept EXCEPT !.dir = "down"], Onward(Top(kept)))]
  BY DEF Receive
<1> DEFINE err == IF Abort(threads[u].err) THEN "hard" ELSE Saved(t, p)
           f == Frame(t)
           k == Keep(f, err)
           kept == SetTop(th, k)
           rest == [v \in DOMAIN threads \ {u} |-> threads[v]]
           old == [kept EXCEPT !.dir = "down"]
           gone == SetTop(old, Onward(Top(kept)))
           W == CallersWriters(th)
           R == CallersFiles(th)
<1>2. /\ th.dir = "waiting" /\ Top(th).at = p /\ f = Top(th)
      /\ Proc(t) = p /\ Own(t) /\ Ctx(t) = th.ctx
  BY DEF Receive, At, Proc, Frame, Own, Ctx
<1>3. /\ ThreadShape(prog, th) /\ DOMAIN th = ThreadFields /\ ThreadStreams(th)
  BY DEF Shape, AllStreams, ThreadShape, ThreadType
<1>4. /\ IsContext(th.ctx) /\ FrameShape(prog, f) /\ TopShape(prog, f, "waiting")
      /\ f.at = p /\ SavedStreams(f, W, R)
      /\ FrameStreams(f, th.ctx, "waiting", W, R)
      /\ "recover" \in DOMAIN f.saved /\ th.ctx.tags = f.saved["recover"].tags
  BY <1>2, ShapeOf, StreamsOf DEF Ctx
<1>5. PICK new : /\ new \in {kept, Returned(kept, Ctx(t), err), gone}
                 /\ p # "matrix" \/ new \in {kept, Returned(kept, Ctx(t), err)}
                 /\ threads' = [rest EXCEPT ![t] = new]
  <2> HIDE DEF kept, rest, err, gone
  <2>1. \/ threads' = [rest EXCEPT ![t] = kept]
        \/ threads' = [rest EXCEPT ![t] = Returned(kept, Ctx(t), err)]
        \/ p # "matrix" /\ threads' = [rest EXCEPT ![t] = gone]
    BY <1>1 DEF kept, rest, err, gone
  <2> QED BY <2>1
<1> HIDE DEF err, f
<1>6. /\ FrameShape(prog, k) /\ TopShape(prog, k, "waiting") /\ k.at = p
      /\ FrameStreams(k, th.ctx, "waiting", W, R)
      /\ EnteredTags(k, th.ctx) = th.ctx.tags
      /\ k.saved[p] = err
  <2>1. DOMAIN f = FrameFields /\ \A q \in DOMAIN f.saved : Kept(q, f.saved[q])
    BY <1>4 DEF FrameShape, FrameFields
  <2>2. f.at \in DOMAIN f.saved /\ f.at = p
    BY <1>2, SavedShape DEF f
  <2>3. /\ DOMAIN k = FrameFields
        /\ k.step = f.step /\ k.at = f.at
        /\ DOMAIN k.saved = DOMAIN f.saved \cup {f.at}
        /\ k.saved[f.at] = err
        /\ \A q \in DOMAIN f.saved \ {f.at} : k.saved[q] = f.saved[q]
    BY <2>1, KeepType
  <2> HIDE DEF k
  <2>4. Kept(p, err) /\ KeptStreams(f.at, err, f, W, R)
    BY <2>2, KeptAny DEF KeptStreams
  <2>5. /\ DOMAIN k.saved = DOMAIN f.saved
        /\ \A q \in DOMAIN k.saved : Kept(q, k.saved[q])
    BY <2>1, <2>2, <2>3, <2>4
  <2>6. FrameShape(prog, k) /\ TopShape(prog, k, "waiting")
    BY <1>4, <2>2, <2>3, <2>5 DEF FrameShape, TopShape, FrameFields
  <2>7. /\ SavedStreams(k, W, R)
        /\ OwnOutput(k) = OwnOutput(f) /\ OwnFiles(k) = OwnFiles(f)
        /\ k.saved["recover"] = f.saved["recover"] /\ "recover" \in DOMAIN k.saved
    BY <1>4, <2>2, <2>3, <2>4, SavedStreamsKept
  <2>8. Streams(th.ctx, W \cup OwnOutput(f), R \cup OwnFiles(f))
    BY <1>4 DEF FrameStreams
  <2>9. FrameStreams(k, th.ctx, "waiting", W, R) /\ EnteredTags(k, th.ctx) = th.ctx.tags
    BY <1>4, <2>7, <2>8 DEF FrameStreams, EnteredTags
  <2> QED BY <2>2, <2>3, <2>6, <2>9
<1> HIDE DEF k
<1>7. /\ ThreadShape(prog, kept) /\ Top(kept) = k /\ kept.dir = "waiting"
      /\ kept.ctx = th.ctx /\ kept.path = th.path /\ DOMAIN kept = ThreadFields
      /\ Len(kept.stack) = Len(th.stack)
      /\ \A i \in 1 .. Len(th.stack) - 1 : kept.stack[i] = th.stack[i]
  <2>1. "waiting" \in Directions \ {"done"}
    BY DEF Directions
  <2>2. /\ ThreadShape(prog, kept) /\ Top(kept) = k /\ kept.dir = "waiting"
        /\ kept.ctx = th.ctx /\ kept.path = th.path
        /\ Len(kept.stack) = Len(th.stack)
        /\ \A i \in 1 .. Len(th.stack) - 1 : kept.stack[i] = th.stack[i]
    BY <1>2, <1>3, <1>4, <1>6, <2>1, TopMoved
  <2> QED BY <2>2 DEF ThreadShape, ThreadType
<1> HIDE DEF kept
<1>8. ThreadStreams(kept)
  <2>1. EnteredTags(Top(th), th.ctx) = th.ctx.tags
    BY <1>2, <1>4 DEF EnteredTags
  <2>2. /\ FrameStreams(Top(kept), kept.ctx, kept.dir, CallersWriters(th), CallersFiles(th))
        /\ EnteredTags(Top(kept), kept.ctx) = EnteredTags(Top(th), th.ctx)
    BY <1>6, <1>7, <2>1
  <2> QED BY <1>2, <1>3, <1>7, <2>2, StreamsMoved
<1>9. SameStreams(kept.ctx, kept.ctx) /\ IsContext(Ctx(t)) /\ SameStreams(Ctx(t), kept.ctx)
  BY <1>2, <1>4, <1>7 DEF SameStreams
<1>10. ThreadStreams(Returned(kept, Ctx(t), err))
  BY <1>6, <1>7, <1>8, <1>9, HandedBack
<1>11. ASSUME p # "matrix" PROVE ThreadStreams(gone)
  <2>1. /\ old.stack = kept.stack /\ old.path = kept.path /\ DOMAIN old = ThreadFields
        /\ old.ctx = kept.ctx /\ old.dir = "down"
    BY <1>7 DEF ThreadFields
  <2>2. Keep(k, err) = k
    <3>1. DOMAIN f = FrameFields
      BY <1>4 DEF FrameShape, FrameFields
    <3> QED BY <3>1, KeepTwice DEF k
  <2>3. gone = SetTop(old, Onward(Keep(k, err)))
    BY <1>7, <2>2
  <2> HIDE DEF gone, old
  <2>4. /\ Kept(k.at, err) /\ ~Foreign(k.at, err) /\ k.at = "concurrent"
        /\ SameFrame(k, Top(kept)) /\ IsContext(old.ctx) /\ SameStreams(old.ctx, kept.ctx)
    BY <1>4, <1>6, <1>7, <1>9, <1>11, <2>1, KeptAny, AnyForeign DEF SameFrame
  <2>5. Order[k.at] >= 18
    BY <2>4, Places
  <2>6. ThreadStreams(SetTop(old, Onward(Keep(k, err))))
    BY <1>6, <1>7, <1>8, <2>1, <2>4, <2>5, HandedOn
  <2> QED BY <2>3, <2>6
<1> HIDE DEF gone
<1>12. ThreadStreams(new)
  BY <1>5, <1>8, <1>10, <1>11
<1>13. \A v \in DOMAIN threads' : v \in DOMAIN threads /\ (v # t => threads'[v] = threads[v])
  BY <1>5
<1>14. t \in DOMAIN threads' => threads'[t] = new
  BY <1>5
<1> QED BY <1>12, <1>13, <1>14 DEF AllStreams, StreamsNext

LEMMA InitStreams == Init => AllStreams
<1> SUFFICES ASSUME Init PROVE AllStreams
  OBVIOUS
<1> DEFINE c == [NewContext(<<>>, EmptyMap) EXCEPT !.alive = TRUE, !.whole = TRUE]
           W == {<<>>[j] : j \in DOMAIN <<>>}
<1>1. prog \in Programs /\ threads = [t \in {<<>>} |-> NewThread("main", c, heap, <<>>)]
  BY DEF Init
<1>2. IsContext(c)
  BY NewContextType DEF IsContext
<1>3. c.closed = {} /\ c.files = {} /\ c.tags = {}
  BY DEF NewContext
<1>4. "main" \in DOMAIN prog /\ IsSeq(<<>>)
  <2>1. "main" \in DOMAIN prog
    BY <1>1, ProgramsAssumption DEF ProgramsAssumption
  <2>2. <<>> \in Seq({})
    OBVIOUS
  <2> QED BY <2>1, <2>2, SeqOfElements
<1> HIDE DEF c
<1>5. Streams(c, W, W)
  BY <1>3 DEF Streams
<1>6. ThreadStreams(NewThread("main", c, heap, <<>>))
  BY <1>2, <1>4, <1>5, NewThreadStreams
<1> QED BY <1>1, <1>6 DEF AllStreams

LEMMA StepStreams ==
    ASSUME Shape, AllStreams, NEW t \in DOMAIN threads, Step(t)
    PROVE StreamsNext
  BY FirstStreams, VariablesStreams, ChecksStreams, CallsStreams, ContainerStreams, ReceiveStreams
     DEF Step

\* What is said of a thread depends on nothing else but the pipeline.
LEMMA StreamsStable ==
    ASSUME prog' = prog
    PROVE \A th : ThreadStreams(th)' <=> ThreadStreams(th)
<1>1. \A c, W, R : Streams(c, W, R)' <=> Streams(c, W, R)
  BY DEF Streams, Broken
<1>2. \A f, W, R : SavedStreams(f, W, R)' <=> SavedStreams(f, W, R)
  BY <1>1 DEF SavedStreams
<1>3. \A f, c, dir, W, R : FrameStreams(f, c, dir, W, R)' <=> FrameStreams(f, c, dir, W, R)
  BY <1>1, <1>2 DEF FrameStreams
<1>4. \A path, stack, n : CallingStreams(path, stack, n)' <=> CallingStreams(path, stack, n)
  BY <1>2 DEF CallingStreams
<1> QED BY <1>3, <1>4 DEF ThreadStreams

LEMMA NextStreams == Shape /\ AllStreams /\ [Next]_vars => AllStreams'
<1> SUFFICES ASSUME Shape, AllStreams, [Next]_vars PROVE AllStreams'
  OBVIOUS
<1>1. CASE UNCHANGED vars
  <2>1. prog' = prog /\ threads' = threads
    BY <1>1 DEF vars
  <2> QED BY <2>1, StreamsStable DEF AllStreams
<1>2. ASSUME NEW t \in DOMAIN threads, Step(t)
      PROVE AllStreams'
  <2>1. StreamsNext /\ prog' = prog
    BY <1>2, StepStreams, ProgUnchanged
  <2> QED BY <2>1, StreamsStable DEF AllStreams, StreamsNext
<1> QED BY <1>1, <1>2 DEF Next, Finished

\* Only a container that starts is recorded.
LEMMA RanUnchanged ==
    ASSUME NEW t, Step(t)
    PROVE \/ ran' = ran
          \/ /\ At(t, "down", "run")
             /\ ran' = ran \cup {[step |-> Frame(t).step, path |-> Path(t), uname |-> Ctx(t).uname,
                                  vars |-> [k \in VarMaps |-> heap[Ctx(t)[k]]],
                                  image |-> heap[Ctx(t).template],
                                  stdout |-> Ctx(t).stdout, files |-> Ctx(t).files,
                     closed |-> Ctx(t).closed]}
<1>1. CASE StartContainer(t)
  BY <1>1 DEF StartContainer
<1>2. CASE ~StartContainer(t)
  BY <1>2 DEF Step, EnterRecover, LeaveRecover, EnterRetry, LeaveRetry, EnterResult, LeaveResult,
         EnterInputs, LeaveInputs, EnterVars, LeaveVars, LeaveVarsFails, EnterOutputs, LeaveOutputs,
         PreparationFails, EnterOutput, LeaveOutput, LeaveOutputFails, Skip, DoNotSkip, ConditionFails, LeaveCheck,
         AllowFailure, EnterTemplate, LeaveTemplate, EnterRedirect, RedirectFails, LeaveRedirect, EnterNeeds,
         NeededReturns, MoreNeeds, LeaveNeeds, EnterAnd, ReferenceReturns, EnterInherit,
         InheritedReturns, LeaveInherit, StartFails, ContainerEnds, LeaveRun,
         EnterConcurrent, EnterMatrix, LeaveGroup, Receive, End
<1> QED BY <1>1, <1>2

\* What StreamsOwn says of one container.
OwnStreams(r) ==
    LET callers == {r.path[i] : i \in DOMAIN r.path}
    IN  /\ r.stdout \in {Discard} \cup {<<"term", s>> : s \in callers}
        /\ \A f \in r.files : f[2] \in callers
        /\ \A f \in r.closed :
              f[1] = "stdout" /\ {"stdout", "stderr"} \subseteq prog[f[2]].redirect
        /\ "stdout" \in prog[r.step].redirect => r.stdout = Discard

LEMMA StartedStreams ==
    ASSUME Shape, AllStreams, NEW t \in DOMAIN threads, At(t, "down", "run"),
           NEW r, r.step = Frame(t).step, r.path = Path(t),
           r.stdout = Ctx(t).stdout, r.files = Ctx(t).files, r.closed = Ctx(t).closed
    PROVE OwnStreams(r)
<1> DEFINE f == Frame(t)
           W == CallersWriters(threads[t])
           R == CallersFiles(threads[t])
           path == {Path(t)[i] : i \in DOMAIN Path(t)}
<1>1. threads[t].dir = "down" /\ Proc(t) = "run" /\ Own(t)
  BY DEF At, Own
<1>2. /\ FrameShape(prog, f) /\ TopShape(prog, f, "down") /\ f.at = "run"
      /\ FrameStreams(f, Ctx(t), "down", W, R)
      /\ Streams(Ctx(t), W \cup OwnOutput(f), R \cup OwnFiles(f))
  BY <1>1, StreamsOf
<1>3. W \cup OwnOutput(f) \subseteq path /\ R \cup OwnFiles(f) \subseteq path
  BY <1>1, StreamsInPath
<1> HIDE DEF f, W, R, path
<1>4. Streams(Ctx(t), path, path)
  BY <1>2, <1>3, StreamsMonotone
<1>5. Writing(Ctx(t), W \cup OwnOutput(f))
  <2>1. "output" \in Processors(prog[f.step])
    BY <1>2 DEF FrameShape, Processors
  <2>2. Order["output"] < Order["run"] /\ Order["run"] <= 18
    BY Places
  <2>3. "output" \in DOMAIN f.saved
    BY <1>2, <2>1, <2>2, SavedOrder
  <2> QED BY <1>2, <2>2, <2>3 DEF FrameStreams
<1>6. ASSUME "stdout" \in prog[f.step].redirect
      PROVE Ctx(t).stdout = Discard
  <2>1. "redirect" \in Processors(prog[f.step])
    BY <1>6 DEF Processors
  <2>2. Order["redirect"] < Order["run"]
    BY Places
  <2>3. "redirect" \in DOMAIN f.saved
    BY <1>2, <2>1, <2>2, SavedOrder
  <2> QED BY <1>2, <2>3 DEF FrameStreams
<1>7. path = {r.path[i] : i \in DOMAIN r.path} /\ r.step = f.step
  BY DEF path, f
<1>8. r.stdout \in {Discard} \cup {<<"term", s>> : s \in path}
  BY <1>3, <1>5 DEF Writing, Terms
<1>9. \A x \in r.closed : x[1] = "stdout" /\ {"stdout", "stderr"} \subseteq prog[x[2]].redirect
  BY <1>4 DEF Streams, Broken
<1> QED BY <1>4, <1>6, <1>7, <1>8, <1>9 DEF OwnStreams, Streams

LEMMA NextOwn == Shape /\ AllStreams /\ StreamsOwn /\ [Next]_vars => StreamsOwn'
<1> SUFFICES ASSUME Shape, AllStreams, StreamsOwn, [Next]_vars PROVE StreamsOwn'
  OBVIOUS
<1>1. CASE UNCHANGED vars
  BY <1>1 DEF vars, StreamsOwn
<1>2. ASSUME NEW t \in DOMAIN threads, Step(t)
      PROVE StreamsOwn'
  <2>1. prog' = prog
    BY <1>2, ProgUnchanged
  <2>2. \A r \in ran : OwnStreams(r)
    BY DEF StreamsOwn, OwnStreams
  <2> DEFINE new == [step |-> Frame(t).step, path |-> Path(t), uname |-> Ctx(t).uname,
                     vars |-> [k \in VarMaps |-> heap[Ctx(t)[k]]],
                     image |-> heap[Ctx(t).template],
                     stdout |-> Ctx(t).stdout, files |-> Ctx(t).files,
                     closed |-> Ctx(t).closed]
  <2>3. \/ ran' = ran
        \/ At(t, "down", "run") /\ ran' = ran \cup {new}
    BY <1>2, RanUnchanged
  <2>4. /\ new.step = Frame(t).step /\ new.path = Path(t)
        /\ new.stdout = Ctx(t).stdout /\ new.files = Ctx(t).files /\ new.closed = Ctx(t).closed
    OBVIOUS
  <2> HIDE DEF new
  <2>5. At(t, "down", "run") => OwnStreams(new)
    BY <2>4, StartedStreams
  <2>6. \A r \in ran' : OwnStreams(r)
    BY <2>2, <2>3, <2>5
  <2> QED BY <2>1, <2>6 DEF StreamsOwn, OwnStreams
<1> QED BY <1>1, <1>2 DEF Next, Finished

-----------------------------------------------------------------------------
(* Theorems.                                                               *)

\* Every context is made of the fields of StepContext, every frame stands at a
\* processor that its step has, and has kept exactly what the processors before
\* it keep in their closures while they wait for it (pipeline.go:99, StepBuilder);
\* a goroutine that waits is in a concurrent or matrix step.
THEOREM ChainShape == Spec => []Shape
<1>1. Init => Shape
  BY InitShape
<1>2. Shape /\ [Next]_vars => Shape'
  BY NextShape
<1> QED BY <1>1, <1>2, PTL DEF Spec

\* The writers of a context are those of the steps that thread is in: each step
\* takes its own back before its caller goes on (stdio_redirect.go:93, output.go).
\* Besides there are closed files, those of redirects of both streams that could
\* not open the second (stdio_redirect.go:77-83).
THEOREM StreamsInvariant == Spec => [](Shape /\ AllStreams)
<1>1. Init => Shape /\ AllStreams
  BY InitShape, InitStreams
<1>2. Shape /\ AllStreams /\ [Next]_vars => (Shape /\ AllStreams)'
  BY NextShape, NextStreams
<1> QED BY <1>1, <1>2, PTL DEF Spec

\* A container writes to the terminal as its own step or as one that called it,
\* and to no file of a step that is over, except for the closed one of a redirect
\* that failed (stdio_redirect.go:77-83); with its own standard output redirected,
\* not to the terminal (stdio_redirect.go:93), in every pipeline.
THEOREM ChainStreamsOwn == Spec => []StreamsOwn
<1>1. Init => StreamsOwn
  BY DEF Init, StreamsOwn
<1>2. Shape /\ AllStreams /\ StreamsOwn /\ [Next]_vars => StreamsOwn'
  BY NextOwn
<1> QED BY <1>1, <1>2, StreamsInvariant, PTL DEF Spec

================================================================================
