--------------------------- MODULE CompositeStep ---------------------------
(***************************************************************************)
(* What a step that runs other steps promises to the step that called it,  *)
(* whatever it is made of: `concurrent`, `matrix`, `pipe` and `and` are    *)
(* four implementations of this module.                                    *)
(*                                                                         *)
(* The children of one invocation begin and end independently.  The        *)
(* invocation returns once.  It may go on with the rest of its chain only  *)
(* when every child has ended and none of them with an error that aborts;  *)
(* it reports a failure only when some child did end with such an error    *)
(* and no child that has begun is still running.  The one way out early is *)
(* a child whose processor chain cannot be built.                          *)
(***************************************************************************)

CONSTANTS Invocation,  \* the invocations of composite steps
          Child        \* the steps each of them runs

(* How a child ends: "ok", with an error that AbortOnError lets pass       *)
(* ("soft"), with one that aborts ("hard"), or with the context's own      *)
(* error because it was cancelled ("canceled"), which aborts too.          *)
Verdict == {"ok", "soft", "hard", "canceled"}
Aborting == {"hard", "canceled"}

VARIABLES begun,     \* the children that were started
          ended,     \* the verdict of each child, "none" until it is known
          outcome    \* "running", "next", "failed", "broken"

compositeVars == <<begun, ended, outcome>>

CompositeInit ==
    /\ begun = [v \in Invocation |-> {}]
    /\ ended = [v \in Invocation |-> [c \in Child |-> "none"]]
    /\ outcome = [v \in Invocation |-> "running"]

Begin(v, c) ==
    /\ outcome[v] = "running"
    /\ c \notin begun[v]
    /\ begun' = [begun EXCEPT ![v] = @ \cup {c}]
    /\ UNCHANGED <<ended, outcome>>

(* A child ends; with the last one the invocation may be decided.          *)
Decide(v, r) ==
    /\ \A c \in begun[v] : ended'[v][c] # "none"
    /\ \/ /\ r = "failed"
          /\ \E c \in begun[v] : ended'[v][c] \in Aborting
       \/ /\ r = "next"
          /\ begun[v] = Child
          /\ \A c \in Child : ended'[v][c] \notin Aborting

End(v, c) ==
    /\ outcome[v] = "running"
    /\ c \in begun[v]
    /\ ended[v][c] = "none"
    /\ \E r \in Verdict : ended' = [ended EXCEPT ![v][c] = r]
    /\ \/ outcome' = outcome
       \/ \E r \in {"failed", "next"} :
              Decide(v, r) /\ outcome' = [outcome EXCEPT ![v] = r]
    /\ UNCHANGED begun

Break(v) ==
    /\ outcome[v] = "running"
    /\ begun[v] # Child
    /\ outcome' = [outcome EXCEPT ![v] = "broken"]
    /\ UNCHANGED <<begun, ended>>

CompositeNext ==
    \E v \in Invocation :
        \/ \E c \in Child : Begin(v, c) \/ End(v, c)
        \/ Break(v)

CompositeSpec == CompositeInit /\ [][CompositeNext]_compositeVars

=============================================================================
