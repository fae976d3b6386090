------------------------------- MODULE MCPipe -------------------------------
(* Pipes for TLC.                                                           *)
EXTENDS Pipe

Setting(skipped, allowed, filters, tokens, interrupts) ==
    [skipped |-> skipped, allowed |-> allowed, filters |-> filters,
     pool |-> tokens, interrupts |-> interrupts, broken |-> FALSE]

(* Arbitrary programs whose context may end at any moment, with no stage   *)
(* skipped and with the middle one; a skipped stage between one that may   *)
(* fail and one that reads all its input, on a pool with fewer tokens than *)
(* stages; a chain that cannot be built; and the pipes that can hang: a    *)
(* reader that may fail, the same behind a skipped stage, and one token.   *)
Failures ==
    {Setting({}, {}, {}, Stages, TRUE),
     Setting({2}, {}, {}, Stages, TRUE),
     Setting({2}, {1}, {Stages}, Stages - 1, FALSE),
     [Setting({}, {}, {}, Stages, TRUE) EXCEPT !.broken = TRUE],
     Setting({}, {2}, {}, Stages, FALSE),
     Setting({2}, {3}, {}, Stages, FALSE),
     Setting({}, {}, {}, 1, FALSE)}

(* Two neighbouring skipped stages among programs that behave.             *)
TwoSkipped == {Setting(2..(Stages - 1), {}, Stage, Stages, FALSE)}
=============================================================================
