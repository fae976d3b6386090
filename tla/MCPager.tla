------------------------------ MODULE MCPager -------------------------------
(* Texts and sizes for TLC: nothing, what is searched for, and a text that *)
(* fits a row of the wider pane only.  Two parts of it make a line of two  *)
(* rows, which the wider pane counts alike and the other does not.         *)
EXTENDS Pager

Texts == {[width |-> 0, hit |-> FALSE], [width |-> 1, hit |-> TRUE],
          [width |-> 3, hit |-> FALSE]}
Panes == {[width |-> 5, height |-> 2], [width |-> 6, height |-> 3]}
=============================================================================
