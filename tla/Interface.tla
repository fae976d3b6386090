----------------------------- MODULE Interface -----------------------------
(* The terminal user interface (internal/tui/ui.go).  The event loop of    *)
(* bubbletea takes one message at a time: those that the output of a step  *)
(* sends (internal/output/ui.go), the end of the pipeline, keys, the       *)
(* mouse, ticks.  Send blocks until the loop takes the message, so that    *)
(* sending and handling are one action; when the loop has ended Send does  *)
(* nothing.  The size of the terminal is left out.  RunLayer sends.        *)
EXTENDS Naturals, Sequences, SequencesExt

CONSTANTS Step,      \* the unique names of the steps
          TagKey     \* the order of their tags

ASSUME TagKeyAssumption == TagKey \in [Step -> Nat]

VARIABLES loop,      \* the program: "off", "up" or "quit"
          items,     \* the items of the list
          status,    \* m.status: of the pipeline
          cursor,    \* the index of the list's selection; 0: an empty list
          last,      \* m.lastSelected: a copy of an item
          panel,     \* m.activePanel
          filter,    \* the list is filtered
          filtered   \* history: the list has been filtered

uiVars == <<loop, items, status, cursor, last, panel, filter, filtered>>

\* An item of the list, a StepMsg without its pager.
Item == [name : Step, status : {"running", "failed", "done", "skipped"}]
NoItem == [name |-> "none"]

InitInterface ==
    /\ loop = "off" /\ items = <<>> /\ status = "waiting" /\ cursor = 0
    /\ last = NoItem /\ panel = "list" /\ filter = FALSE /\ filtered = FALSE

(* The loop ends: nobody sees its model any more.                          *)
Quit ==
    /\ loop' = "quit" /\ items' = <<>> /\ status' = "waiting" /\ cursor' = 0
    /\ last' = NoItem /\ panel' = "list" /\ filter' = FALSE /\ filtered' = FALSE

Names(list) == {list[i].name : i \in DOMAIN list}
Position(list, name) == CHOOSE i \in DOMAIN list : list[i].name = name
WithStatus(item, s) == [item EXCEPT !.status = s]

(* A filtered list shows what matches, or nothing after SetItems: the      *)
(* command that would filter anew is dropped (ui.go:236, 273, 413).        *)
SelectedItems(list, at, some) ==
    IF some THEN {NoItem} \cup ToSet(list)
    ELSE IF at \in DOMAIN list THEN {list[at]} ELSE {NoItem}

(* updateLastSelected: what every message but a key ends with.             *)
UpdateLastSelected ==
    \E selected \in SelectedItems(items', cursor', filter') :
        last' = IF selected = NoItem THEN last ELSE selected

(* sortList: by tags, then by start; the step that starts last is last of  *)
(* its tags.  The selection follows lastSelected.                          *)
Inserted(item) ==
    LET before(n) == \A i \in DOMAIN items :
                         i <= n <=> TagKey[items[i].name] <= TagKey[item.name]
    IN InsertAt(items, 1 + CHOOSE n \in 0..Len(items) : before(n), item)

FindFromZero(list) ==                                       \* mutant
    IF last # NoItem /\ last.name \in Names(list) THEN Position(list, last.name) - 1 ELSE 1

FindCurrentSelection(list) ==
    IF last # NoItem /\ last.name \in Names(list) THEN Position(list, last.name) ELSE 1

\* Mutant: the end of a step is shown only in the copy of the selection.
HandleStepMessageLost(name, s) ==
    /\ IF name \notin Names(items)
       THEN /\ items' = Inserted([name |-> name, status |-> s])
            /\ cursor' = FindCurrentSelection(items')
       ELSE UNCHANGED <<items, cursor>>
    /\ status' = IF s = "running" THEN "running" ELSE status
    /\ UNCHANGED <<loop, panel, filter, filtered>>
    /\ UpdateLastSelected

(* A step starts or ends, once more for every attempt of the pipeline.  Of *)
(* a message about a step that is listed only the status is taken.         *)
HandleStepMessage(name, s) ==
    /\ IF name \notin Names(items)
       THEN /\ items' = Inserted([name |-> name, status |-> s])
            /\ cursor' = FindCurrentSelection(items')
       ELSE /\ items' = [i \in DOMAIN items |->
                            IF items[i].name = name THEN WithStatus(items[i], s) ELSE items[i]]
            /\ UNCHANGED cursor
    /\ status' = IF s = "running" THEN "running" ELSE status
    /\ UNCHANGED <<loop, panel, filter, filtered>>
    /\ UpdateLastSelected

(* The pipeline has ended: without any step the loop ends as well, else it *)
(* waits for the user.                                                     *)
NeverQuits == FALSE                                         \* mutant
QuitsUnseen == status = "waiting"

HandlePipelineDone(s) ==
    \/ QuitsUnseen /\ Quit
    \/ /\ ~QuitsUnseen
       /\ status' = s
       /\ items' = IF s # "failed" THEN items
                   ELSE [i \in DOMAIN items |->
                            IF items[i].status = "running"
                            THEN WithStatus(items[i], "failed") ELSE items[i]]
       /\ UNCHANGED <<loop, cursor, panel, filter, filtered>>
       /\ UpdateLastSelected

(* updateSelectedViewport: the item of lastSelected is replaced by that    *)
(* copy, with a pager that has taken the message.                          *)
UpdateSelectedViewport ==
    /\ last # NoItem /\ last.name \in Names(items)
    /\ items' = [items EXCEPT ![Position(items, last.name)] = last]

(* Any key but those below, in the details: the pager takes it.            *)
DetailsKey ==
    /\ loop = "up" /\ panel = "details"
    /\ UpdateSelectedViewport
    /\ UNCHANGED <<loop, status, cursor, last, panel, filter, filtered>>

(* A key moves the selection; lastSelected follows with the next message.  *)
ListKey ==
    /\ loop = "up" /\ panel = "list" /\ ~filter
    /\ cursor' \in DOMAIN items \ {cursor}
    /\ UNCHANGED <<loop, items, status, last, panel, filter, filtered>>

FilterKey ==
    /\ loop = "up" /\ panel = "list"
    /\ filter' = ~filter
    /\ filtered' = TRUE
    /\ UNCHANGED <<loop, items, status, cursor, last, panel>>

TabKey ==
    /\ loop = "up"
    /\ panel' = IF panel = "list" THEN "details" ELSE "list"
    /\ UNCHANGED <<loop, items, status, cursor, last, filter, filtered>>

(* "q" ends the loop from everywhere, a filter's input included; "ctrl+c"  *)
(* does so in the list only, whose own keys know it.                       *)
QuitKey ==
    /\ loop = "up"
    /\ Quit

(* The wheel moves the selection or, in the details, scrolls the pager.    *)
Mouse ==
    /\ loop = "up"
    /\ IF panel = "list"
       THEN cursor' \in DOMAIN items \ {cursor} /\ UNCHANGED items
       ELSE UpdateSelectedViewport /\ UNCHANGED cursor
    /\ UNCHANGED <<loop, status, panel, filter, filtered>>
    /\ UpdateLastSelected

(* A tick turns the spinners: only the selection is taken anew.            *)
Tick ==
    /\ loop = "up"
    /\ UNCHANGED <<loop, items, status, cursor, panel, filter, filtered>>
    /\ UpdateLastSelected

User == DetailsKey \/ ListKey \/ FilterKey \/ TabKey \/ QuitKey \/ Mouse \/ Tick

(* What the user sees: the spinner until a step is selected, then the list *)
(* in its colours, the pipeline's status and a pager.                      *)
View == IF last = NoItem
        THEN [screen |-> "loader", list |-> <<>>]
        ELSE [screen |-> "main", list |-> items, status |-> status, details |-> last.name]

=============================================================================
