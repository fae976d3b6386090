------------------------------- MODULE Pager --------------------------------
(* The details of one step in the terminal user interface: the pager       *)
(* (internal/tui/pager/pager.go) that the goroutine of the step fills      *)
(* through a line writer (internal/tui/step.go, xio/line_writer.go) while  *)
(* the event loop (internal/tui/ui.go) scrolls, searches and draws it.  A  *)
(* key is applied to a copy of the pager that is drawn with the next       *)
(* message; the step goes on writing to the pager it was given first.      *)
(* A text is its width in cells and whether it holds what is searched for. *)
(* Its cells are its runes: View slices the runes of a line by its width   *)
(* (pager.go:430-438) and panics at wider ones, and it needs a pane that   *)
(* is wider than the numbers of the lines (pager.go:429).                  *)
EXTENDS Integers, Sequences, SequencesExt, FiniteSetsExt

CONSTANTS Text,        \* what a step may write, without the end of a line
          Sizes,       \* [width, height]: what the terminal leaves to a pager
          NumberWidth, \* the cells of a line's number
          MaxLines     \* bound: the lines of a pager

ASSUME PagerAssumption ==
    /\ \A t \in Text : t.width \in Nat /\ t.hit \in BOOLEAN
    /\ NumberWidth \in Nat \ {0} /\ MaxLines \in Nat
    /\ \A s \in Sizes : s.width > NumberWidth + 1 /\ s.height > 1

VARIABLES pager,       \* the pager that is drawn
          next,        \* the copy that the last key made, or NoPager
          follows,     \* the step writes to the pager that is drawn
          buffer,      \* the line writer's: a part of a line, or NoText
          scrolling    \* a line has been added and AutoScroll has not acted yet

vars == <<pager, next, follows, buffer, scrolling>>

NoText == [width |-> -1, hit |-> FALSE]
Empty == [lines |-> <<>>, lineEnd |-> FALSE, y |-> 0, width |-> 0, height |-> 0,
          search |-> "unsearched", matches |-> <<>>, current |-> 0]
NoPager == [lines |-> <<>>]

Sized(p) == p.width > 0 /\ p.height > 0

(* The rows that a text takes in so many columns; of an empty one, none.   *)
Rows(width, columns) == (width + columns - 1) \div columns
RowsFrom(p, i) ==
    FoldLeft(LAMBDA sum, t : sum + Rows(t.width, p.width - NumberWidth),
             0, SubSeq(p.lines, i, Len(p.lines)))
RowsTo(p, i) == RowsFrom([p EXCEPT !.lines = SubSeq(@, 1, i)], p.y + 1)

(* maxYOffset: the lines up to the last from which on the text is higher   *)
(* than the pane.  Lines are counted from 1 here, and so this is the       *)
(* offset that skips that line.  A pager without a size has none.          *)
Overfull(p) ==
    {i \in DOMAIN p.lines : Sized(p) /\ RowsFrom(p, i) > p.height}
MaxYOffsetShort(p) == IF Overfull(p) = {} THEN 0 ELSE Max(Overfull(p)) - 1 \* mutant
MaxYOffset(p) == IF Overfull(p) = {} THEN 0 ELSE Max(Overfull(p))

Unclamped(p, n) == [p EXCEPT !.y = n]                       \* mutant
SetYOffset(p, n) ==
    [p EXCEPT !.y = IF n < 0 THEN 0 ELSE IF n > MaxYOffset(p) THEN MaxYOffset(p) ELSE n]

GotoBottom(p) == SetYOffset(p, MaxYOffset(p))
AtTop(p) == p.y <= 0
AtBottom(p) == p.y >= MaxYOffset(p)

LineDown(p, n) ==
    IF AtBottom(p) \/ n = 0 \/ p.lines = <<>> THEN p ELSE SetYOffset(p, p.y + n)
LineUp(p, n) ==
    IF AtTop(p) \/ n = 0 \/ p.lines = <<>> THEN p ELSE SetYOffset(p, p.y - n)

(* ScanAfter: all lines that hold the text; the first one that is not      *)
(* above the pane, or else the first, is gone to.  Lines are numbered from *)
(* 0, as YOffset is.                                                       *)
Hits(p) ==
    SetToSortSeq({i - 1 : i \in {j \in DOMAIN p.lines : p.lines[j].hit}}, <)
Scanned(p, matches) ==
    LET below == {i \in DOMAIN matches : matches[i] >= p.y}
        at == IF below = {} THEN 1 ELSE Min(below)
        q == [p EXCEPT !.matches = matches, !.current = 0]
    IN IF matches = <<>> THEN q ELSE SetYOffset([q EXCEPT !.current = at - 1], matches[at])
ScanAfter(p) == Scanned(p, Hits(p))
ScanNothing(p) == Scanned(p, <<>>)

Turn(p, by) ==
    IF p.matches = <<>> THEN p
    ELSE LET i == (p.current + by + Len(p.matches)) % Len(p.matches)
         IN SetYOffset([p EXCEPT !.current = i], p.matches[i + 1])
TurnLate(p) ==                                              \* mutant
    IF p.matches = <<>> THEN p
    ELSE SetYOffset([p EXCEPT !.current = (@ + 1) % Len(p.matches)],
                    p.matches[p.current + 1])
NextMatch(p) == Turn(p, 1)
PrevMatch(p) == Turn(p, -1)

(* Update: what may become of a pager by one key or one turn of the wheel. *)
Update(p) ==
    {LineDown(p, n) : n \in {p.height, p.height \div 2, 1}}
        \cup {LineUp(p, n) : n \in {p.height, p.height \div 2, 1}}
        \cup {LineDown(p, 3), LineUp(p, 3)}
        \cup {[p EXCEPT !.search = "searching"]}
        \cup (IF p.search = "searched" THEN {NextMatch(p), PrevMatch(p)} ELSE {})
        \cup (IF p.search = "searching"
              THEN {ScanAfter([p EXCEPT !.search = "searched"]),
                    ScanNothing([p EXCEPT !.search = "searched"])}
              ELSE {})
        \cup {ScanNothing([p EXCEPT !.search = "unsearched"])}

(* Write: a line that did not end is taken back and goes on.               *)
Joint(a, b) == [width |-> a.width + b.width, hit |-> a.hit \/ b.hit]
Write(p, text, ends) ==
    IF p.lines # <<>> /\ ~p.lineEnd
    THEN [p EXCEPT !.lines = Append(Front(@), Joint(Last(@), text)), !.lineEnd = ends]
    ELSE [p EXCEPT !.lines = Append(@, text), !.lineEnd = ends]

(* visibleLines: from the offset on, until the rows fill the pane.         *)
VisibleLines(p) ==
    {i \in (p.y + 1) .. Len(p.lines) : i = p.y + 1 \/ RowsTo(p, i - 1) < p.height}

(* View: a visible line has a row for every so many of its cells, and one  *)
(* more if nothing is left over; the input of a search takes the last row. *)
Drawn(p) ==
    LET columns == p.width - NumberWidth - 1
        RowsOf(i) == [k \in 1 .. (p.lines[i].width \div columns) + 1 |-> i]
        rows == FlattenSeq([n \in 1 .. Cardinality(VisibleLines(p)) |-> RowsOf(p.y + n)])
        height == p.height - (IF p.search = "unsearched" THEN 0 ELSE 1)
    IN ToSet(SubSeq(rows, 1, IF Len(rows) < height THEN Len(rows) ELSE height))

-----------------------------------------------------------------------------
Init ==
    /\ pager = Empty /\ next = NoPager
    /\ follows = TRUE /\ buffer = NoText /\ scrolling = FALSE

(* The line writer hands over whole lines: Write gets one at a time.  What *)
(* goes to a pager that is no longer drawn is left out.                    *)
Writing == follows /\ ~scrolling
HandOver(text) ==
    /\ Len(pager.lines) < MaxLines
    /\ pager' = Write(pager, text, TRUE)
    /\ scrolling' = TRUE
    /\ buffer' = NoText
    /\ UNCHANGED <<next, follows>>

WritePart(text) ==
    /\ Writing /\ buffer = NoText
    /\ buffer' = text
    /\ UNCHANGED <<pager, next, follows, scrolling>>
WriteLine(text) ==
    /\ Writing
    /\ HandOver(IF buffer = NoText THEN text ELSE Joint(buffer, text))
Flush ==
    /\ Writing /\ buffer # NoText
    /\ HandOver(buffer)

(* AutoScroll, the second half of Write, which nothing keeps the loop from *)
(* coming in between of.                                                   *)
Scroll ==
    /\ scrolling
    /\ pager' = GotoBottom(pager)
    /\ scrolling' = FALSE
    /\ UNCHANGED <<next, follows, buffer>>

(* updateLastSelected, and each View after it, give the pager that is drawn *)
(* the size that the terminal has; what is drawn does not scroll with it.  *)
UpdateViewportDimensions ==
    /\ \E s \in Sizes : pager' = [pager EXCEPT !.width = s.width, !.height = s.height]
    /\ UNCHANGED <<next, follows, buffer, scrolling>>

(* updateSelectedViewport: a key is applied to the pager that is drawn,    *)
(* into a copy.  A key that follows at once starts from the same pager.    *)
Key ==
    /\ Sized(pager)
    /\ next' \in Update(pager)
    /\ UNCHANGED <<pager, follows, buffer, scrolling>>

(* The next message of another kind makes the copy the selection.          *)
Redraw ==
    /\ next # NoPager
    /\ pager' = next /\ next' = NoPager
    /\ follows' = FALSE /\ scrolling' = FALSE /\ buffer' = NoText

Next ==
    \/ \E text \in Text : WritePart(text) \/ WriteLine(text)
    \/ Flush \/ Scroll \/ UpdateViewportDimensions \/ Key \/ Redraw

Spec == Init /\ [][Next]_vars

-----------------------------------------------------------------------------
Pagers == {pager} \cup ({next} \ {NoPager})

TypeOK ==
    /\ \A p \in Pagers :
        /\ p.lines \in Seq([width : Nat, hit : BOOLEAN]) /\ Len(p.lines) <= MaxLines
        /\ p.y \in 0 .. Len(p.lines)
        /\ p.search \in {"unsearched", "searching", "searched"}
        /\ p.matches = <<>> \/ p.current + 1 \in DOMAIN p.matches
    /\ follows \in BOOLEAN /\ scrolling \in BOOLEAN
    /\ buffer \in Text \cup {NoText}

(* maxYOffset and View count the rows of a line differently: View has one  *)
(* column less, and a row for what is left over even if that is nothing.   *)
RowsDrawn(p, i) == (p.lines[i].width \div (p.width - NumberWidth - 1)) + 1
Agree(p) ==
    \A i \in (p.y + 1) .. Len(p.lines) :
        RowsDrawn(p, i) = Rows(p.lines[i].width, p.width - NumberWidth)

AutoScrolled == scrolling /\ ~scrolling' /\ follows' /\ Sized(pager')
LastDrawn(p) == Len(p.lines) \in Drawn(p)

(* What a step writes is seen: when the pager has scrolled by itself its   *)
(* last line is among the rows drawn (pager.go:158, 167-185, 403-476),     *)
(* whatever sizes the terminal had meanwhile, as far as the two ways of    *)
(* counting rows agree on the lines below the offset.  A last line that is *)
(* higher than the pane is excepted, above which nothing is left.          *)
TailShown ==
    [][AutoScrolled /\ Agree(pager')
          /\ Rows(Last(pager'.lines).width, pager'.width - NumberWidth) <= pager'.height
          => LastDrawn(pager')]_vars

(* A search, "n" and "N" go to a line that holds the text, as lines are    *)
(* not taken back, and that line is drawn: on the first row, or, where the *)
(* text ends before the pane does, further down.  There the rows must be   *)
(* counted alike, and the input of the search may lie on the very last     *)
(* line (pager.go:310-344, 382-400, 467).                                  *)
MatchShown ==
    [][\A p \in {next'} \ {NoPager} :
          (next' # next /\ p.matches # <<>>
             /\ (p.matches # pager.matches \/ p.current # pager.current))
          => LET line == p.matches[p.current + 1] + 1
             IN /\ p.lines[line].hit
                /\ (line <= MaxYOffset(p) + 1 \/ (Agree(p) /\ line # Len(p.lines)))
                       => line \in Drawn(p)]_vars

=============================================================================
