------------------------------- MODULE Selecting -------------------------------
(***************************************************************************)
(* The shape of a selection (selection.c) and the text that is copied from *)
(* it (extract.c): by characters, words, quotes, lines and blocks, begun,  *)
(* dragged to and fro, scrolled by its timer and extended by a click.      *)
(*                                                                         *)
(* The rows are numbered from the scrollback's first; how the numbers wrap *)
(* is in Scrollback.  Combining characters and tabs are not modelled.      *)
(***************************************************************************)
EXTENDS Integers, Sequences, FiniteSets, TLC

CONSTANTS
    Texts,    \* what the grid may hold: sequences of rows [cells, hard], all of one width
    Rows,     \* of the screen
    Admitted  \* see below

\* What is known to give a selection other bounds than its kind's, unless left out: a word goes on after a
\* wide character in the last column, whatever follows; the end of a quote is looked
\* for in the column before its first; and a selection that is extended by characters keeps
\* the pivot of another kind until it changes its direction;
\* the direction is not looked at when the pointer comes to the selection's very start; and
\* the pivot of a block that begins in the first or last column is on another row; and an extension
\* goes to the very cell, in the middle of a word or a line: another one keeps that end.
Defects == {"wide at the end", "quote at the start", "other kind", "onto the start",
            "block at the edge", "extended twice"}

VARIABLES
    text,   \* one of Texts
    view,   \* the first row shown
    sel,    \* term.selection
    marked  \* the cells that are drawn as selected

selectingVars == <<text, view, sel, marked>>

Width == Len(text[1].cells)
Height == Len(text)
Linear(p) == p[1] * Width + p[2]
Cells == (0..Height - 1) \X (0..Width - 1)
InView == (view..view + Rows - 1) \X (0..Width - 1)
Nowhere == <<-1, -1>>
Before(p, q) == Linear(p) < Linear(q)
At(p) == text[p[1] + 1].cells[p[2] + 1]
Hard(row) == text[row + 1].hard
Left(p) == <<p[1], p[2] - 1>>
Right(p) == <<p[1], p[2] + 1>>

\* A character is a letter, a delimiter, a quote, blank, or wide: then a spacer follows it.
Blank == "_"
Spacer == "s"
Quotes == {"'", "\""}
IsSpacer(p) == p \in Cells /\ At(p) = Spacer

\* Of word, delimiter and space, which separate words: isword()
Class(p, spacesOnly) ==
    IF At(p) = Blank THEN "space"
    ELSE IF At(p) \in Quotes \cup {"."} /\ ~spacesOnly THEN "delimiter" ELSE "word"

\* The cell that holds the character of which p is a part.
RECURSIVE Lead(_)
Lead(p) == IF IsSpacer(p) /\ p[2] > 0 THEN Lead(Left(p)) ELSE p

\* selection_find_word_boundary_left()
RECURSIVE WordLeft(_, _)
WordLeft(at, spacesOnly) ==
    LET p == Lead(at)
        wraps == p[2] = 0
        next == IF wraps THEN <<p[1] - 1, Width - 1>> ELSE Left(p)
    IN IF \/ wraps /\ (p[1] = 0 \/ Hard(p[1] - 1))
          \/ Class(Lead(next), spacesOnly) # Class(p, spacesOnly)
       THEN p
       ELSE WordLeft(next, spacesOnly)

\* selection_find_word_boundary_right(): past a wide character in the last column, it looks at the
\* first cell of the same row.
RECURSIVE WordRight(_, _)
WordRight(at, spacesOnly) ==
    LET p == Lead(at)
        wraps == p[2] = Width - 1
        next == IF wraps THEN <<p[1] + 1, 0>> ELSE Right(p)
        skipped == CHOOSE q \in Cells : ~Before(q, next) /\ ~IsSpacer(q)
                                        /\ \A r \in Cells : ~Before(r, next) /\ Before(r, q) => IsSpacer(r)
        past == IsSpacer(next) /\ \A c \in next[2]..Width - 1 : IsSpacer(<<next[1], c>>)
        looked == IF past THEN <<next[1], 0>> ELSE skipped
    IN IF \/ wraps /\ (Hard(p[1]) \/ p[1] = Height - 1)
          \/ past /\ next[1] + 1 >= Rows
          \/ Class(looked, spacesOnly) # Class(p, spacesOnly)
       THEN p
       ELSE WordRight(IF past THEN <<next[1] + 1, 0>> ELSE skipped, spacesOnly)

\* The rows that line p[1] is wrapped into, as far as they are in view, whose
\* first row is top.
Wrapped(from, to) == \A r \in from..to - 1 : ~Hard(r)

\* selection_find_line_boundary_left() and _right()
LineLeft(p, top) ==
    LET first == IF p[1] < top THEN p[1] ELSE top
    IN <<CHOOSE r \in first..p[1] : Wrapped(r, p[1]) /\ (r > first => Hard(r - 1)), 0>>
LineRight(p, top) ==
    LET last == IF p[1] >= top + Rows THEN p[1] ELSE top + Rows - 1
    IN <<CHOOSE r \in p[1]..last : Wrapped(p[1], r) /\ (r < last => Hard(r)), Width - 1>>

\* selection_find_quote_left(): the nearest of these quotes before p in its line, if p is none.
QuoteLeft(p, quotes) ==
    {q \in InView : /\ Before(q, p) /\ Wrapped(q[1], p[1])
                    /\ At(p) \notin quotes /\ At(q) \in quotes
                    /\ \A r \in InView : Before(q, r) /\ Before(r, p) => At(r) \notin quotes}
\* selection_find_quote_right()
QuoteRight(p, quote) ==
    {q \in InView : /\ Before(p, q) /\ Wrapped(p[1], q[1])
                    /\ At(p) # quote /\ At(q) = quote
                    /\ \A r \in InView : Before(p, r) /\ Before(r, q) => At(r) # quote}

\* The quotation around p, for both kinds of quotes, as ranges: the other quote is looked for from where
\* the first one ended.
AfterQuote(q) == IF q[2] = Width - 1 THEN <<q[1] + 1, 0>> ELSE Right(q)
Quotations(p) ==
    LET Range(from, quote) == {<<AfterQuote(l), Left(r)>> : l \in QuoteLeft(from, {quote}),
                                                          r \in QuoteRight(p, quote)}
    IN UNION {LET quote == At(l)
                  other == CHOOSE u \in Quotes : u # quote
                  plain == Range(p, quote)
              IN IF plain # {} THEN plain ELSE Range(AfterQuote(l), other)
              : l \in QuoteLeft(p, Quotes)}

\* foreach_selected() and pixman_region_for_coords(): the cells between two ends.
Region(kind, a, b) ==
    IF kind = "block"
    THEN {p \in Cells : \A i \in {1, 2} : \/ a[i] <= p[i] /\ p[i] <= b[i]
                                          \/ b[i] <= p[i] /\ p[i] <= a[i]}
    ELSE {p \in Cells : \/ ~Before(p, a) /\ ~Before(b, p)
                        \/ ~Before(p, b) /\ ~Before(a, p)}

Selected(s) == IF s.end = Nowhere THEN {} ELSE Region(s.kind, s.start, s.end)

NoSelection == [kind |-> "none", start |-> Nowhere, end |-> Nowhere, spacesOnly |-> FALSE,
                pivotStart |-> Nowhere, pivotEnd |-> Nowhere, direction |-> "none", ongoing |-> FALSE]

\* set_pivot_point_for_block_and_char_wise(): the pivot is the gap before the character at p, or
\* after it; at a corner of the view there is none.
SetPivot(s, p, direction, top) ==
    LET lead == Lead(p)
        after == CHOOSE q \in Cells \cup {<<lead[1], Width>>} :
                     q[1] = lead[1] /\ q[2] > lead[2] /\ ~IsSpacer(q)
                     /\ \A c \in lead[2] + 1..q[2] - 1 : IsSpacer(<<q[1], c>>)
        back == IF lead[2] > 0 THEN Left(lead)
                ELSE IF lead[1] <= top THEN lead ELSE <<lead[1] - 1, Width - 1>>
        on == IF after[2] < Width THEN after
              ELSE IF lead[1] - top >= Rows - 1 THEN Left(after) ELSE <<lead[1] + 1, 0>>
    IN [s EXCEPT !.pivotStart = IF direction = "right" THEN lead ELSE on,
                 !.pivotEnd = IF direction = "right" THEN back ELSE lead]

\* The direction of a selection, and the end of its pivot from which it grows.
Turned(s, to, top) ==
    LET right == IF s.kind = "block" THEN to[2] > s.pivotStart[2] ELSE ~Before(to, s.pivotStart)
        direction == IF right THEN "right" ELSE "left"
        pivoted == IF s.direction = "none" /\ (s.kind = "block" \/ s.pivotEnd = Nowhere)
                   THEN SetPivot(s, s.pivotStart, direction, top) ELSE s
    IN IF to = s.start \/ (s.kind # "block" /\ s.direction = direction) THEN s
       ELSE [pivoted EXCEPT !.direction = direction,
                            !.start = IF right THEN pivoted.pivotStart ELSE pivoted.pivotEnd]

\* An end grows to the boundary of its word or line.
Unit(s, to, top) ==
    CASE s.kind = "word" /\ s.direction = "left" -> WordLeft(to, s.spacesOnly)
      [] s.kind = "word" /\ s.direction = "right" -> WordRight(to, s.spacesOnly)
      [] s.kind = "line" /\ s.direction = "left" -> LineLeft(to, top)
      [] s.kind = "line" /\ s.direction = "right" -> LineRight(to, top)
      [] OTHER -> to

\* Both ends are moved off the middle of a character.
RECURSIVE Trail(_)
Trail(p) == IF p[2] < Width - 1 /\ IsSpacer(Right(p)) THEN Trail(Right(p)) ELSE p

\* Mutant of Widened: the first end is not looked at.
WidenedAtTheEnd(s, a, b) == [s EXCEPT !.start = a, !.end = IF Before(b, a) THEN Lead(b) ELSE Trail(b)]
Widened(s, a, b) ==
    [s EXCEPT !.start = IF Before(b, a) THEN Trail(a) ELSE Lead(a),
              !.end = IF Before(b, a) THEN Lead(b) ELSE Trail(b)]

\* selection_update()
Updated(s, to, top) ==
    IF s.start = Nowhere \/ ~s.ongoing THEN s
    ELSE LET turned == Turned(s, to, top)
         IN Widened(turned, turned.start, Unit(turned, to, top))

\* selection_start()
Started(p, kind) ==
    LET new == [NoSelection EXCEPT !.kind = kind, !.ongoing = TRUE, !.start = p, !.pivotStart = p]
        Around(a, b, k) == Updated([new EXCEPT !.kind = k, !.start = a, !.pivotStart = a, !.pivotEnd = b], b, view)
    IN CASE kind \in {"char", "block"} -> new
         [] kind \in {"word", "word ws"} ->
              LET ws == kind = "word ws"
                  a == WordLeft(p, ws)
                  b == WordRight(p, ws)
              IN Updated([new EXCEPT !.kind = "word", !.spacesOnly = ws, !.start = a,
                                     !.pivotStart = a, !.pivotEnd = b], b, view)
         [] kind = "line" \/ (kind = "quote" /\ Quotations(p) = {}) ->
              Around(LineLeft(p, view), LineRight(p, view), "line")
         [] OTHER -> LET range == CHOOSE q \in Quotations(p) : TRUE
                     IN Around(range[1], range[2], "word")

\* selection_extend_normal(): the nearer end is moved, or the one on that side.
ExtendedNormal(s, p, kind) ==
    LET swapped == Before(s.end, s.start)
        first == IF swapped THEN s.end ELSE s.start
        last == IF swapped THEN s.start ELSE s.end
        Distance(q) == IF Before(p, q) THEN Linear(q) - Linear(p) ELSE Linear(p) - Linear(q)
        left == Before(p, first) \/ (~Before(last, p) /\ Distance(first) < Distance(last))
        from == IF left THEN last ELSE first
        direction == IF left THEN "left" ELSE "right"
        pivoted ==
            CASE s.kind = "char" -> SetPivot(s, from, direction, view)
              [] s.kind = "word" -> [s EXCEPT !.pivotStart = WordLeft(from, s.spacesOnly),
                                              !.pivotEnd = WordRight(from, s.spacesOnly)]
              [] s.kind = "line" -> [s EXCEPT !.pivotStart = LineLeft(from, view), !.pivotEnd = LineRight(from, view)]
    IN [pivoted EXCEPT !.kind = kind, !.direction = direction, !.start = from, !.end = p]

\* selection_extend_block(): the nearest corner is moved.
ExtendedBlock(s, p) ==
    LET Least(i) == IF s.start[i] < s.end[i] THEN s.start[i] ELSE s.end[i]
        Greatest(i) == IF s.start[i] < s.end[i] THEN s.end[i] ELSE s.start[i]
        Near(i) == LET d == p[i] - Least(i)
                       e == p[i] - Greatest(i)
                   IN (IF d < 0 THEN -d ELSE d) < (IF e < 0 THEN -e ELSE e)
        top == p[1] <= Least(1) \/ Near(1)
        from == <<IF top THEN Greatest(1) ELSE Least(1), IF Near(2) THEN Greatest(2) ELSE Least(2)>>
        direction == IF p[2] > from[2] THEN "right" ELSE "left"
    IN [SetPivot(s, from, direction, view) EXCEPT !.direction = direction, !.start = from, !.end = p]

\* selection_modify() marks what is newly selected, and no longer what was.
Becomes(s) ==
    /\ sel' = s
    /\ marked' = (marked \ (Selected(sel) \ Selected(s))) \cup (Selected(s) \ Selected(sel))
    /\ UNCHANGED text

Kinds == {"char", "block", "word", "word ws", "line", "quote"}

SelectionStart(p, kind) ==
    /\ p \in InView
    /\ "quote at the start" \in Admitted \/ \A q \in Quotations(p) : q[2][2] >= 0
    /\ "block at the edge" \in Admitted \/ kind # "block"
       \/ (Lead(p)[2] > 0 /\ Trail(p)[2] < Width - 1)
    /\ LET s == Started(p, kind) IN sel' = s /\ marked' = Selected(s)
    /\ UNCHANGED <<text, view>>

MayDrag(s, p) == "onto the start" \in Admitted \/ s.kind = "char" \/ p # s.start

SelectionUpdate(p) ==
    /\ p \in InView /\ sel.ongoing /\ MayDrag(sel, p)
    /\ Becomes(Updated(sel, p, view)) /\ UNCHANGED view

\* Both ends are those of whole words or lines.
Snapped(s) ==
    LET first == IF Before(s.end, s.start) THEN s.end ELSE s.start
        last == IF Before(s.end, s.start) THEN s.start ELSE s.end
    IN CASE s.kind = "word" -> WordLeft(first, s.spacesOnly) = first /\ Trail(WordRight(last, s.spacesOnly)) = last
         [] s.kind = "line" -> first = LineLeft(first, view) /\ last = LineRight(last, view)
         [] OTHER -> TRUE

\* selection_extend(), with the kind of the selection or by characters
SelectionExtend(p, kind) ==
    /\ p \in InView /\ sel.end # Nowhere
    /\ kind = sel.kind \/ (kind = "char" /\ sel.kind # "block" /\ "other kind" \in Admitted)
    /\ "extended twice" \in Admitted \/ Snapped(sel)
    /\ LET s == IF p \in {sel.start, sel.end} THEN sel
                ELSE IF sel.kind = "block" THEN ExtendedBlock(sel, p) ELSE ExtendedNormal(sel, p, kind)
       IN /\ "block at the edge" \in Admitted \/ sel.kind # "block" \/ s.pivotStart[1] = s.pivotEnd[1]
          /\ Becomes([s EXCEPT !.ongoing = TRUE])
    /\ UNCHANGED view

\* selection_finalize() and selection_cancel()
SelectionFinalize == sel.ongoing /\ Becomes([sel EXCEPT !.ongoing = FALSE]) /\ UNCHANGED view
SelectionCancel == sel.kind # "none" /\ Becomes(NoSelection) /\ UNCHANGED view

\* fdm_scroll_timer(): the view moves, and then the selection.
FdmScrollTimer(to, col) ==
    /\ sel.ongoing /\ sel.end # Nowhere
    /\ to \in 0..Height - Rows /\ to # view
    /\ view' = to
    /\ LET p == <<IF to < view THEN to ELSE to + Rows - 1, col>>
       IN MayDrag(sel, p) /\ Becomes(Updated(sel, p, to))

\* The view moves without the selection: keys, or output.
Scrolled(to) ==
    /\ to \in 0..Height - Rows /\ to # view
    /\ view' = to /\ UNCHANGED <<text, sel, marked>>

Next ==
    \/ \E p \in InView, kind \in Kinds : SelectionStart(p, kind)
    \/ \E p \in InView : SelectionUpdate(p)
    \/ \E p \in InView, kind \in {"char", sel.kind} : SelectionExtend(p, kind)
    \/ \E to \in 0..Height - Rows, col \in 0..Width - 1 : FdmScrollTimer(to, col)
    \/ \E to \in 0..Height - Rows : Scrolled(to)
    \/ SelectionFinalize \/ SelectionCancel

Init ==
    /\ text \in Texts
    /\ "wide at the end" \in Admitted \/ \A r \in 0..Height - 1 : IsSpacer(<<r, Width - 1>>) => ~Hard(r) /\ r + 1 < Rows
    /\ view = Height - Rows /\ sel = NoSelection /\ marked = {}

Spec == Init /\ [][Next]_selectingVars

\* extract_one(): what is written so far, and the rows and empty cells that wait for a character
\* to follow them.
Extracted(out, p) ==
    LET newRow == out.row >= 0 /\ out.row # p[1]
        breaks == newRow /\ (Hard(out.row) \/ out.empty > 0 \/ At(p) = Blank)
        block == newRow /\ sel.kind = "block"
        lines == IF breaks /\ ~block THEN out.lines + 1 ELSE out.lines
        empty == IF breaks \/ block THEN 0 ELSE out.empty
        written == IF block THEN Append(out.written, "line") ELSE out.written
        Repeat(c, n) == [i \in 1..n |-> c]
    IN IF IsSpacer(p) THEN out
       ELSE IF At(p) = Blank
       THEN [row |-> p[1], written |-> written, lines |-> lines, empty |-> empty + 1]
       ELSE [row |-> p[1], lines |-> 0, empty |-> 0,
             written |-> written \o Repeat("line", lines) \o Repeat(" ", empty) \o <<At(p)>>]

\* selection_to_text()
RECURSIVE ExtractedFrom(_, _)
ExtractedFrom(out, cells) ==
    IF cells = {} THEN out
    ELSE LET first == CHOOSE p \in cells : \A q \in cells : ~Before(q, p)
         IN ExtractedFrom(Extracted(out, first), cells \ {first})
SelectionToText ==
    ExtractedFrom([row |-> -1, written |-> <<>>, lines |-> 0, empty |-> 0], Selected(sel)).written

---------------------------------------------------------------------------
(***************************************************************************)
(* Properties                                                              *)
(***************************************************************************)

Between(p, q) == Region("char", p, q)
Broken(row1, row2) ==
    \E r \in 0..Height - 1 : ((row1 <= r /\ r < row2) \/ (row2 <= r /\ r < row1)) /\ Hard(r)

\* The character, word or line, as far as it is in view, at p.
UnitOf(s, p) ==
    {c \in Cells :
        CASE s.kind = "char" -> Lead(c) = Lead(p)
          [] s.kind = "word" -> /\ \A r \in Between(c, p) : Class(Lead(r), s.spacesOnly) = Class(Lead(p), s.spacesOnly)
                                /\ ~Broken(c[1], p[1])
          [] s.kind = "line" -> /\ c \in InView
                                /\ ~Broken(c[1], p[1])}

\* From the pivot to the far end of the unit at p.
FromPivot(s, p) ==
    {c \in Cells :
        IF s.direction = "right"
        THEN ~Before(c, s.pivotStart) /\ \E u \in UnitOf(s, p) : ~Before(u, c)
        ELSE ~Before(Trail(s.pivotEnd), c) /\ \E u \in UnitOf(s, p) : ~Before(c, u)}

\* Wherever the pointer is dragged to, and over whatever else on the way there, the
\* selection is that between where it began and the pointer, in whole characters; and
\* what is highlighted is what is selected.
SelectionIsAsDragged ==
    LET drags == {[to |-> c, sel |-> Updated(sel, c, view)] : c \in {c \in InView : MayDrag(sel, c)}}
    IN /\ marked = Selected(sel)
       /\ sel.ongoing /\ sel.direction # "none" =>
             \A drag \in drags :
                LET p == drag.to
                    region == Selected(drag.sel)
                    detours == {Updated(d.sel, p, view) : d \in {d \in drags : MayDrag(d.sel, p)}}
                IN /\ IF sel.kind = "block"
                      THEN /\ \E c \in region : Lead(c) = Lead(p)
                           /\ drag.sel.pivotStart[1] = drag.sel.pivotEnd[1]
                      ELSE region = FromPivot(drag.sel, p)
                   /\ \A s \in detours : Selected(s) = region

\* What a row reads, and what it reads once text is written from a column of the first row on.
Shown(region) == [p \in {q \in region : At(q) # Blank} |-> At(p)]
RECURSIVE WrittenFrom(_, _, _)
WrittenFrom(cells, p, chars) ==
    IF chars = <<>> THEN cells
    ELSE LET c == Head(chars)
             next == <<p[1] + 1, 0>>
             wide == IF c = "W" THEN 2 ELSE 1
             here == IF p[2] + wide > Width THEN next ELSE p
         IN IF c = "line" THEN WrittenFrom(cells, next, Tail(chars))
            ELSE WrittenFrom(IF c = " " THEN cells ELSE (here :> c) @@ cells,
                             <<here[1], here[2] + wide>>, Tail(chars))

\* Text that is copied and written again at the same column reads the same.
CopiedTextReadsTheSame ==
    sel.end # Nowhere /\ sel.kind # "block" =>
       LET region == {p \in Selected(sel) : ~IsSpacer(p)}
           first == CHOOSE p \in region : \A q \in region : ~Before(q, p)
       IN region # {} => WrittenFrom(<<>>, first, SelectionToText) = Shown(region)
===============================================================================
