-------------------------------- MODULE Reflow --------------------------------
(***************************************************************************)
(* Resizing the normal screen (grid.c grid_resize_and_reflow() and         *)
(* grid_resize_without_reflow(), render.c render_resize()): every line is  *)
(* wrapped again, into a ring of another size, and the cursors, the view   *)
(* and the selection move with the text they are at.  While the user drags *)
(* the window's border a truncated copy of the view is shown; the lines    *)
(* are wrapped when the drag pauses or ends.                               *)
(*                                                                         *)
(* Rows and columns count from 0, a ring is a function on 0 .. size - 1.   *)
(***************************************************************************)
EXTENDS Integers, Sequences, FiniteSets, SequencesExt, FiniteSetsExt, TLC

CONSTANTS
    Sizes,            \* the sizes the window takes, <<rows, columns>>
    ScrollbackLines,  \* scrollback.lines
    MaxOutput,        \* bound on what the shell prints and the user selects
    MaxConfigures,    \* bound on the configure events
    Admitted          \* see below

\* What is known to move points away from their text, unless it is left out.
\* The selection is shifted at each configure event of a drag, and not back; a point
\* on a CELL_SPACER makes it a cell like others, which is copied; a row of blanks in the
\* middle of a line is not copied.
Defects == {"interactive selection", "point on filler", "blank row"}

ASSUME ReflowAssumption ==
    /\ \A s \in Sizes : s[1] \in Nat \ {0} /\ s[2] \in Nat \ {0, 1}
    /\ {ScrollbackLines, MaxOutput, MaxConfigures} \subseteq Nat
    /\ Admitted \subseteq Defects

VARIABLES
    grid,      \* term->normal
    rows, cols,\* term->rows, term->cols
    sel,       \* term->selection.coords: the points "start" and "end", or none
    shadow,    \* term->interactive_resizing, or NoShadow
    resizing,  \* window->is_resizing
    armed,     \* the timer of fdm_tiocswinsz()
    log,       \* what could be read when nothing was dragged, see Reading
    output, configures  \* how much was printed, how often resized

reflowVars == <<grid, rows, cols, sel, shadow, resizing, armed, log, output, configures>>

\* Cells: blank, CELL_SPACER at the end of a row that a wide character did not
\* fit on, the second half of a wide character (CELL_SPACER + 1), or the number
\* of a character.
Blank == 0
Filler == -1
Half == -2

NoRow == <<>>
NoShadow == <<>>
NoSel == <<>>     \* coords.end.row < 0

BlankRow(nc) == [cells |-> [c \in 0 .. nc - 1 |-> Blank], lb |-> TRUE]

\* The smallest power of two above k: render_resize() and grid_resize...()
PowerAbove(k) == CHOOSE p \in {2 ^ e : e \in 0 .. 5} : p > k /\ p \div 2 <= k
NormalRing(nr) == PowerAbove(ScrollbackLines + nr - 1)

Size(g) == Cardinality(DOMAIN g.ring)
RowAt(g, r) == (g.offset + r) % Size(g)
Width(g) == Cardinality(DOMAIN g.ring[g.offset].cells)
\* grid_row_abs_to_sb(), of a screen of nr rows
AbsToSb(g, nr, row) == (row - (g.offset + nr) + 2 * Size(g)) % Size(g)
SbToAbs(g, nr, row) == (row + g.offset + nr) % Size(g)

Least(a, b) == IF a < b THEN a ELSE b

(***************************************************************************)
(* Wrapping the lines again                                                *)
(*                                                                         *)
(* w is the state of the walk over the old ring: the new ring, the row and *)
(* column in it, the tracked points, those that are still to be found in   *)
(* the order of their places, how many empty lines were not copied yet,    *)
(* and the column of the next character of the old row.                    *)
(***************************************************************************)

LineWrap(w, n, nc) ==
    LET r == (w.row + 1) % n
    IN [w EXCEPT !.row = r, !.col = 0, !.ring[r] = IF @ = NoRow THEN BlankRow(nc) ELSE @]

FillRest(w, cell) ==
    [w EXCEPT !.ring[w.row].cells = [c \in DOMAIN @ |-> IF c < w.col THEN @[c] ELSE cell]]

Linebreak(w, n, nc) ==
    LineWrap([FillRest(w, Blank) EXCEPT !.ring[w.row].lb = TRUE], n, nc)

\* The points at column c of old row i are found, if it is their turn.
Found(w, i, c) ==
    LET hit == {k \in ToSet(w.todo) : w.at[k] = [row |-> i, col |-> c]}
    IN IF w.todo # <<>> /\ Head(w.todo) \in hit
       THEN [w EXCEPT !.todo = SelectSeq(@, LAMBDA k : k \notin hit),
                      !.at = [k \in DOMAIN @ |-> IF k \in hit THEN [row |-> w.row, col |-> w.col]
                                                 ELSE @[k]]]
       ELSE w

\* Column c of old row i; one that follows a wide character's first half is part
\* of it.
CopyCell(w, row, i, count, c, n, nc) ==
    LET starts == c = w.next
        width == IF c + 1 < count /\ row.cells[c + 1] = Half THEN 2 ELSE 1
        fresh == IF starts /\ w.col >= nc THEN LineWrap(w, n, nc) ELSE w
        fits == IF starts /\ fresh.col + width > nc
                THEN LineWrap(FillRest(fresh, Filler), n, nc) ELSE fresh
        found == Found(fits, i, c)
    IN [found EXCEPT !.ring[found.row].cells[found.col] = row.cells[c],
                     !.ring[found.row].lb = FALSE,
                     !.col = @ + 1,
                     !.next = IF starts THEN c + width ELSE @]

\* How many cells of an old row are copied: up to the last character, over blanks
\* in the middle of a line, and as far as there are points.
ColCount(w, row, i) ==
    LET old == DOMAIN row.cells
        last == Max({-1} \cup {c \in old : row.cells[c] \notin {Blank, Filler}}) + 1
        blanks == Min({c \in old : c >= last /\ row.cells[c] # Blank} \cup {Cardinality(old)})
        tracked == IF w.todo # <<>> /\ w.at[Head(w.todo)].row = i
                   THEN {w.at[k].col + 1 : k \in {k \in ToSet(w.todo) : w.at[k].row = i}} ELSE {}
    IN Max({IF ~row.lb /\ last > 0 THEN blanks ELSE last} \cup tracked)

CopyRow(w, row, i, isLast, n, nc) ==
    LET count == ColCount(w, row, i)
        begun == IF count = 0 THEN w
                 ELSE [FoldLeft(LAMBDA x, k : Linebreak(x, n, nc), w, [k \in 1 .. w.coalesced |-> k])
                         EXCEPT !.coalesced = 0, !.next = 0]
        copied == FoldLeft(LAMBDA x, c : CopyCell(x, row, i, count, c, n, nc), begun,
                           [k \in 1 .. count |-> k - 1])
    IN IF ~row.lb THEN copied
       ELSE IF count = 0 THEN [copied EXCEPT !.coalesced = @ + 1]
       ELSE IF isLast THEN [FillRest(copied, Blank) EXCEPT !.ring[copied.row].lb = TRUE]
       ELSE Linebreak(copied, n, nc)

\* The walk over the old ring of g, whose screen had "old" rows, with the points
\* pts of the selection, the cursors and a view that is scrolled back.
Walk(g, old, n, nc, pts) ==
    LET follows == g.view = g.offset
        abs(p) == [row |-> RowAt(g, p.row), col |-> p.col]
        at == [k \in DOMAIN pts \cup {"cursor", "saved"} \cup (IF follows THEN {} ELSE {"view"}) |->
                 CASE k = "cursor" -> abs(g.cursor)
                   [] k = "saved" -> abs(g.saved)
                   [] k = "view" -> [row |-> g.view, col |-> 0]
                   [] OTHER -> pts[k]]
        Place(k) == AbsToSb(g, old, at[k].row) * 100 + at[k].col
        start == [ring |-> [r \in 0 .. n - 1 |-> IF r = 0 THEN BlankRow(nc) ELSE NoRow],
                  row |-> 0, col |-> 0, at |-> at, coalesced |-> 0, next |-> 0,
                  todo |-> SetToSortSeq(DOMAIN at, LAMBDA a, b : Place(a) < Place(b))]
        Step(w, k) == LET i == SbToAbs(g, old, k - 1)
                      IN IF g.ring[i] = NoRow THEN w
                         ELSE CopyRow(w, g.ring[i], i, k = Size(g), n, nc)
    IN FillRest(FoldLeft(Step, start, [k \in 1 .. Size(g) |-> k]), Blank)

\* The new screen ends at the row the walk ended at: where its first row is, which must be one of the rows
\* there are.
NewOffset(w, n, nr) ==
    LET bottom == (w.row - nr + 1 + n * nr) % n
    IN CHOOSE o \in 0 .. n - 1 :
          \E k \in 0 .. n - 1 : /\ o = (bottom + k) % n /\ w.ring[o] # NoRow
                                /\ \A j \in 0 .. k - 1 : w.ring[(bottom + j) % n] = NoRow

\* The screen's rows are allocated.
NewRing(w, offset, n, nr, nc) ==
    [ring |-> [i \in 0 .. n - 1 |-> IF w.ring[i] = NoRow /\ i \in {(offset + r) % n : r \in 0 .. nr - 1}
                                    THEN BlankRow(nc) ELSE w.ring[i]],
     offset |-> offset]

\* A cursor is where its tracked point is, as far as that is on the screen.
Relative(at, lcf, new, nr, nc) ==
    LET col == Least(at.col, nc - 1)
        moves == lcf /\ col + 1 < nc
    IN [row |-> Least((at.row - new.offset + Size(new)) % Size(new), nr - 1),
        col |-> IF moves THEN col + 1 ELSE col, lcf |-> lcf /\ ~moves]

Ended(w, g, new, n, nr, nc, pts) ==
    LET top == IF "view" \in DOMAIN w.at THEN w.at["view"].row ELSE new.offset
    IN [grid |-> [ring |-> new.ring, offset |-> new.offset,
                  view |-> SbToAbs(new, nr, Least(AbsToSb(new, nr, top), n - nr)),
                  cursor |-> Relative(w.at["cursor"], g.cursor.lcf, new, nr, nc),
                  saved |-> Relative(w.at["saved"], g.saved.lcf, new, nr, nc)],
        pts |-> [k \in DOMAIN pts |-> w.at[k]]]

WalkEnds(w, g, n, nr, nc, pts) == Ended(w, g, NewRing(w, NewOffset(w, n, nr), n, nr, nc), n, nr, nc, pts)

\* grid_resize_and_reflow(): the reflowed grid and points
GridResizeAndReflow(g, old, n, nr, nc, pts) == WalkEnds(Walk(g, old, n, nc, pts), g, n, nr, nc, pts)

(***************************************************************************)
(* Truncating the copy that is shown during a drag                         *)
(***************************************************************************)

\* memcpy(), and a wide character that is cut in two goes (the loop over the cells
\* up to new_cols)
TruncatedRow(row, nc) ==
    LET old == Cardinality(DOMAIN row.cells)
        cut == old > nc /\ row.cells[nc] = Half
    IN [cells |-> [c \in 0 .. nc - 1 |->
                     IF c >= old \/ (cut /\ c = nc - 1) THEN Blank ELSE row.cells[c]],
        lb |-> TRUE]

GridResizeWithoutReflow(g, old, n, nr, nc) ==
    LET clamp(p) == [row |-> IF p.row = old - 1 THEN nr - 1 ELSE Least(p.row, nr - 1),
                     col |-> Least(p.col, nc - 1), lcf |-> FALSE]
    IN [ring |-> [i \in 0 .. n - 1 |-> IF i >= nr THEN NoRow
                                       ELSE IF i < old THEN TruncatedRow(g.ring[RowAt(g, i)], nc)
                                       ELSE BlankRow(nc)],
        offset |-> 0, view |-> 0, cursor |-> clamp(g.cursor), saved |-> clamp(g.saved)]

\* The viewport of g, in a ring of its own
CopyOfView(g, old) ==
    [ring |-> [i \in 0 .. PowerAbove(old) - 1 |->
                 IF i < old THEN [g.ring[(g.view + i) % Size(g)] EXCEPT !.lb = TRUE] ELSE NoRow],
     offset |-> 0, view |-> 0, cursor |-> g.cursor, saved |-> g.saved]

(***************************************************************************)
(* What can be read: the characters of the ring from the oldest to the     *)
(* newest, a logical line each, without the blanks that end it             *)
(***************************************************************************)

IsChar(cell) == cell > 0

\* The places of g in reading order, its characters, and the lines that end at a
\* row or below it.
Rank(g, nr, p) == AbsToSb(g, nr, p[1]) * 100 + p[2]
Chars(g) ==
    {p \in (DOMAIN g.ring) \X (0 .. Width(g) - 1) :
       g.ring[p[1]] # NoRow /\ IsChar(g.ring[p[1]].cells[p[2]])}
Breaks(g, nr, row) ==
    Cardinality({i \in DOMAIN g.ring :
                   g.ring[i] # NoRow /\ g.ring[i].lb /\ AbsToSb(g, nr, i) >= AbsToSb(g, nr, row)})

Sorted(g, nr) == SetToSortSeq(Chars(g), LAMBDA p, q : Rank(g, nr, p) < Rank(g, nr, q))

\* Lines count from the last one that has a character.
Line(g, nr, row) ==
    LET all == Sorted(g, nr)
    IN Breaks(g, nr, row) - (IF all = <<>> THEN 0 ELSE Breaks(g, nr, Last(all)[1]))

\* The characters and the number of the line each is on
Text(g, nr) ==
    LET all == Sorted(g, nr)
    IN [k \in 1 .. Len(all) |-> <<g.ring[all[k][1]].cells[all[k][2]], Line(g, nr, all[k][1])>>]

\* Where a place is in the text: its line, and its column counted from the last
\* character on that line; nowhere, if there is none.
Nowhere == <<>>

InText(g, nr, row, col) ==
    LET line == {p \in (DOMAIN g.ring) \X (0 .. Width(g) - 1) :
                   /\ g.ring[p[1]] # NoRow /\ Breaks(g, nr, p[1]) = Breaks(g, nr, row)
                   /\ g.ring[p[1]].cells[p[2]] # Filler}
        before(p) == Cardinality({q \in line : Rank(g, nr, q) < Rank(g, nr, p)})
        chars == {before(p) : p \in line \cap Chars(g)}
    IN IF chars = {} THEN Nowhere ELSE <<Line(g, nr, row), before(<<row, col>>) - Max(chars)>>

Places(g, nr, points) ==
    [k \in DOMAIN points \cup {"cursor", "saved"} |->
       CASE k = "cursor" -> InText(g, nr, RowAt(g, g.cursor.row), g.cursor.col)
         [] k = "saved" -> InText(g, nr, RowAt(g, g.saved.row), g.saved.col)
         [] OTHER -> InText(g, nr, points[k].row, points[k].col)]

\* A cursor with lcf set is after its cell.
After(g, k) == IF (k = "cursor" /\ g.cursor.lcf) \/ (k = "saved" /\ g.saved.lcf) THEN 1 ELSE 0

Reading(g, nr, points) ==
    [text |-> Text(g, nr), places |-> Places(g, nr, points),
     after |-> [k \in DOMAIN points \cup {"cursor", "saved"} |-> After(g, k)]]

(***************************************************************************)
(* The shell and the user, while no resize is going on                     *)
(***************************************************************************)

Calm == shadow = NoShadow /\ output < MaxOutput /\ configures < MaxConfigures

Becomes(g) ==
    /\ Calm
    /\ grid' = g /\ log' = Reading(g, rows, sel) /\ output' = output + 1
    /\ UNCHANGED <<rows, cols, sel, shadow, resizing, armed, configures>>

\* term_scroll(1) of the whole screen, as far as it is a matter of the ring
Scrolled(g) ==
    LET new == [g EXCEPT !.offset = (@ + 1) % Size(g)]
    IN [new EXCEPT !.view = new.offset, !.ring[RowAt(new, rows - 1)] = BlankRow(cols)]

\* term_linefeed() and term_carriage_return()
NextRow(g) ==
    LET down == IF g.cursor.row = rows - 1 THEN Scrolled(g) ELSE [g EXCEPT !.cursor.row = @ + 1]
    IN [down EXCEPT !.cursor.col = 0, !.cursor.lcf = FALSE]

PrintLinewrap(g) ==
    IF g.cursor.lcf THEN NextRow([g EXCEPT !.ring[RowAt(g, g.cursor.row)].lb = FALSE]) ELSE g

\* term_print() of a character of one or two columns
TermPrint(width) ==
    LET g == PrintLinewrap(grid)
        row(h) == RowAt(h, h.cursor.row)
        padded == [g EXCEPT !.ring[row(g)].cells = [c \in DOMAIN @ |-> IF c < g.cursor.col THEN @[c] ELSE Filler],
                            !.cursor.lcf = TRUE]
        at == IF g.cursor.col + width > cols THEN PrintLinewrap(padded) ELSE g
        col == at.cursor.col + width
    IN /\ grid.view = grid.offset /\ sel = NoSel
       /\ Becomes([at EXCEPT
            !.ring[row(at)].cells = [c \in DOMAIN @ |-> IF c = at.cursor.col THEN output + 1
                                       ELSE IF c > at.cursor.col /\ c < col THEN Half ELSE @[c]],
            !.ring[row(at)].lb = TRUE,
            !.cursor.col = Least(col, cols - 1), !.cursor.lcf = col >= cols])

TermLinefeed ==
    /\ grid.view = grid.offset /\ sel = NoSel
    /\ Becomes(NextRow(grid))

\* term_cursor_to(), term_save_cursor()
TermCursorTo(r, c) == Becomes([grid EXCEPT !.cursor = [row |-> r, col |-> c, lcf |-> FALSE]])
TermSaveCursor == grid.saved # grid.cursor /\ Becomes([grid EXCEPT !.saved = grid.cursor])

\* cmd_scrollback_up(): the view stays among the rows there are.
ScrollbackUp ==
    LET above == (grid.view - 1 + Size(grid)) % Size(grid)
    IN /\ AbsToSb(grid, rows, grid.view) > 0 /\ grid.ring[above] # NoRow
       /\ Becomes([grid EXCEPT !.view = above])

\* A selection of shown cells, made and ended
Select(a, b) ==
    /\ Calm
    /\ "interactive selection" \in Admitted \/ ~resizing
    /\ sel = NoSel
    /\ sel' = ("start" :> a @@ "end" :> b)
    /\ log' = Reading(grid, rows, sel') /\ output' = output + 1
    /\ UNCHANGED <<grid, rows, cols, shadow, resizing, armed, configures>>

ShownCells == {[row |-> (grid.view + r) % Size(grid), col |-> c] : r \in 0 .. rows - 1, c \in {0, cols - 1}}

(***************************************************************************)
(* Resizing                                                                *)
(***************************************************************************)

Reflows(new, nr) ==
    /\ grid' = new.grid /\ sel' = new.pts /\ shadow' = NoShadow
    /\ log' = Reading(new.grid, nr, new.pts)

\* delayed_reflow_of_normal_grid(), the window having nr rows of nc columns
DelayedReflow(s, points, nr, nc) ==
    LET new == GridResizeAndReflow(s.grid, s.rows, s.newRows, nr, nc, points)
    IN Reflows(new, nr)

\* send_dimensions_to_client(): now, or when the drag pauses
SendDimensions(still, s, g, points, nr, nc) ==
    /\ armed' = still
    /\ IF still THEN grid' = g /\ sel' = points /\ shadow' = s /\ UNCHANGED log
       ELSE IF s = NoShadow THEN Reflows([grid |-> g, pts |-> points], nr)
       ELSE DelayedReflow(s, points, nr, nc)

\* The drag's selection is relative to the copy of the view ("-= orig->view").
Shifted(points, view) == [k \in DOMAIN points |-> [points[k] EXCEPT !.row = @ - view]]

\* render_resize() while the border is dragged: the grid from before the drag is
\* kept aside, and a copy of its view is truncated.
ResizeInteractively(nr, nc) ==
    LET kept == IF shadow = NoShadow
                THEN [grid |-> grid, rows |-> rows, newRows |-> 0, sel |-> sel]
                ELSE shadow
        copy == CopyOfView(kept.grid, kept.rows)
    IN SendDimensions(TRUE, [kept EXCEPT !.newRows = NormalRing(nr)],
                      GridResizeWithoutReflow(copy, kept.rows, PowerAbove(nr), nr, nc),
                      Shifted(sel, kept.grid.view), nr, nc)

\* Mutant of ResizeFully: what is shown during the drag is wrapped.
ResizeFullyTruncated(nr, nc) ==
    LET new == GridResizeAndReflow(grid, rows, NormalRing(nr), nr, nc, sel)
    IN SendDimensions(FALSE, NoShadow, new.grid, new.pts, nr, nc)

\* render_resize() otherwise: the lines are wrapped, those from before a drag if
\* there was one.
ResizeFully(nr, nc) ==
    LET old == IF shadow = NoShadow THEN [grid |-> grid, rows |-> rows, sel |-> sel] ELSE shadow
        new == GridResizeAndReflow(old.grid, old.rows, NormalRing(nr), nr, nc, old.sel)
    IN SendDimensions(FALSE, NoShadow, new.grid, new.pts, nr, nc)

\* "grid layout unaffected; skipping reflow"
ResizeUnaffected(still) ==
    LET s == IF shadow = NoShadow THEN shadow ELSE [shadow EXCEPT !.newRows = NormalRing(rows)]
    IN SendDimensions(still, s, grid, sel, rows, cols)

OnFiller ==
    \/ \E p \in {grid.cursor, grid.saved} : grid.ring[RowAt(grid, p.row)].cells[p.col] = Filler
    \/ \E k \in DOMAIN sel : grid.ring[sel[k].row].cells[sel[k].col] = Filler

BlankRowInLine ==
    \E i \in DOMAIN grid.ring :
       /\ grid.ring[i] # NoRow /\ ~grid.ring[i].lb
       /\ \A c \in 0 .. cols - 1 : grid.ring[i].cells[c] \in {Blank, Filler}

\* xdg_surface_configure(): a resize is forced when the drag ends; otherwise one to
\* the same size is none, if it is the same in pixels.
Configure(nr, nc, still) ==
    /\ configures < MaxConfigures
    /\ still => sel = NoSel \/ "interactive selection" \in Admitted
    /\ shadow = NoShadow => /\ OnFiller => "point on filler" \in Admitted
                            /\ BlankRowInLine => "blank row" \in Admitted
    /\ configures' = configures + 1
    /\ resizing' = still /\ rows' = nr /\ cols' = nc
    /\ IF <<nr, nc>> # <<rows, cols>>
       THEN IF still THEN ResizeInteractively(nr, nc) ELSE ResizeFully(nr, nc)
       ELSE \/ ResizeUnaffected(still)
            \/ ~(resizing /\ ~still) /\ UNCHANGED <<grid, sel, shadow, armed, log>>
    /\ UNCHANGED output

\* fdm_tiocswinsz(): the drag pauses.
FdmTiocswinsz ==
    /\ armed /\ armed' = FALSE
    /\ IF shadow = NoShadow THEN UNCHANGED <<grid, sel, shadow, log>>
       ELSE DelayedReflow(shadow, sel, rows, cols)
    /\ UNCHANGED <<rows, cols, resizing, output, configures>>

Init ==
    \E size \in Sizes :
        /\ rows = size[1] /\ cols = size[2]
        /\ LET origin == [row |-> 0, col |-> 0, lcf |-> FALSE]
               n == NormalRing(size[1])
               new == [ring |-> [i \in 0 .. n - 1 |-> IF i < size[1] THEN BlankRow(size[2]) ELSE NoRow],
                       offset |-> 0, view |-> 0, cursor |-> origin, saved |-> origin]
           IN grid = new /\ log = Reading(new, size[1], NoSel)
        /\ sel = NoSel /\ shadow = NoShadow /\ resizing = FALSE /\ armed = FALSE
        /\ output = 0 /\ configures = 0

Next ==
    \/ \E width \in 1 .. 2 : TermPrint(width)
    \/ TermLinefeed
    \/ \E r \in 0 .. rows - 1, c \in {0, cols - 1} : TermCursorTo(r, c)
    \/ TermSaveCursor \/ ScrollbackUp
    \/ \E a, b \in ShownCells : Select(a, b)
    \/ \E s \in Sizes, still \in BOOLEAN : Configure(s[1], s[2], still)
    \/ FdmTiocswinsz

Spec == Init /\ [][Next]_reflowVars

(***************************************************************************)
(* Properties                                                              *)
(***************************************************************************)

IsEndOf(a, b) == Len(a) <= Len(b) /\ a = SubSeq(b, Len(b) - Len(a) + 1, Len(b))

Full(g) == \A i \in DOMAIN g.ring : g.ring[i] # NoRow

\* Whether a place in the text is among some rows
AtSome(place, g, nr, among) ==
    /\ place # Nowhere
    /\ \E i \in among, c \in 0 .. Width(g) - 1 : g.ring[i] # NoRow /\ InText(g, nr, i, c) = place

\* However the window is resized and dragged, no character is lost or moved to
\* another line, but for the oldest, when the ring has no room for them; the cursors
\* stay where they are in the text, as long as that is on the screen, and the
\* selection as long as it is in the ring (grid_resize_and_reflow()).
TextStays ==
    output' = output /\ log' # log =>
      /\ IsEndOf(log'.text, log.text)
      /\ Full(grid') \/ log'.text = log.text
      /\ \A k \in DOMAIN log'.places :
           LET among == IF k \in DOMAIN sel THEN DOMAIN grid'.ring
                        ELSE {RowAt(grid', r) : r \in 0 .. rows' - 1}
           IN AtSome(log.places[k], grid', rows', among) =>
                /\ log'.places[k] # Nowhere
                /\ log'.places[k][1] = log.places[k][1]
                /\ log'.places[k][2] + log'.after[k] = log.places[k][2] + log.after[k]

\* TextStays of every step
TextIsKept == [][TextStays]_reflowVars
===============================================================================
