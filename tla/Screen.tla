-------------------------------- MODULE Screen --------------------------------
(***************************************************************************)
(* The cursor of a terminal (terminal.c) under the control characters and  *)
(* escape sequences that move it (vt.c, csi.c): the scrolling region and   *)
(* origin mode, automatic margins with their last column flag, the saved   *)
(* cursors, the alternate screen, and resizing.  Cells are left out: what  *)
(* is modelled is where the next character goes, and what scrolls.         *)
(* Rows and columns count from 0.                                          *)
(***************************************************************************)
EXTENDS Integers, FiniteSets, FiniteSetsExt

CONSTANTS
    Sizes,     \* a bound: the sizes <<rows, columns>> of the window
    Counts,    \* a bound: parameters of sequences, as numbers from 1
    Defects    \* what CursorFits does not hold for: see the actions

VARIABLE s     \* the terminal's cursors and what bounds them, see Init

screenVars == <<s>>

Cur == s.cursor[s.grid]
LastRow == s.rows - 1
LastCol == s.cols - 1
Least(a, b) == Min({a, b})

(***************************************************************************)
(* Moving the cursor, in terminal.c                                        *)
(***************************************************************************)

\* term_row_rel_to_abs()
RowRelToAbs(t, row) ==
    IF t.relative THEN Least(row + t.top, t.bottom - 1) ELSE Least(row, t.rows - 1)

\* term_cursor_to() and term_cursor_home()
CursorTo(t, row, col) ==
    [t EXCEPT !.cursor[t.grid] = [row |-> row, col |-> col, lcf |-> FALSE]]
CursorHome(t) == CursorTo(t, RowRelToAbs(t, 0), 0)

\* term_cursor_col(), term_cursor_left() and term_cursor_right()
CursorCol(t, col) == [t EXCEPT !.cursor[t.grid].col = col, !.cursor[t.grid].lcf = FALSE]
CursorLeft(t, count) ==
    LET col == t.cursor[t.grid].col IN CursorCol(t, col - Least(col, count))
CursorRight(t, count) ==
    LET col == t.cursor[t.grid].col IN CursorCol(t, col + Least(t.cols - col - 1, count))

\* term_cursor_up() and term_cursor_down(), which stop at the region's ends in
\* origin mode only.
CursorUp(t, count) ==
    LET c == t.cursor[t.grid]
        top == IF t.relative THEN t.top ELSE 0
    IN CursorTo(t, c.row - Least(c.row - top, count), c.col)
CursorDown(t, count) ==
    LET c == t.cursor[t.grid]
        bottom == IF t.relative THEN t.bottom ELSE t.rows
    IN CursorTo(t, c.row + Least(bottom - c.row - 1, count), c.col)

\* term_carriage_return(), term_linefeed() and term_reverse_index(): at an end
\* of the region they scroll it instead.
CarriageReturn(t) == CursorLeft(t, t.cursor[t.grid].col)
Linefeed(t) ==
    IF t.cursor[t.grid].row = t.bottom - 1
    THEN [t EXCEPT !.cursor[t.grid].lcf = FALSE] ELSE CursorDown(t, 1)
ReverseIndex(t) == IF t.cursor[t.grid].row = t.top THEN t ELSE CursorUp(t, 1)

(***************************************************************************)
(* Printing                                                                *)
(***************************************************************************)

\* print_linewrap()
PrintLinewrap(t) ==
    LET c == t.cursor[t.grid] IN
    IF ~c.lcf \/ ~t.wraps THEN t
    ELSE CursorTo(t, IF c.row = t.bottom - 1 THEN c.row ELSE Least(c.row + 1, t.rows - 1), 0)

\* The end of term_print() and of ascii_printer_fast()
Advanced(t, width) ==
    LET col == t.cursor[t.grid].col + width
    IN IF col > t.cols - 1
       THEN [t EXCEPT !.cursor[t.grid].col = t.cols - 1, !.cursor[t.grid].lcf = TRUE]
       ELSE [t EXCEPT !.cursor[t.grid].col = col]

\* term_print(): a wide character that does not fit the line goes to the next.
Printed(t, width) ==
    LET u == PrintLinewrap(t)
        c == u.cursor[u.grid]
    IN IF width > 1 /\ u.wraps /\ c.col + width > u.cols
       THEN Advanced(PrintLinewrap([u EXCEPT !.cursor[u.grid].lcf = TRUE]), width)
       ELSE Advanced(u, width)

TermPrint == \E width \in {1, 2} : s' = Printed(s, width)

(***************************************************************************)
(* Control characters: action_execute(), and the same by action_esc_       *)
(* dispatch()                                                              *)
(***************************************************************************)

\* \b: undoes a pending wrap, and may wrap to the line above.
Backspace ==
    s' = IF Cur.lcf THEN [s EXCEPT !.cursor[s.grid].lcf = FALSE]
         ELSE IF Cur.col = 0 /\ s.rwraps /\ s.wraps
              THEN IF Cur.row <= s.top THEN s ELSE CursorTo(s, Cur.row - 1, LastCol)
              ELSE CursorLeft(s, 1)

\* \t and CSI I, for any tab stops: to one of them or the last column, keeping a
\* pending wrap; CSI Z goes back.
Tab ==
    \/ \E stop \in Cur.col + 1 .. LastCol \cup {LastCol} :
          s' = [CursorRight(s, stop - Cur.col) EXCEPT !.cursor[s.grid].lcf = Cur.lcf]
    \/ \E stop \in 0 .. Cur.col - 1 \cup {0} : s' = CursorLeft(s, Cur.col - stop)

\* \n, \v, \f, \r, ESC D, ESC E and ESC M
Lines ==
    s' \in {Linefeed(s), CarriageReturn(s), Linefeed(CarriageReturn(s)), ReverseIndex(s)}

(***************************************************************************)
(* CSI sequences: csi_dispatch()                                           *)
(***************************************************************************)

\* A, B, C, D, E, F, a, e: moves by a count
CursorMoves ==
    \E n \in Counts :
        s' \in {CursorUp(s, n), CursorDown(s, n), CursorRight(s, n), CursorLeft(s, n),
                CarriageReturn(CursorDown(s, n)), CarriageReturn(CursorUp(s, n))}

\* d, G, H, f and `: moves to a row or column
CursorPosition ==
    \E n, m \in Counts :
        s' \in {CursorTo(s, RowRelToAbs(s, n - 1), Cur.col),
                CursorCol(s, Least(m, s.cols) - 1),
                CursorTo(s, RowRelToAbs(s, n - 1), Least(m, s.cols) - 1)}

\* J, K, P, @ and X: erase and shift cells, and undo a pending wrap.
Erase == s' = [s EXCEPT !.cursor[s.grid].lcf = FALSE]

\* L and M: insert and delete lines, from the cursor to the region's end.
InsertLines ==
    /\ Cur.row \in s.top .. s.bottom - 1
    /\ s' = CursorCol(s, 0)

\* r: DECSTBM, a region of two rows at least
SetRegion ==
    \E n, m \in Counts :
        LET end == Least(m, s.rows)
        IN end > n /\ s' = CursorHome([s EXCEPT !.top = n - 1, !.bottom = end])

\* ESC # 8: DECALN
Align == s' = CursorHome([s EXCEPT !.top = 0, !.bottom = s.rows])

(***************************************************************************)
(* The saved cursor                                                        *)
(***************************************************************************)

\* term_save_cursor(), by ESC 7, CSI s and mode 1048
Saved(t) == [t EXCEPT !.saved[t.grid] = t.cursor[t.grid]]

\* term_restore_cursor().  Neither the region nor origin mode are saved with the
\* cursor, which may so come to be outside of the region in origin mode.
Restored(t) ==
    LET c == t.saved[t.grid]
        u == CursorTo(t, Least(c.row, t.rows - 1), Least(c.col, t.cols - 1))
    IN [u EXCEPT !.cursor[t.grid].lcf = c.lcf]

Inside(t) ==
    "restored outside" \in Defects \/ ~t.relative
    \/ t.cursor[t.grid].row \in t.top .. t.bottom - 1

SaveCursor == s' = Saved(s)
RestoreCursor == s' = Restored(s) /\ Inside(s')

(***************************************************************************)
(* Modes: decset_decrst()                                                  *)
(***************************************************************************)

\* Mode 6, DECOM
SetOrigin == \E on \in BOOLEAN : s' = CursorHome([s EXCEPT !.relative = on])

\* Mode 7, DECAWM, and mode 45
SetWrap ==
    \E on \in BOOLEAN :
        \/ s' = [s EXCEPT !.wraps = on, !.cursor[s.grid].lcf = FALSE]
        \/ s' = [s EXCEPT !.rwraps = on]

\* The other grid's cursor goes to where this one's is.
Carried(t, grid) ==
    LET c == t.cursor[t.grid]
    IN CursorTo([t EXCEPT !.grid = grid], Least(c.row, t.rows - 1), Least(c.col, t.cols - 1))

\* Modes 47, 1047 and 1049, of which the last saves and restores the cursor
EnterAlt ==
    /\ s.grid = "normal"
    /\ s' \in {Carried(s, "alt"), Carried(Saved(s), "alt")}
LeaveAlt ==
    /\ s.grid = "alt"
    /\ s' \in {Carried(s, "normal"), Restored(Carried(s, "normal"))}
    /\ Inside(s')

(***************************************************************************)
(* Reset and resize                                                        *)
(***************************************************************************)

Origin == [row |-> 0, col |-> 0, lcf |-> FALSE]

\* term_reset(): ESC c and CSI ! p.  Only a hard reset ends origin mode.
SoftReset(t) ==
    [t EXCEPT !.grid = "normal", !.wraps = TRUE, !.rwraps = TRUE,
              !.top = 0, !.bottom = t.rows]
TermReset ==
    s' \in {SoftReset(s),
            [SoftReset(s) EXCEPT !.relative = FALSE,
                                 !.cursor = [g \in {"normal", "alt"} |-> Origin],
                                 !.saved = [g \in {"normal", "alt"} |-> Origin]]}

\* grid_resize_without_reflow(): a cursor on the last row stays there.
Clamped(c, rows, cols, oldRows) ==
    [row |-> IF c.row = oldRows - 1 THEN rows - 1 ELSE Least(c.row, rows - 1),
     col |-> Least(c.col, cols - 1), lcf |-> FALSE]

\* grid_resize_and_reflow(): wherever the text the cursor is at goes to.
Reflowed(c, rows, cols) ==
    [row : 0 .. rows - 1, col : 0 .. cols - 1, lcf : {FALSE}]
    \cup (IF c.lcf THEN [row : 0 .. rows - 1, col : {cols - 1}, lcf : {TRUE}] ELSE {})

\* Mutant of Region: the end of the region stays while it is on the screen.
RegionStays(t, rows) ==
    [t EXCEPT !.top = IF t.top >= rows THEN 0 ELSE t.top,
              !.bottom = IF t.bottom > rows THEN rows ELSE t.bottom]

\* The scrolling region in render_resize(), which knows the old size
Region(t, rows) ==
    [t EXCEPT !.top = IF t.top >= rows THEN 0 ELSE t.top,
              !.bottom = IF t.bottom > rows \/ t.bottom >= t.rows THEN rows ELSE t.bottom]

\* render_resize(), when the text is reflowed at once.  Reflowing may put the
\* cursor outside of the region.
Resize ==
    \E size \in Sizes :
        LET rows == size[1]
            cols == size[2]
        IN /\ size # <<s.rows, s.cols>>
           /\ \E c \in Reflowed(s.cursor.normal, rows, cols),
                 d \in Reflowed(s.saved.normal, rows, cols) :
                 s' = [Region(s, rows) EXCEPT
                         !.rows = rows, !.cols = cols,
                         !.cursor = [normal |-> c, alt |-> Clamped(@.alt, rows, cols, s.rows)],
                         !.saved = [normal |-> d, alt |-> Clamped(@.alt, rows, cols, s.rows)]]
           /\ \/ "reflowed outside" \in Defects \/ s.grid = "alt" \/ ~s.relative
              \/ s'.cursor.normal.row \in s'.top .. s'.bottom - 1

\* term_init() and the first render_resize()
Init ==
    \E size \in Sizes :
        s = [rows |-> size[1], cols |-> size[2], grid |-> "normal",
             top |-> 0, bottom |-> size[1], relative |-> FALSE, wraps |-> TRUE, rwraps |-> TRUE,
             cursor |-> [g \in {"normal", "alt"} |-> Origin],
             saved |-> [g \in {"normal", "alt"} |-> Origin]]

Next ==
    \/ TermPrint \/ Backspace \/ Tab \/ Lines
    \/ CursorMoves \/ CursorPosition \/ Erase \/ InsertLines \/ SetRegion \/ Align
    \/ SaveCursor \/ RestoreCursor \/ SetOrigin \/ SetWrap \/ EnterAlt \/ LeaveAlt
    \/ TermReset \/ Resize

Spec == Init /\ [][Next]_screenVars

(***************************************************************************)
(* Properties                                                              *)
(***************************************************************************)

\* The cursor is on the screen, a wrap is pending in the last column only, and
\* in origin mode the cursor is inside the scrolling region, which is never
\* empty: what term_cursor_to(), term_cursor_up(), term_cursor_down() and
\* term_print() assert, after any sequences and resizes.
CursorFits ==
    /\ 0 <= s.top /\ s.top < s.bottom /\ s.bottom <= s.rows
    /\ \A g \in {"normal", "alt"} :
          LET c == s.cursor[g]
          IN c.row \in 0 .. LastRow /\ c.col \in 0 .. LastCol /\ (c.lcf => c.col = LastCol)
    /\ s.relative => Cur.row \in s.top .. s.bottom - 1
===============================================================================
