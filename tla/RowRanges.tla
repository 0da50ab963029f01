------------------------------- MODULE RowRanges -------------------------------
(***************************************************************************)
(* The hyperlinks (OSC 8) and the styled underlines of a line (grid.c      *)
(* grid_row_range_put(), grid_row_range_erase(), and the ranges in         *)
(* grid_resize_and_reflow()).  A row has a vector of ranges of columns for *)
(* each kind; what the ranges stand for is one identity per cell.          *)
(*                                                                         *)
(* The line has Length cells over as many rows as it needs; every row but  *)
(* the last is full.                                                       *)
(***************************************************************************)
EXTENDS Integers, Sequences, FiniteSets, SequencesExt, FiniteSetsExt

CONSTANTS
    Length,  \* cells of the line, at least one
    Widths,  \* the columns a row may have, at least one
    Links    \* the links

VARIABLES
    width,    \* columns of a row
    ranges,   \* of each row, row->extra->uri_ranges
    painted   \* the identity that each cell of the line was last given, or None

rangesVars == <<width, ranges, painted>>

None == "none"

Span(from, to, id) == [start |-> from, end |-> to, id |-> id]

RowCount(w) == (Length + w - 1) \div w
\* The columns of a row that are in the line
InLine(w, row) == {c \in 0 .. w - 1 : row * w + c < Length}

\* The merge pass of grid_row_range_put()
Merged(v) ==
    FoldLeft(LAMBDA merged, r :
               IF merged # <<>> /\ Last(merged).id = r.id /\ Last(merged).end + 1 = r.start
               THEN [merged EXCEPT ![Len(merged)].end = r.end] ELSE Append(merged, r),
             <<>>, v)

\* What is left of a range before a column and after one
Before(r, col) == IF r.start < col THEN <<Span(r.start, col - 1, r.id)>> ELSE <<>>
Beyond(r, col) == IF r.end > col THEN <<Span(col + 1, r.end, r.id)>> ELSE <<>>

\* Mutant of Cut: the range that is cut in two keeps its end.
CutKeepsEnd(v, i, col, id) ==
    LET r == v[i]
    IN SubSeq(v, 1, i - 1) \o Before(r, col) \o <<Span(col, col, id)>> \o SubSeq(v, i + 1, Len(v))

\* Column col of range i is given to another range: the merge pass runs, unless it
\* was in the middle.
Cut(v, i, col, id) ==
    LET r == v[i]
        cut == SubSeq(v, 1, i - 1) \o Before(r, col) \o <<Span(col, col, id)>> \o Beyond(r, col)
               \o SubSeq(v, i + 1, Len(v))
    IN IF r.start < col /\ col < r.end THEN cut ELSE Merged(cut)

\* grid_row_range_put(): r is the last range that does not start after col.
RangePut(v, col, id) ==
    LET i == Max({0} \cup {k \in DOMAIN v : v[k].start <= col})
        r == v[i]
        matching == i > 0 /\ r.id = id
        covers == i > 0 /\ r.end >= col
    IN CASE matching /\ r.end + 1 = col -> [v EXCEPT ![i].end = col]
         [] ~covers /\ ~(matching /\ r.end + 1 = col) -> InsertAt(v, i + 1, Span(col, col, id))
         [] covers /\ matching -> v
         [] covers /\ ~matching -> Cut(v, i, col, id)

\* grid_row_range_erase(): what is left of each range.
RangeErase(v, from, to) ==
    LET Rest(r) == IF r.end < from \/ r.start > to THEN <<r>> ELSE Before(r, from) \o Beyond(r, to)
    IN FoldLeft(LAMBDA u, r : u \o Rest(r), <<>>, v)

(***************************************************************************)
(* Wrapping the line again.  w is the new rows, and the column in the last *)
(* of them.  A range is open, its end -1, until its last cell was copied.  *)
(***************************************************************************)

Open == -1

\* _line_wrap(): an open range is closed, and opened again on the next row.
LineWrap(w, nc) ==
    LET row == Last(w.rows)
        isOpen == row # <<>> /\ Last(row).end = Open
    IN [rows |-> Append(IF isOpen THEN [w.rows EXCEPT ![Len(w.rows)][Len(row)].end = nc - 1] ELSE w.rows,
                        IF isOpen THEN <<Span(0, Open, Last(row).id)>> ELSE <<>>),
        col |-> 0]

\* reflow_range_start(), reflow_range_end(), and the cell itself
ReflowCell(w, row, c, nc) ==
    LET wrapped == IF w.col >= nc THEN LineWrap(w, nc) ELSE w
        n == Len(wrapped.rows)
        starting == SelectSeq(row, LAMBDA r : r.start = c)
        started == IF starting = <<>> THEN wrapped.rows[n]
                   ELSE Append(wrapped.rows[n], Span(wrapped.col, Open, Head(starting).id))
        ended == IF \E k \in DOMAIN row : row[k].end = c
                 THEN [started EXCEPT ![Len(started)].end = wrapped.col] ELSE started
    IN [rows |-> [wrapped.rows EXCEPT ![n] = ended], col |-> wrapped.col + 1]

Reflowed(nc) ==
    LET cell(w, k) == ReflowCell(w, ranges[k \div width], k % width, nc)
        walk == FoldLeft(cell, [rows |-> << <<>> >>, col |-> 0], [k \in 1 .. Length |-> k - 1])
    IN [row \in 0 .. RowCount(nc) - 1 |-> walk.rows[row + 1]]

(***************************************************************************)
(* What a line goes through                                                *)
(***************************************************************************)

Init ==
    /\ width \in Widths
    /\ ranges = [row \in 0 .. RowCount(width) - 1 |-> <<>>]
    /\ painted = [k \in 0 .. Length - 1 |-> None]

\* grid_row_uri_range_put(), grid_row_underline_range_put()
Put(row, col, id) ==
    /\ ranges' = [ranges EXCEPT ![row] = RangePut(@, col, id)]
    /\ painted' = [painted EXCEPT ![row * width + col] = id]
    /\ UNCHANGED width

\* grid_row_uri_range_erase(), grid_row_underline_range_erase()
Erase(row, from, to) ==
    /\ ranges' = [ranges EXCEPT ![row] = RangeErase(@, from, to)]
    /\ painted' = [k \in DOMAIN painted |-> IF k \div width = row /\ k % width \in from .. to
                                            THEN None ELSE painted[k]]
    /\ UNCHANGED width

Resize(nc) ==
    /\ nc # width
    /\ width' = nc /\ ranges' = Reflowed(nc)
    /\ UNCHANGED painted

Next ==
    \/ \E row \in DOMAIN ranges :
          \/ \E col \in InLine(width, row), id \in Links : Put(row, col, id)
          \/ \E from, to \in InLine(width, row) : from <= to /\ Erase(row, from, to)
    \/ \E nc \in Widths : Resize(nc)

Spec == Init /\ [][Next]_rangesVars

\* The ranges of every row are closed, in order and apart (what grid.c verifies in
\* debug builds), and say of every cell what it was last given, however ranges are
\* cut, joined and wrapped.
RangesAreAsPut ==
    \A row \in DOMAIN ranges :
       LET v == ranges[row]
           at(c) == {v[k].id : k \in {k \in DOMAIN v : c \in v[k].start .. v[k].end}}
       IN /\ \A k \in DOMAIN v : 0 <= v[k].start /\ v[k].start <= v[k].end /\ v[k].end < width
          /\ \A k \in 2 .. Len(v) : v[k - 1].end < v[k].start
          /\ \A c \in InLine(width, row) : at(c) = {painted[row * width + c]} \ {None}
===============================================================================
