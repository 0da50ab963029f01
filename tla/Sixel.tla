--------------------------------- MODULE Sixel ---------------------------------
(***************************************************************************)
(* The sixel images of a grid (sixel.c).  An image is a rectangle of cells *)
(* at an absolute row of the ring.  Text printed over an image, and images *)
(* drawn over it, cut it into up to four rectangles; lines that leave the  *)
(* ring take the images on them along.  The list is kept free of overlaps  *)
(* and sorted on the rows that the images end at, and every walk over it   *)
(* relies on that.                                                         *)
(*                                                                         *)
(* Pixels are not modelled: an image has as many cells as it touches.      *)
(***************************************************************************)
EXTENDS Integers, Sequences, FiniteSets, SequencesExt, FiniteSetsExt

CONSTANTS
    Ring,       \* grid->num_rows
    Heights,    \* the values of term->rows, of at most Ring
    Cols,       \* term->cols
    MaxImages,  \* bound on the images drawn
    MaxChanges, \* bound on the times text overwrites images or the window is resized
    Admitted    \* see below

\* What is known to misplace images, unless it is left out.  With sixel scrolling
\* off, an image that meets the end of the ring goes on above its first part; below
\* the scrolling region, linefeeds do not make room for an image, and the fixed
\* rows leave their images behind; erasing several rows erases the images on
\* the last of them whole; scrolling backwards takes lines of the scrollback for the
\* blank lines, with the images on them.
Defects == {"no scrolling", "below the region", "several rows", "reverse"}

VARIABLES
    g,       \* term->grid, the size of the screen and the bottom of its scrolling region
    shown,   \* the image last drawn at each cell since it was last overwritten, or 0
    cut,     \* the images of which a part left the ring, and what it was connected to
    images, changes  \* how many images were drawn, how often they were changed

sixelVars == <<g, shown, cut, images, changes>>

End(r) == r.row + r.rows - 1
Right(r) == r.col + r.cols - 1
Rect(id, row, col, height, width) ==
    [id |-> id, row |-> row, col |-> col, rows |-> height, cols |-> width]
Cells(r) == (r.row .. End(r)) \X (r.col .. Right(r))
Ids(list) == {list[k].id : k \in DOMAIN list}

\* grid_row_abs_to_sb(), grid_row_sb_to_abs()
AbsToSb(v, row) == (row - (v.offset + v.rows) + 2 * Ring) % Ring
SbToAbs(v, row) == (row + v.offset + v.rows) % Ring
RowAt(v, row) == (v.offset + row + Ring) % Ring

(***************************************************************************)
(* The list                                                                *)
(***************************************************************************)

\* sixel_insert()
Insert(v, six) ==
    LET higher == {k \in DOMAIN v.sixels : AbsToSb(v, End(v.sixels[k])) < AbsToSb(v, End(six))}
    IN [v EXCEPT !.sixels = InsertAt(@, Min(higher \cup {Len(@) + 1}), six)]

\* What sixel_overwrite() keeps of an image: the bands of the region that is left,
\* from top to bottom.
Remainder(six, r) ==
    LET top == Max({six.row, r.row})
        bottom == Min({End(six), End(r)})
        Piece(row, col, last, right) == Rect(six.id, row, col, last - row + 1, right - col + 1)
        pieces == << Piece(six.row, six.col, r.row - 1, Right(six)),
                     Piece(top, six.col, bottom, r.col - 1),
                     Piece(top, Right(r) + 1, bottom, Right(six)),
                     Piece(End(r) + 1, six.col, End(six), Right(six)) >>
    IN SelectSeq(pieces, LAMBDA p : p.rows > 0 /\ p.cols > 0)

Meet(six, r) ==
    /\ r.row <= End(six) /\ six.row <= End(r)
    /\ r.col <= Right(six) /\ six.col <= Right(r)

\* Mutant of OverwriteAt: the walk goes on only while the images start below the
\* rectangle's first row.
OverwriteAtStart(v, r) ==
    LET before == {k \in DOMAIN v.sixels : AbsToSb(v, v.sixels[k].row) < AbsToSb(v, r.row)}
        met == SelectSeq(SubSeq(v.sixels, 1, Min(before \cup {Len(v.sixels) + 1}) - 1),
                         LAMBDA six : Meet(six, r))
    IN FoldLeft(LAMBDA w, six : FoldLeft(Insert, [w EXCEPT !.sixels = Remove(@, six)],
                                         Remainder(six, r)),
                v, met)

\* _sixel_overwrite_by_rectangle(): the walk ends at the first image that ends above
\* the rectangle.  Where the pieces of an image are inserted does not matter to the
\* walk: they do not meet the rectangle.
OverwriteAt(v, r) ==
    LET before == {k \in DOMAIN v.sixels : AbsToSb(v, End(v.sixels[k])) < AbsToSb(v, r.row)}
        met == SelectSeq(SubSeq(v.sixels, 1, Min(before \cup {Len(v.sixels) + 1}) - 1),
                         LAMBDA six : Meet(six, r))
    IN FoldLeft(LAMBDA w, six : FoldLeft(Insert, [w EXCEPT !.sixels = Remove(@, six)],
                                         Remainder(six, r)),
                v, met)

\* sixel_overwrite_by_rectangle(), and sixel_overwrite_by_row() for one row: row is on
\* the screen.
Overwrite(v, row, col, height, width) ==
    LET start == RowAt(v, row)
        till == Ring - start
    IN IF height > till
       THEN OverwriteAt(OverwriteAt(v, Rect(0, start, col, till, width)),
                        Rect(0, 0, col, height - till, width))
       ELSE OverwriteAt(v, Rect(0, start, col, height, width))

\* sixel_scroll_up()
ScrollUp(v, n) ==
    [v EXCEPT !.sixels = SelectSeq(@, LAMBDA six : AbsToSb(v, six.row) >= n)]

\* sixel_scroll_down()
ScrollDown(v, n) ==
    LET above == {k \in DOMAIN v.sixels : AbsToSb(v, End(v.sixels[k])) < Ring - n}
        stay == Min(above \cup {Len(v.sixels) + 1})
    IN [v EXCEPT !.sixels = SubSeq(@, stay, Len(@))]

(***************************************************************************)
(* The screen.  A step is [g, shown, cut]: what is shown is kept beside    *)
(* what the list says.                                                     *)
(***************************************************************************)

Here == [g |-> g, shown |-> shown, cut |-> cut]

Painted(s, cells, id) == [s EXCEPT !.shown = [c \in DOMAIN @ |-> IF c \in cells THEN id ELSE @[c]]]

\* The images that a step drops from the list have lost a part.
Dropping(s, v, cleared) ==
    LET gone == ToSet(s.g.sixels) \ ToSet(v.sixels)
    IN [Painted(s, {c \in DOMAIN s.shown : c[1] \in cleared}, 0)
        EXCEPT !.g = v, !.cut = @ \cup {six.id : six \in gone}]

\* term_scroll_partial(): the rows below the region move along with the screen.
Scroll(s, n) ==
    LET moved == [ScrollUp(s.g, n) EXCEPT !.offset = RowAt(s.g, n)]
        fixed == {RowAt(moved, i) : i \in s.g.region .. s.g.rows - 1}
        fresh == {RowAt(moved, i) : i \in s.g.region - n .. s.g.region - 1}
        kept == [s EXCEPT !.shown = [c \in DOMAIN @ |->
                                       IF c[1] \in fixed THEN @[<<(c[1] - n + Ring) % Ring, c[2]>>]
                                       ELSE @[c]]]
    IN Dropping(kept, moved, fresh)

\* term_linefeed(), with the cursor in row
Linefeed(s, row) == IF row = s.g.region - 1 THEN Scroll(s, 1) ELSE s
RowBelow(s, row) == IF row = s.g.region - 1 THEN row ELSE Min({row + 1, s.g.rows - 1})

\* One chunk of an image: up to the end of the ring.  e is the screen, the rows left of
\* the image and the rows it may still use, and the row of the screen the
\* chunk starts at.
Chunk(e, id, col, width, scrolling) ==
    LET cur == RowAt(e.s.g, e.start)
        height == Min({e.left, e.avail, Ring - cur})
        linefeeds == IF ~scrolling THEN 0
                     ELSE IF e.avail = height THEN height - 1 ELSE height
        fed == FoldLeft(LAMBDA f, k : [s |-> Linefeed(f.s, f.row), row |-> RowBelow(f.s, f.row)],
                        [s |-> e.s, row |-> e.start], [k \in 1 .. linefeeds |-> k])
        r == Rect(id, cur, col, height, width)
    IN [s |-> [fed.s EXCEPT !.g = Insert(OverwriteAt(@, r), r)],
        left |-> e.left - height, avail |-> e.avail - height,
        start |-> IF scrolling THEN fed.row ELSE e.start - height]

\* The loop of sixel_unhook().
Chunks(e, id, col, width, scrolling) ==
    FoldLeft(LAMBDA f, k : IF f.left > 0 /\ f.avail > 0
                           THEN Chunk(f, id, col, width, scrolling) ELSE f,
             e, [k \in 1 .. Ring |-> k])

(***************************************************************************)
(* What a grid goes through                                                *)
(***************************************************************************)

Init ==
    /\ g \in {[offset |-> 0, rows |-> h, region |-> h, sixels |-> <<>>] : h \in Heights}
    /\ shown = [c \in (0 .. Ring - 1) \X (0 .. 2 * Cols - 1) |-> 0]
    /\ cut = {} /\ images = 0 /\ changes = 0

FixedRowsAreClear == \A r \in g.region .. g.rows - 1, c \in 0 .. Cols - 1 : shown[<<RowAt(g, r), c>>] = 0

Becomes(s) == g' = s.g /\ shown' = s.shown /\ cut' = s.cut

\* sixel_unhook(), with the cursor anywhere: an image that does not fit in the ring is
\* not shown.
Unhook(row, col, height, width, scrolling) ==
    /\ images < MaxImages
    /\ "no scrolling" \in Admitted \/ scrolling \/ g.offset + Min({height, g.region}) <= Ring
    /\ \/ "below the region" \in Admitted
       \/ row < g.region /\ FixedRowsAreClear /\ height <= Ring - (g.rows - g.region)
    /\ images' = images + 1
    /\ LET start == IF scrolling THEN row ELSE 0
           left == IF scrolling THEN col ELSE 0
           avail == IF scrolling THEN height ELSE g.region
           drawn == Chunks([s |-> Here, left |-> height, avail |-> avail, start |-> start],
                           images + 1, left, width, scrolling).s
           rows == {RowAt(g, start + k) : k \in 0 .. Min({height, avail}) - 1}
       IN IF height > Ring THEN UNCHANGED <<g, shown, cut>>
          ELSE Becomes(Painted(drawn, rows \X (left .. left + width - 1), images + 1))
    /\ UNCHANGED changes

\* sixel_overwrite_at_cursor(), an erased part of a line, and a rectangle that is
\* filled (DECERA, DECFRA, DECALN): the part of it that is on the screen.
OverwriteRect(row, col, height, width) ==
    /\ g.sixels # <<>> /\ changes < MaxChanges
    /\ g' = Overwrite(g, row, col, height, width)
    /\ shown' = Painted(Here, {RowAt(g, r) : r \in row .. row + height - 1} \X (col .. col + width - 1),
                        0).shown
    /\ changes' = changes + 1
    /\ UNCHANGED <<cut, images>>

\* term_erase() of several rows: the rectangle is a row too high.
EraseRows(from, col, to, last) ==
    /\ g.sixels # <<>> /\ changes < MaxChanges
    /\ LET first == Overwrite(g, from, col, 1, Cols - col)
           middle == Overwrite(first, from + 1, 0, to - from, Cols)
           all == Overwrite(middle, to, 0, 1, last + 1)
       IN g' = all
    /\ LET blanks == ({RowAt(g, from)} \X (col .. Cols - 1))
                     \cup ({RowAt(g, r) : r \in from + 1 .. to - 1} \X (0 .. Cols - 1))
                     \cup ({RowAt(g, to)} \X (0 .. last))
       IN /\ shown' = Painted(Here, blanks, 0).shown
          /\ "several rows" \in Admitted
             \/ \A c \in last + 1 .. Cols - 1 : shown[<<RowAt(g, to), c>>] = 0
    /\ changes' = changes + 1
    /\ UNCHANGED <<cut, images>>

\* term_scroll()
TermScroll(n) ==
    /\ n <= g.region
    /\ "below the region" \in Admitted \/ FixedRowsAreClear
    /\ Becomes(Scroll(Here, n))
    /\ UNCHANGED <<images, changes>>

\* term_scroll_reverse_partial(), of the whole screen
TermScrollReverse(n) ==
    /\ n <= g.rows /\ g.region = g.rows
    /\ LET moved == [ScrollDown(g, n) EXCEPT !.offset = RowAt(g, -n)]
           fresh == {RowAt(moved, i) : i \in 0 .. n - 1}
       IN /\ Becomes(Dropping(Here, moved, fresh \cup {RowAt(g, i) : i \in g.rows - n .. g.rows - 1}))
          /\ "reverse" \in Admitted \/ \A c \in DOMAIN shown : c[1] \in fresh => shown[c] = 0
    /\ UNCHANGED <<images, changes>>

\* term_erase_scrollback()
EraseScrollback ==
    LET history == Ring - g.rows
        touches(six) == AbsToSb(g, six.row) < history
    IN /\ history > 0
       /\ Becomes(Dropping(Here, [g EXCEPT !.sixels = SelectSeq(@, LAMBDA six : ~touches(six))],
                           {SbToAbs(g, k) : k \in 0 .. history - 1}))
       /\ UNCHANGED <<images, changes>>

\* DECSTBM
SetRegion(bottom) ==
    /\ changes < MaxChanges
    /\ g' = [g EXCEPT !.region = bottom]
    /\ changes' = changes + 1
    /\ UNCHANGED <<shown, cut, images>>

\* grid_resize_and_reflow() leaves each image at the new place of the row it began at, and
\* drops those whose row it dropped.  An image keeps its size, while lines are
\* joined and split.  The list is then in the order of the rows, and built
\* again from its end; an image that now crosses the end of the ring or of the
\* scrollback is dropped (sixel_reflow_grid()).
Reflow(height, offset, place) ==
    LET sized == [g EXCEPT !.rows = height, !.region = height, !.offset = offset, !.sixels = <<>>]
        listed == SortSeq(SelectSeq(g.sixels, LAMBDA six : AbsToSb(g, six.row) \in DOMAIN place),
                          LAMBDA a, b : AbsToSb(g, a.row) < AbsToSb(g, b.row))
        moved == [k \in DOMAIN listed |->
                    [listed[k] EXCEPT !.row = SbToAbs(sized, place[AbsToSb(g, listed[k].row)])]]
        fits(six) == End(six) < Ring /\ AbsToSb(sized, six.row) <= AbsToSb(sized, End(six))
        add(s, six) ==
            IF fits(six) THEN Painted([s EXCEPT !.g = Insert(OverwriteAt(@, six), six)], Cells(six), six.id)
            ELSE [s EXCEPT !.cut = @ \cup {six.id}]
        empty == Painted([Here EXCEPT !.g = sized, !.cut = Ids(g.sixels) \ Ids(moved)],
                         DOMAIN shown, 0)
    IN /\ changes < MaxChanges /\ g.sixels # <<>>
       /\ Becomes(FoldLeft(add, empty, Reverse(moved)))
       /\ changes' = changes + 1
       /\ UNCHANGED images

\* The rows that images begin at, in the scrollback, and where the text at them may be
\* after a resize: in the same order, and the oldest may be gone.
Starts == {AbsToSb(g, g.sixels[k].row) : k \in DOMAIN g.sixels}
Places ==
    {place \in UNION {[kept -> 0 .. Ring - 1] : kept \in SUBSET Starts} :
       /\ \A a \in DOMAIN place, b \in Starts : a < b => b \in DOMAIN place
       /\ \A a, b \in DOMAIN place : a < b => place[a] <= place[b]}

OnScreen == 0 .. g.rows - 1
Columns == 0 .. Cols - 1

Next ==
    \/ \E row \in OnScreen, col \in Columns, height \in 1 .. Ring + 1, width \in 1 .. Cols,
          scrolling \in BOOLEAN : Unhook(row, col, height, width, scrolling)
    \/ \E row \in OnScreen, col \in Columns, height \in 1 .. g.rows, width \in 1 .. Cols :
          /\ row + height <= g.rows /\ col + width <= Cols
          /\ OverwriteRect(row, col, height, width)
    \/ \E from, to \in OnScreen, col, last \in Columns :
          from < to /\ EraseRows(from, col, to, last)
    \/ \E n \in 1 .. g.region : TermScroll(n) \/ TermScrollReverse(n)
    \/ EraseScrollback
    \/ \E bottom \in 1 .. g.rows : SetRegion(bottom)
    \/ \E height \in Heights, offset \in {0, Ring - 1}, place \in Places :
          Reflow(height, offset, place)

Spec == Init /\ [][Next]_sixelVars

(***************************************************************************)
(* Properties                                                              *)
(***************************************************************************)

\* What verify_sixels() asserts in debug builds: images meet neither each other nor the
\* end of the ring or of the scrollback, and are sorted on their last rows.
ListIsSound ==
    \A k \in DOMAIN g.sixels :
       LET six == g.sixels[k]
       IN /\ six.row >= 0 /\ End(six) < Ring
          /\ AbsToSb(g, six.row) <= AbsToSb(g, End(six))
          /\ \A j \in DOMAIN g.sixels :
                j < k => /\ AbsToSb(g, End(g.sixels[j])) >= AbsToSb(g, End(six))
                         /\ ~Meet(g.sixels[j], six)

\* The list is sound, and at each cell is the image that was drawn there last, unless
\* the cell was overwritten since; or nothing, when the image had lost other parts
\* with the lines that left the ring.
ImagesAreAsDrawn ==
    /\ ListIsSound
    /\ \A c \in DOMAIN shown :
          LET at == {g.sixels[k].id : k \in {k \in DOMAIN g.sixels : c \in Cells(g.sixels[k])}}
          IN at = {shown[c]} \ {0} \/ (at = {} /\ shown[c] \in cut)
===============================================================================
