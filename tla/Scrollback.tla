---------------------------- MODULE Scrollback ----------------------------
(* The normal grid of a terminal (grid.c, terminal.c, commands.c, search.c,  *)
(* selection.c): a ring of rows, of which the screen is the part from offset *)
(* on and the rows before it are the scrollback; the user's view of it; the  *)
(* rows that are selected; and the search and URL modes, which remember or   *)
(* hold the view while output goes on. The ring implements ScreenLog.        *)
(* Of a row's content only its prompt marker is kept: it moves with the row. *)
(* Rows, the number of rows of the screen and columns do not change (no      *)
(* resize). Cursor and scrolling region are the arguments of the scrolls:    *)
(* between two of them the application may set both.                         *)
EXTENDS Integers, Sequences, SequencesExt

CONSTANTS NumRows,      \* grid->num_rows, a power of two
          ScreenRows,   \* term->rows
          Selects,      \* BOOLEAN, a bound: the user selects
          Modes,        \* a bound: the modes used, of {"normal", "search", "urls"}
          Laps,         \* a bound: times round the ring of a selection's row
          Admitted      \* the known defects that are not left out

Defects == {"reordered", "moved selection", "dangling start", "stale view",
            "overtaken view", "wrapped prompt"}

ASSUME GridAssumption ==
  /\ NumRows \in Nat \ {0} /\ ScreenRows \in 1..NumRows
  /\ Selects \in BOOLEAN /\ "normal" \in Modes /\ Modes \subseteq {"normal", "search", "urls"}
  /\ Laps \in Nat /\ Admitted \subseteq Defects

VARIABLES rows,      \* grid->rows: "none" is NULL
          offset, view,
          sel,       \* selection: ongoing, and the rows of coords, unmasked
          mode,
          original   \* search.original_view, -1 for view_followed_offset

vars == <<rows, offset, view, sel, mode, original>>

Rows == 0..NumRows - 1
Screen == 0..ScreenRows - 1
NoSelection == [start |-> -1, end |-> -1, ongoing |-> FALSE]

Least(a, b) == IF a < b THEN a ELSE b
Greatest(a, b) == IF a > b THEN a ELSE b

(* ----- Coordinates: absolute, and relative to the scrollback's start ----- *)

\* row & (num_rows - 1)
Wrap(row) == row % NumRows

AbsToSb(off, row) == Wrap(row - (off + ScreenRows))
SbToAbs(off, row) == Wrap(row + off + ScreenRows)

\* grid_sb_start_ignore_uninitialized()
SbStart == SbToAbs(offset, Min({k \in Rows: rows[SbToAbs(offset, k)] # "none"}))

FromSbStart(row) == Wrap(row - SbStart)

TypeOK ==
  /\ rows \in [Rows -> {"none", "plain", "prompt"}]
  /\ offset \in Rows /\ view \in Rows
  /\ sel \in [start: -1..Laps * NumRows, end: -1..Laps * NumRows, ongoing: BOOLEAN]
  /\ mode \in Modes
  /\ original \in Rows \cup {-1}

(* ------------------------------ Selection -------------------------------- *)

Top(s) == Least(AbsToSb(offset, s.start), AbsToSb(offset, s.end))
Bottom(s) == Greatest(AbsToSb(offset, s.start), AbsToSb(offset, s.end))

\* selection_on_rows(): the selection and screen rows a..b have a row in common
SelectionOn(s, a, b) ==
  LET first == AbsToSb(offset, offset + a)
      last == AbsToSb(offset, offset + b)
  IN \/ first <= Top(s) /\ Top(s) <= last
     \/ first <= Bottom(s) /\ Bottom(s) <= last
     \/ Top(s) <= first /\ last <= Bottom(s)

\* Mutant: only the rows above the region are looked at
OnRowsAbove(s, from, to) == from > 0 /\ SelectionOn(s, 0, from - 1)

\* The rows above and below the scrolling region from..to - 1 do not scroll
OnFixedRows(s, from, to) ==
  \/ from > 0 /\ SelectionOn(s, 0, from - 1)
  \/ to < ScreenRows /\ SelectionOn(s, to, ScreenRows - 1)

\* What is left of selection s before the region scrolls up, or down, by n
KeptUp(s, from, to, n) ==
  IF s.end >= 0 /\ (OnFixedRows(s, from, to) \/ Top(s) - n < 0) THEN NoSelection ELSE s

KeptDown(s, from, to, n) ==
  IF s.end >= 0 /\ (OnFixedRows(s, from, to)
                      \/ Bottom(s) > AbsToSb(offset, offset + ScreenRows - 1) - n)
  THEN NoSelection ELSE s

\* selection_view_down(), selection_view_up(): the view moves from old to new
ViewDown(s, new, old) ==
  IF s.start < 0 \/ new > old THEN s
  ELSE [s EXCEPT !.start = Wrap(@), !.end = IF @ >= 0 THEN Wrap(@) ELSE @]

ViewUp(s, new, old) ==
  IF s.start < 0 \/ new < old THEN s
  ELSE [s EXCEPT !.start = @ + NumRows, !.end = IF @ >= 0 THEN @ + NumRows ELSE @]

WithinLaps(s) == s.start < Laps * NumRows /\ s.end < Laps * NumRows

\* A button was pressed on a row and the pointer not moved yet. The code looks
\* only at selections that have an end; the scrolls that would cancel one that
\* starts and ends there are left out.
Held == [sel EXCEPT !.end = IF sel.end < 0 THEN sel.start ELSE sel.end]

Spares(kept) ==
  "dangling start" \in Admitted \/ ~sel.ongoing \/ sel.end >= 0 \/ kept # NoSelection

(* ------------------------------- Scrolling ------------------------------- *)

\* grid_swap_row()
RowsSwapped(ring, pair) == [ring EXCEPT ![pair[1]] = ring[pair[2]], ![pair[2]] = ring[pair[1]]]

\* Mutant: the loops that swap the fixed rows count in the other direction
SwappedUpwards(ring, pairs) == FoldRight(LAMBDA p, r: RowsSwapped(r, p), pairs, ring)

\* A loop of term_scroll_partial() or term_scroll_reverse_partial() that swaps the fixed
\* rows, pair by pair in turn
Swapped(ring, pairs) ==
  LET after[k \in 0..Len(pairs)] == IF k = 0 THEN ring ELSE RowsSwapped(after[k - 1], pairs[k])
  IN after[Len(pairs)]

\* erase_line() on rows that are allocated if need be
Erased(ring, erased) == [r \in Rows |-> IF r \in erased THEN "plain" ELSE ring[r]]

\* cmd_scrollback_down() by n lines: where the view is then
LoweredView(off, n) ==
  IF mode = "urls" THEN view ELSE Wrap(view + Least(n, Wrap(off - view)))

\* term_scroll_partial()
TermScrollPartial(from, to, n) ==
  LET off == Wrap(offset + n)
      Abs(i) == Wrap(off + i)
      above == [k \in 1..from |-> <<Abs(from - k - n), Abs(from - k)>>]
      below == [k \in 1..ScreenRows - to |-> <<Abs(ScreenRows - k - n), Abs(ScreenRows - k)>>]
      kept == KeptUp(sel, from, to, n)
      distance == AbsToSb(offset, view)
      follows == view = offset
      scrolledOut == ~follows /\ n > distance
  IN
  /\ "reordered" \in Admitted \/ from % n = 0
  /\ "moved selection" \in Admitted \/ from = 0
       \/ sel.start < 0 \/ kept = NoSelection \/ ~SelectionOn(kept, from, from + n - 1)
  /\ "stale view" \in Admitted \/ ~(scrolledOut /\ mode = "urls")
  /\ "overtaken view" \in Admitted \/ follows \/ off # view
  /\ Spares(KeptUp(Held, from, to, n))
  /\ offset' = off
  /\ rows' = Erased(Swapped(Swapped(rows, above), below), {Abs(i): i \in to - n..to - 1})
  /\ view' = IF follows THEN off
             ELSE IF scrolledOut THEN LoweredView(off, n - distance)
             ELSE view
  /\ sel' = IF follows THEN ViewDown(kept, off, view)
            ELSE IF scrolledOut THEN ViewDown(kept, SbToAbs(off, 0), view)
            ELSE kept
  /\ UNCHANGED <<mode, original>>

\* term_scroll_reverse_partial()
TermScrollReversePartial(from, to, n) ==
  LET off == Wrap(offset - n)
      Abs(i) == Wrap(off + i)
      freed == [r \in Rows |-> IF \E i \in to - n..to - 1: r = Wrap(offset + i)
                               THEN "none" ELSE rows[r]]
      below == [k \in 1..ScreenRows - to |-> <<Abs(to + n + k - 1), Abs(to + k - 1)>>]
      above == [k \in 1..from |-> <<Abs(n + k - 1), Abs(k - 1)>>]
      kept == KeptDown(sel, from, to, n)
      lost == Least(n, NumRows - ScreenRows)
      moves == view = offset \/ AbsToSb(off, view) > AbsToSb(off, off)
  IN
  /\ "moved selection" \in Admitted \/ sel.start < 0 \/ kept = NoSelection
       \/ ~(SelectionOn(kept, to - n, to - 1) \/ (lost > 0 /\ SelectionOn(kept, -lost, -1)))
  /\ Spares(KeptDown(Held, from, to, n))
  /\ offset' = off
  /\ rows' = Erased(Swapped(Swapped(freed, below), above), {Abs(i): i \in from..from + n - 1})
  /\ view' = IF moves THEN off ELSE view
  /\ sel' = IF moves THEN ViewUp(kept, off, view) ELSE kept
  /\ WithinLaps(sel')
  /\ UNCHANGED <<mode, original>>

\* OSC 133;A
MarkPrompt(i) ==
  /\ rows' = [rows EXCEPT ![Wrap(offset + i)] = "prompt"]
  /\ UNCHANGED <<offset, view, sel, mode, original>>

(* ------------------------- Erasing and resetting ------------------------- *)

History == {Wrap(offset + i): i \in ScreenRows..NumRows - 1}

\* selection_cancel() if s touches the scrollback
KeptErasing(s) ==
  LET last == AbsToSb(offset, offset - 1)
      start == AbsToSb(offset, s.start)
      end == AbsToSb(offset, s.end)
  IN IF s.end >= 0 /\ ((start <= last /\ end >= last) \/ end <= last) THEN NoSelection ELSE s

\* Mutant: the view stays where it was
TermEraseScrollbackKeepsView ==
  /\ NumRows > ScreenRows
  /\ Spares(KeptErasing(Held))
  /\ rows' = [r \in Rows |-> IF r \in History THEN "none" ELSE rows[r]]
  /\ sel' = KeptErasing(sel)
  /\ UNCHANGED <<offset, view, mode, original>>

TermEraseScrollback ==
  /\ NumRows > ScreenRows
  /\ Spares(KeptErasing(Held))
  /\ rows' = [r \in Rows |-> IF r \in History THEN "none" ELSE rows[r]]
  /\ view' = offset
  /\ sel' = KeptErasing(sel)
  /\ UNCHANGED <<offset, mode, original>>

\* term_reset(), hard
TermReset ==
  /\ rows' = [r \in Rows |-> IF r \in Screen THEN "plain" ELSE "none"]
  /\ offset' = 0 /\ view' = 0
  /\ sel' = NoSelection
  /\ UNCHANGED <<mode, original>>

(* ---------------------------- Moving the view ---------------------------- *)

CmdScrollbackUp(n) ==
  LET k == Least(n, FromSbStart(view))
      new == Wrap(view - k)
  IN
  /\ mode # "urls" /\ k > 0
  /\ sel' = ViewUp(sel, new, view) /\ WithinLaps(sel')
  /\ view' = new
  /\ UNCHANGED <<rows, offset, mode, original>>

CmdScrollbackDown(n) ==
  LET new == LoweredView(offset, n) IN
  /\ mode # "urls" /\ new # view
  /\ sel' = ViewDown(sel, new, view)
  /\ view' = new
  /\ UNCHANGED <<rows, offset, mode, original>>

\* The view goes to the nearest prompt above it
PromptPrev ==
  LET above == {k \in Rows: k < FromSbStart(view) /\ rows[Wrap(SbStart + k)] = "prompt"} IN
  /\ mode = "normal" /\ above # {}
  /\ view' = Wrap(SbStart + Max(above))
  /\ UNCHANGED <<rows, offset, sel, mode, original>>

\* Mutant: the loop does not end at the last row of the screen
PromptNextWithoutEnd ==
  LET stops == {k \in 1..NumRows - 1: rows[Wrap(view + k)] = "prompt"}
      row == Wrap(view + Min(stops))
  IN
  /\ mode = "normal" /\ view # offset
  /\ stops # {}
  /\ \A k \in 1..Min(stops): rows[Wrap(view + k)] # "none"
  /\ view' = Wrap(SbStart + Least(FromSbStart(offset), FromSbStart(row)))
  /\ UNCHANGED <<rows, offset, sel, mode, original>>

\* The loop over the rows below the view ends at a prompt, or at the last row
\* of the screen, whose number it does not wrap: it may run past the last row.
PromptNext ==
  LET stops == {k \in 1..NumRows: LET r == Wrap(view + k) IN
                  rows[r] = "prompt" \/ r = offset + ScreenRows - 1}
      row == Wrap(view + Min(stops))
  IN
  /\ mode = "normal" /\ view # offset
  /\ stops # {}
  /\ \A k \in 1..Min(stops): rows[Wrap(view + k)] # "none"
  /\ "wrapped prompt" \in Admitted
       \/ Min(stops) <= Wrap(offset - view) + ScreenRows - 1
  /\ rows[row] = "prompt"
  /\ view' = Wrap(SbStart + Least(FromSbStart(offset), FromSbStart(row)))
  /\ UNCHANGED <<rows, offset, sel, mode, original>>

\* A paste key: term_reset_view() and the selection stays
ResetView ==
  /\ mode = "normal" /\ view # offset
  /\ view' = offset
  /\ UNCHANGED <<rows, offset, sel, mode, original>>

\* A key that is sent to the application
KeyPressed ==
  /\ mode = "normal"
  /\ view' = offset /\ sel' = NoSelection
  /\ UNCHANGED <<rows, offset, mode, original>>

(* ------------------------------- Selecting ------------------------------- *)

\* Any button pressed on the grid ends the search and URL modes first
ButtonPressed ==
  /\ mode # "normal"
  /\ sel' = IF mode = "search" THEN NoSelection ELSE sel
  /\ mode' = "normal" /\ original' = -1
  /\ UNCHANGED <<rows, offset, view>>

\* A button pressed on row i of the view
SelectionStart(i) ==
  /\ Selects
  /\ sel' = [start |-> view + i, end |-> -1, ongoing |-> TRUE]
  /\ mode' = "normal" /\ original' = -1
  /\ UNCHANGED <<rows, offset, view>>

\* The pointer moves to row i with the button held
SelectionUpdate(i) ==
  /\ mode # "search" /\ sel.start >= 0 /\ sel.ongoing
  /\ sel' = [sel EXCEPT !.end = view + i]
  /\ UNCHANGED <<rows, offset, view, mode, original>>

\* The end of the selection that is nearer to row i moves there, which of them
\* inside of it depends on the columns. Nothing moves where an end is already.
SelectionExtend(i) ==
  LET row == AbsToSb(offset, view + i)
      stay == {fixed \in {sel.start, sel.end}:
                 /\ row < Top(sel) => AbsToSb(offset, fixed) = Bottom(sel)
                 /\ row > Bottom(sel) => AbsToSb(offset, fixed) = Top(sel)}
  IN
  /\ mode # "search" /\ sel.start >= 0 /\ sel.end >= 0
  /\ \/ \E fixed \in stay: sel' = [start |-> fixed, end |-> view + i, ongoing |-> TRUE]
     \/ view + i \in {sel.start, sel.end} /\ sel' = [sel EXCEPT !.ongoing = TRUE]
  /\ mode' = "normal" /\ original' = -1
  /\ UNCHANGED <<rows, offset, view>>

Finalized(s) ==
  IF ~s.ongoing THEN s
  ELSE IF s.end < 0 THEN [s EXCEPT !.ongoing = FALSE]
  ELSE [start |-> Wrap(s.start), end |-> Wrap(s.end), ongoing |-> FALSE]

\* The button is released, or the pointer leaves the window
SelectionFinalize ==
  /\ sel' = Finalized(sel)
  /\ UNCHANGED <<rows, offset, view, mode, original>>

(* --------------------------- Search, URL mode ---------------------------- *)

SearchBegin ==
  /\ mode = "normal" /\ "search" \in Modes
  /\ mode' = "search"
  /\ original' = IF view = offset THEN -1 ELSE view
  /\ sel' = NoSelection
  /\ UNCHANGED <<rows, offset, view>>

\* A match on row r: the view moves there unless it shows it, and selects it
SearchUpdateSelection(r) ==
  LET viewEnd == Wrap(view + ScreenRows - 1)
      shown == IF viewEnd >= view THEN r >= view /\ r <= viewEnd
                                  ELSE r >= view \/ r <= viewEnd
      centred == Least(Greatest(AbsToSb(offset, r) - ScreenRows \div 2, 0), NumRows - ScreenRows)
      allocated == {k \in centred..NumRows - 1: rows[SbToAbs(offset, k)] # "none"}
      new == IF shown THEN view ELSE SbToAbs(offset, Min(allocated))
  IN
  /\ mode = "search" /\ rows[r] # "none"
  /\ view' = new
  /\ sel' = [start |-> new + Wrap(r - new), end |-> new + Wrap(r - new), ongoing |-> TRUE]
  /\ UNCHANGED <<rows, offset, mode, original>>

\* search_find_next() without a match
SearchFindsNothing ==
  /\ mode = "search"
  /\ sel' = NoSelection
  /\ UNCHANGED <<rows, offset, view, mode, original>>

\* ensure_view_is_allocated()
AllocatedView(v) ==
  LET forward == {k \in Rows: rows[Wrap(v + k)] # "none"}
      back == {k \in Rows: rows[Wrap(v + ScreenRows - 1 - k)] # "none"}
  IN IF rows[v] = "none" THEN Wrap(v + Min(forward)) ELSE Wrap(v - Min(back))

\* BIND_ACTION_SEARCH_CANCEL: back to where the view was
SearchCancel ==
  LET new == IF original = -1 THEN offset ELSE AllocatedView(original) IN
  /\ mode = "search"
  /\ "stale view" \in Admitted \/ Wrap(offset - new) <= NumRows - ScreenRows
  /\ view' = new
  /\ sel' = NoSelection
  /\ mode' = "normal" /\ original' = -1
  /\ UNCHANGED <<rows, offset>>

\* BIND_ACTION_SEARCH_COMMIT: the view and the match, now a selection, stay
SearchCommit ==
  /\ mode = "search"
  /\ sel' = Finalized(sel)
  /\ mode' = "normal" /\ original' = -1
  /\ UNCHANGED <<rows, offset, view>>

UrlsRender ==
  /\ mode = "normal" /\ "urls" \in Modes
  /\ mode' = "urls"
  /\ UNCHANGED <<rows, offset, view, sel, original>>

UrlsReset ==
  /\ mode = "urls"
  /\ mode' = "normal"
  /\ UNCHANGED <<rows, offset, view, sel, original>>

Init ==
  /\ rows = [r \in Rows |-> IF r \in Screen THEN "plain" ELSE "none"]
  /\ offset = 0 /\ view = 0
  /\ sel = NoSelection
  /\ mode = "normal" /\ original = -1

Next ==
  \/ \E from \in Screen, to \in 1..ScreenRows, n \in 1..ScreenRows:
        from + n <= to /\ (TermScrollPartial(from, to, n) \/ TermScrollReversePartial(from, to, n))
  \/ \E i \in Screen: MarkPrompt(i) \/ SelectionStart(i) \/ SelectionUpdate(i) \/ SelectionExtend(i)
  \/ \E n \in 1..NumRows: CmdScrollbackUp(n) \/ CmdScrollbackDown(n)
  \/ \E r \in Rows: SearchUpdateSelection(r)
  \/ TermEraseScrollback \/ TermReset
  \/ PromptPrev \/ PromptNext \/ ResetView \/ KeyPressed
  \/ ButtonPressed \/ SelectionFinalize
  \/ SearchBegin \/ SearchFindsNothing \/ SearchCancel \/ SearchCommit
  \/ UrlsRender \/ UrlsReset

Spec == Init /\ [][Next]_vars

(* ------------------------------ Properties ------------------------------- *)

\* Every row of a selection is allocated, also of one under way that has only a
\* start: selection_update(), foreach_selected() follow their pointers.
SelectionAllocated ==
  sel.end >= 0 \/ sel.ongoing =>
    \A k \in Top(Held)..Bottom(Held): rows[SbToAbs(offset, k)] # "none"

\* The rows of the screen, of the view and of a selection are allocated, and so
\* is everything from the scrollback's first row on: no pointer that is followed
\* when a frame is rendered, or when the view is scrolled, is NULL. The view is
\* between the start of the scrollback and the screen.
RowsAllocated ==
  /\ \A i \in Screen: rows[Wrap(offset + i)] # "none" /\ rows[Wrap(view + i)] # "none"
  /\ \A k \in FromSbStart(SbStart)..FromSbStart(offset): rows[Wrap(SbStart + k)] # "none"
  /\ FromSbStart(view) <= FromSbStart(offset)
  /\ SelectionAllocated

\* What is selected stays the same text when output scrolls the terminal or
\* the view moves: the same rows of the scrollback, or nothing is selected.
SelectedRows(s) == {SbToAbs(offset, k): k \in Top(s)..Bottom(s)}

SelectionStays ==
  [][(sel.end >= 0 /\ sel'.end >= 0 /\ Wrap(sel.start) = Wrap(sel'.start)
        /\ Wrap(sel.end) = Wrap(sel'.end)
        /\ ~\E i \in Screen: MarkPrompt(i))
     => \A r \in SelectedRows(sel): rows'[r] = rows[r]]_vars

\* The key for the next prompt (input.c) always moves the view down, the one
\* for the previous prompt up, wherever in the ring the scrollback lies.
PromptKeysMove ==
  /\ PromptNext => FromSbStart(view') > FromSbStart(view)
  /\ PromptPrev => FromSbStart(view') < FromSbStart(view)

(* The ring as a history, a screen and a distance of the view from it. *)
HistoryRows == NumRows - ScreenRows
LogHistory == [k \in 1..FromSbStart(offset) |-> rows[Wrap(SbStart + k - 1)]]
LogScreen == [i \in 1..ScreenRows |-> rows[Wrap(offset + i - 1)]]
LogBack == Wrap(offset - view)

Log == INSTANCE ScreenLog WITH history <- LogHistory, screen <- LogScreen, back <- LogBack

\* Whatever the scrolls swap, free and allocate in the ring, they do to the
\* lines what ScreenLog says: none is lost, kept, moved or shown wrongly.
ImplementsScreenLog == Log!Spec
=============================================================================
