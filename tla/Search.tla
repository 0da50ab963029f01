-------------------------------- MODULE Search --------------------------------
(***************************************************************************)
(* Searching the scrollback (search.c): the text that is looked for and    *)
(* its cursor, finding it forwards and backwards around the ring of rows,  *)
(* the selection and the view that follow it, extending what was found by  *)
(* characters, words and lines, and pasting, while output scrolls the ring *)
(* and applications switch screens.                                        *)
(*                                                                         *)
(* A cell is the sequence of its characters: none if it is empty, several  *)
(* if they combine.  Tabs and the case of letters are not modelled.        *)
(***************************************************************************)
EXTENDS Integers, Sequences, FiniteSets

CONSTANTS
    Grids,    \* what the normal screen may hold: rings [rows, hard, cols, offset], a row that is not allocated is <<>>
    AltGrid,  \* what the alternate screen holds
    NewRows,  \* what output adds: [cells, hard]; hard is row->linebreak
    Delimiters, \* conf->word_delimiters
    Rows,     \* of the screen
    Typed,    \* the characters that are typed
    MaxScroll, \* bounds the rows that are scrolled in
    MaxLen,   \* bounds the text that is looked for
    MaxExtended, \* bounds it when it is extended
    MaxLast,  \* bounds it when a search ends
    Admitted  \* see below

\* What is known to go wrong, unless left out: a match begins in the newest row and ends in
\* the oldest; a match over the last and first row of the ring is taken to be in view, and its
\* selection turns around when it is extended; a line is extended onto the second half of a
\* wide character; a motion by words stops after a word of one character; the view
\* that a cancelled search returns to is a row's number, which another row, another screen
\* or nothing has by then; so is the match, after a resize; and what was pasted arrives after the search.
Defects == {"around the ring", "over the ring's end", "half a character", "short word",
            "cancelled too late", "resized", "pasted too late"}

VARIABLES
    grid,    \* "normal" and "alt": each a ring with its rows, offset and view
    screen,  \* which of them is shown
    search,  \* term.search
    sel,     \* term.selection.coords; its rows may exceed the ring, as the code's do
    pasting, \* whether the clipboard was asked for
    did      \* what the last step was: properties tell them apart

searchVars == <<grid, screen, search, sel, pasting, did>>

Nowhere == <<-1, -1>>
Spacer == <<"spacer">>
NoSel == [start |-> Nowhere, end |-> Nowhere, ongoing |-> FALSE]
Shown(g) == [rows |-> g.rows, hard |-> g.hard, cols |-> g.cols, offset |-> g.offset, view |-> g.offset]
G == grid[screen]
Size(g) == Len(g.rows)
Cols(g) == g.cols
Row(g, r) == g.rows[(r % Size(g)) + 1]
Hard(g, r) == g.hard[(r % Size(g)) + 1]
Cell(g, p) == Row(g, p[1])[p[2] + 1]

\* grid_row_abs_to_sb() and grid_row_sb_to_abs()
Rebased(g, r) == (r - g.offset - Rows) % Size(g)
Absolute(g, r) == (r + g.offset + Rows) % Size(g)
InView(g, r) == (r - g.view) % Size(g) < Rows

Before(p, q) == p[1] < q[1] \/ (p[1] = q[1] /\ p[2] < q[2])
NextCell(g, p) == IF p[2] + 1 < Cols(g) THEN <<p[1], p[2] + 1>> ELSE <<(p[1] + 1) % Size(g), 0>>
PrevCell(g, p) == IF p[2] > 0 THEN <<p[1], p[2] - 1>> ELSE <<(p[1] - 1) % Size(g), Cols(g) - 1>>

\* The characters of the cells from one to another: extract_one(), without its newlines.
RECURSIVE Reading(_, _, _)
Reading(g, p, q) ==
    LET c == Cell(g, p)
        chars == IF c = Spacer THEN <<>> ELSE IF c = <<>> THEN <<" ">> ELSE c
    IN IF p = q THEN chars ELSE chars \o Reading(g, NextCell(g, p), q)

\* matches_cell(): how many characters of the text, from the i-th, the cell stands for, if any.
MatchesCell(c, buf, i) ==
    LET chars == IF c = <<>> THEN <<" ">> ELSE c
    IN IF i + Len(chars) - 1 <= Len(buf) /\ SubSeq(buf, i, i + Len(chars) - 1) = chars THEN Len(chars) ELSE 0

\* Past the halves of a wide character that are in this row.
RECURSIVE PastSpacers(_, _)
PastSpacers(g, p) == IF p[2] < Cols(g) /\ Cell(g, p) = Spacer THEN PastSpacers(g, <<p[1], p[2] + 1>>) ELSE p

\* find_next()'s inner loop: where the text that begins at p, from its i-th character on, ends.
RECURSIVE MatchEnd(_, _, _, _)
MatchEnd(g, p, buf, i) ==
    LET on == PastSpacers(g, IF p[2] < Cols(g) THEN p ELSE <<(p[1] + 1) % Size(g), 0>>)
        n == MatchesCell(Cell(g, on), buf, i)
    IN CASE i > Len(buf) -> {<<p[1], p[2] - 1>>}
         [] i <= Len(buf) /\ p[2] = Cols(g) /\ Row(g, p[1] + 1) = <<>> -> {}
         [] OTHER -> IF on[2] = Cols(g) THEN MatchEnd(g, on, buf, i)
                     ELSE IF n = 0 THEN {} ELSE MatchEnd(g, PastSpacers(g, <<on[1], on[2] + 1>>), buf, i + n)

Matches(g, p, buf) ==
    {<<p, end>> : end \in IF MatchesCell(Cell(g, p), buf, 1) = 0 THEN {} ELSE MatchEnd(g, p, buf, 1)}

\* find_next(): from one cell on, to another; rows that are not allocated are passed over.
RECURSIVE FindNext(_, _, _, _, _)
FindNext(g, backward, p, last, buf) ==
    LET row == Row(g, p[1])
        next == IF backward THEN PrevCell(g, p) ELSE NextCell(g, p)
        matches == Matches(g, p, buf)
        nextRow == IF backward THEN <<(p[1] - 1) % Size(g), Cols(g) - 1>> ELSE <<(p[1] + 1) % Size(g), 0>>
    IN IF row = <<>>
       THEN IF p[1] = last[1] THEN {} ELSE FindNext(g, backward, nextRow, last, buf)
       ELSE IF matches # {} THEN matches
       ELSE IF p = last THEN {} ELSE FindNext(g, backward, next, last, buf)

\* search_matches_next(): the matches that begin in view, which are not dimmed
RECURSIVE Highlights(_, _, _)
Highlights(g, p, buf) ==
    LET last == <<(g.view + Rows - 1) % Size(g), Cols(g) - 1>>
        found == FindNext(g, FALSE, p, last, buf)
    IN {m[1] : m \in found}
       \cup UNION {IF m[1] = last THEN {} ELSE Highlights(g, NextCell(g, m[1]), buf) : m \in found}

---------------------------------------------------------------------------
(***************************************************************************)
(* The selection and the view                                              *)
(***************************************************************************)
NoMatch(s) == [s EXCEPT !.match = Nowhere, !.len = 0]

RECURSIVE Lead(_, _), Trail(_, _)
Lead(g, p) == IF p[2] > 0 /\ Cell(g, p) = Spacer THEN Lead(g, <<p[1], p[2] - 1>>) ELSE p
Trail(g, p) ==
    LET on == <<p[1], p[2] + 1>> IN IF on[2] < Cols(g) /\ Cell(g, on) = Spacer THEN Trail(g, on) ELSE p

\* search_update_selection(): where the view goes so that the match is in its middle, past
\* the rows that are not allocated.
ViewEnd(g) == (g.view + Rows - 1) % Size(g)
IsShown(g, m) ==
    IF ViewEnd(g) >= g.view THEN m[1][1] >= g.view /\ m[2][1] <= ViewEnd(g)
    ELSE m[1][1] >= g.view \/ m[2][1] <= ViewEnd(g)
Centred(g, r) ==
    LET half == Rebased(g, r) - Rows \div 2
        most == Size(g) - Rows
        from == IF half < 0 THEN 0 ELSE IF half > most THEN most ELSE half
    IN Absolute(g, CHOOSE i \in from..Size(g) - 1 :
                       /\ Row(g, Absolute(g, i)) # <<>>
                       /\ \A j \in from..i - 1 : Row(g, Absolute(g, j)) = <<>>)
ViewOf(g, m) == IF IsShown(g, m) THEN g ELSE [g EXCEPT !.view = Centred(g, m[1][1])]

\* The selection begins anew when the match does, or the pointer has left and ended it;
\* otherwise its other end moves, and it turns around if that comes first.
Unwrapped(g, p) == <<g.view + ((p[1] - g.view) % Size(g)), p[2]>>
SelectionOf(g, m, s, again) ==
    LET start == IF again \/ ~s.ongoing THEN Lead(g, Unwrapped(g, m[1])) ELSE s.start
        end == Unwrapped(g, m[2])
    IN [start |-> start, end |-> IF Before(end, start) THEN Lead(g, end) ELSE Trail(g, end),
        ongoing |-> TRUE]

---------------------------------------------------------------------------
(***************************************************************************)
(* What the user does                                                      *)
(***************************************************************************)
Shows(s, m, what) ==
    LET moved == ViewOf(G, m)
        new == SelectionOf(moved, m, sel, m[1] # search.match)
    IN /\ "over the ring's end" \in Admitted
          \/ (InView(moved, m[1][1]) /\ ~Before(new.end, new.start))
       /\ grid' = [grid EXCEPT ![screen] = moved]
       /\ sel' = new
       /\ search' = [s EXCEPT !.match = m[1], !.len = Len(s.buf)]
       /\ did' = what

\* search_find_next(): from the match on, or from the first or last cell in view.
Start(s, direction) ==
    CASE s.len = 0 /\ direction = "forward" -> <<G.view, 0>>
      [] s.len = 0 /\ direction # "forward" -> <<ViewEnd(G), Cols(G) - 1>>
      [] s.len > 0 /\ direction = "same" -> s.match
      [] s.len > 0 /\ direction = "backward" -> PrevCell(G, s.match)
      [] s.len > 0 /\ direction = "forward" -> NextCell(G, s.match)

\* Mutant of Found: it begins with the match itself.
FoundAgain(s, direction) ==
    LET start == IF s.len > 0 THEN s.match ELSE Start(s, direction)
    IN FindNext(G, direction # "forward", start,
                IF direction = "forward" THEN PrevCell(G, start) ELSE NextCell(G, start), s.buf)
Found(s, direction) ==
    LET start == Start(s, direction)
    IN FindNext(G, direction # "forward", start,
                IF direction = "forward" THEN PrevCell(G, start) ELSE NextCell(G, start), s.buf)

\* The newest row's last cell
Newest(g) == <<(g.offset + Rows - 1) % Size(g), Cols(g) - 1>>

SearchFindNext(s, direction) ==
    LET found == IF s.buf = <<>> THEN {} ELSE Found(s, direction)
        m == CHOOSE f \in found : TRUE
    IN IF found = {}
       THEN /\ search' = NoMatch(s) /\ sel' = NoSel
            /\ grid' = grid /\ did' = direction
       ELSE /\ "around the ring" \in Admitted \/ Len(Reading(G, m[1], Newest(G))) >= Len(s.buf)
            /\ Shows(s, m, direction)

\* search_begin() keeps the view, unless it follows the output; what was looked for before is kept.
Forgotten(s) ==
    [NoMatch(s) EXCEPT !.on = FALSE, !.buf = <<>>, !.cursor = 0, !.view = {},
                       !.last = IF s.buf # <<>> THEN s.buf ELSE @]
SearchBegin ==
    /\ ~search.on
    /\ search' = [Forgotten(search) EXCEPT !.on = TRUE, !.view = IF G.view = G.offset THEN {} ELSE {G.view}]
    /\ sel' = NoSel /\ did' = "other"
    /\ UNCHANGED <<grid, screen, pasting>>

\* search_input() and add_wchars(): at the cursor
Inserted(s, chars) ==
    [s EXCEPT !.buf = SubSeq(@, 1, s.cursor) \o chars \o SubSeq(@, s.cursor + 1, Len(@)),
              !.cursor = @ + Len(chars)]
SearchInput(chars) ==
    /\ search.on /\ Len(search.buf) + Len(chars) <= MaxLen
    /\ SearchFindNext(Inserted(search, chars), "same")
    /\ UNCHANGED <<screen, pasting>>

\* BIND_ACTION_SEARCH_FIND_PREV and _NEXT: the last text is looked for again.
SearchFind(direction) ==
    /\ search.on
    /\ SearchFindNext(IF search.buf = <<>> THEN [Inserted(search, search.last) EXCEPT !.last = <<>>] ELSE search,
                      direction)
    /\ UNCHANGED <<screen, pasting>>

IsSpace(buf, i) == buf[i] = " "

\* distance_next_word() and distance_prev_word(): over a word and the space after it, or over the space
\* and the word before it.
NextWord(s) ==
    LET n == Len(s.buf)
        Past(found) == IF found = {} THEN n ELSE CHOOSE i \in found : \A j \in found : i <= j
        gap == Past({i \in s.cursor + 1..n : IsSpace(s.buf, i)})
        word == Past({i \in gap + 1..n : ~IsSpace(s.buf, i)})
    IN IF word < n /\ ~IsSpace(s.buf, word + 1) THEN word - 1 ELSE word
PrevWord(s) ==
    LET Back(found) == IF found = {} THEN 1 ELSE CHOOSE i \in found : \A j \in found : i >= j
        word == Back({i \in 1..s.cursor : ~IsSpace(s.buf, i)})
        gap == Back({i \in 1..word - 1 : IsSpace(s.buf, i)})
    IN IF gap > 1 THEN gap ELSE 0

\* Where a motion leads: BIND_ACTION_SEARCH_EDIT_*
Motions == {"left", "right", "previous word", "next word", "home", "end"}
To(motion) ==
    LET n == Len(search.buf)
        c == search.cursor
    IN CASE motion = "left" -> IF c > 0 THEN c - 1 ELSE c
         [] motion = "right" -> IF c < n THEN c + 1 ELSE c
         [] motion = "previous word" -> PrevWord(search)
         [] motion = "next word" -> NextWord(search)
         [] motion = "home" -> 0
         [] motion = "end" -> n

\* A word of one character is followed by another.
Short(s) == \E i \in s.cursor + 1..Len(s.buf) :
                /\ i > 1 /\ IsSpace(s.buf, i - 1) /\ ~IsSpace(s.buf, i)
                /\ i = Len(s.buf) \/ IsSpace(s.buf, i + 1)
MayMove(motion) == motion = "next word" => ("short word" \in Admitted \/ ~Short(search))

SearchEdit(motion) ==
    /\ search.on /\ MayMove(motion)
    /\ search' = [search EXCEPT !.cursor = To(motion)]
    /\ did' = IF motion \in {"previous word", "next word"} THEN "by words" ELSE "other"
    /\ UNCHANGED <<grid, screen, sel, pasting>>

\* BIND_ACTION_SEARCH_DELETE_*: what a motion would pass
SearchDelete(motion) ==
    LET to == To(motion)
        from == IF to < search.cursor THEN to ELSE search.cursor
        upTo == IF to < search.cursor THEN search.cursor ELSE to
        cut == [search EXCEPT !.buf = SubSeq(@, 1, from) \o SubSeq(@, upTo + 1, Len(@)), !.cursor = from]
    IN /\ search.on /\ from # upTo /\ MayMove(motion)
       /\ SearchFindNext(cut, "same")
       /\ UNCHANGED <<screen, pasting>>

---------------------------------------------------------------------------
(***************************************************************************)
(* What was found is extended                                              *)
(***************************************************************************)
Bounded(g, p) == <<p[1] % Size(g), p[2]>>

\* coord_advance_left() and _right(), unless that would be around the ring
Advanced(g, p, left) ==
    LET q == IF left THEN PrevCell(g, p) ELSE NextCell(g, p)
        around == IF left THEN p[2] = 0 /\ (Rebased(g, q[1]) = Size(g) - 1 \/ Row(g, q[1]) = <<>>)
                  ELSE q[2] = 0 /\ Rebased(g, q[1]) = 0
    IN IF around THEN {} ELSE {q}

\* search_extend_find_char(): the next character that is there
RECURSIVE FindChar(_, _, _)
FindChar(g, p, left) ==
    UNION {IF Cell(g, q) \in {Spacer, <<>>} THEN FindChar(g, q, left) ELSE {q} : q \in Advanced(g, p, left)}

\* Of word, delimiter and space: isword(), by the first of the characters that combine
Class(g, p, spacesOnly) ==
    LET c == Cell(g, p)
    IN IF c \in {<<>>, <<" ">>} THEN "space"
       ELSE IF c[1] \in Delimiters /\ ~spacesOnly THEN "delimiter" ELSE "word"

\* selection_find_word_boundary_left(): as far as the class is the same, in one line
RECURSIVE BoundaryLeft(_, _, _)
BoundaryLeft(g, p, spacesOnly) ==
    LET next == PrevCell(g, p)
        stops == \/ p[2] = 0 /\ (Rebased(g, next[1]) = Size(g) - 1 \/ Row(g, next[1]) = <<>> \/ Hard(g, next[1]))
                 \/ Class(g, Lead(g, next), spacesOnly) # Class(g, p, spacesOnly)
    IN IF stops THEN p ELSE BoundaryLeft(g, Lead(g, next), spacesOnly)

\* selection_find_word_boundary_right(), not stopping between blanks and a word: over blanks, or
\* delimiters, and the word after them. Past a wide character in the last column, it looks at
\* the first cell of the same row, and gives up if the next one's number is none of the screen's.
RECURSIVE BoundaryRight(_, _, _, _, _)
BoundaryRight(g, p, initial, seenWord, spacesOnly) ==
    LET next == NextCell(g, p)
        on == PastSpacers(g, next)
        past == on[2] = Cols(g)
        class == Class(g, IF past THEN <<on[1], 0>> ELSE on, spacesOnly)
        stops == \/ next[2] = 0 /\ (Hard(g, p[1]) \/ Rebased(g, next[1]) = 0)
                 \/ past /\ on[1] + 1 >= Rows
                 \/ initial = "word" /\ class # "word"
                 \/ initial # "word" /\ class # "word" /\ (class # initial \/ seenWord)
    IN IF stops THEN p
       ELSE BoundaryRight(g, IF past THEN <<on[1] + 1, 0>> ELSE on, initial, class = "word", spacesOnly)

\* search_extend_find_word(), from the next cell
FindWord(g, p, spacesOnly, left) ==
    LET first == Lead(g, p)
        class == Class(g, first, spacesOnly)
    IN IF left THEN BoundaryLeft(g, first, spacesOnly)
       ELSE BoundaryRight(g, first, class, class = "word", spacesOnly)

\* search_extend_find_line(): the same column of the next row
FindLine(g, p, left) ==
    LET r == (p[1] + IF left THEN -1 ELSE 1) % Size(g)
    IN IF (left /\ (Rebased(g, r) = Size(g) - 1 \/ Row(g, r) = <<>>)) \/ (~left /\ Rebased(g, r) = 0)
       THEN {} ELSE {<<r, p[2]>>}

Targets(g, p, unit, left) ==
    CASE unit = "char" -> FindChar(g, p, left)
      [] unit = "word" -> {FindWord(g, q, FALSE, left) : q \in Advanced(g, p, left)}
      [] unit = "word to whitespace" -> {FindWord(g, q, TRUE, left) : q \in Advanced(g, p, left)}
      [] unit = "line" -> FindLine(g, p, left)

\* search_extend_left() and _right()
SearchExtend(unit, left) ==
    LET first == Bounded(G, sel.start)
        last == Bounded(G, sel.end)
        targets == Targets(G, IF left THEN first ELSE last, unit, left)
        target == CHOOSE t \in targets : TRUE
        text == IF left THEN Reading(G, target, PrevCell(G, first)) ELSE Reading(G, NextCell(G, last), target)
        n == Len(text)
        longer == IF left
                  THEN [search EXCEPT !.buf = text \o @, !.cursor = IF @ # 0 THEN @ + n ELSE @]
                  ELSE [search EXCEPT !.buf = @ \o text, !.cursor = IF @ = Len(search.buf) THEN @ + n ELSE @]
    IN /\ search.on /\ search.len > 0 /\ targets # {}
       /\ Len(search.buf) + n <= MaxExtended
       /\ "half a character" \in Admitted \/ Cell(G, target) # Spacer
       /\ Shows(longer, IF left THEN <<target, last>> ELSE <<search.match, target>>, "other")
       /\ UNCHANGED <<screen, pasting>>

---------------------------------------------------------------------------
(***************************************************************************)
(* The view, the end of a search, and what happens meanwhile               *)
(***************************************************************************)
\* cmd_scrollback_up() and _down(), selection_view_up() and _down()
Scrolled(g, s, to) ==
    LET up == Rebased(g, to) < Rebased(g, g.view)
        r(p) == CASE p = Nowhere -> p
                  [] up /\ to >= g.view -> <<p[1] + Size(g), p[2]>>
                  [] ~up /\ to <= g.view -> Bounded(g, p)
                  [] OTHER -> p
    IN [s EXCEPT !.start = r(s.start), !.end = r(s.end)]
IsView(g, v) == Rebased(g, v) <= Size(g) - Rows /\ \A r \in 0..Rows - 1 : Row(g, v + r) # <<>>
CmdScrollback(to) ==
    /\ search.on /\ screen = "normal" /\ to # G.view /\ IsView(G, to)
    /\ grid' = [grid EXCEPT ![screen].view = to]
    /\ sel' = Scrolled(G, sel, to)
    /\ did' = "other"
    /\ UNCHANGED <<screen, search, pasting>>

\* ensure_view_is_allocated()
EnsureViewIsAllocated(g, v) ==
    LET down == {i \in 0..Size(g) - 1 : Row(g, v + i) # <<>>}
        up == {i \in 0..Size(g) - 1 : Row(g, v - i + Rows - 1) # <<>>}
        Least(S) == CHOOSE i \in S : \A j \in S : i <= j
    IN IF Row(g, v) = <<>> THEN (v + Least(down)) % Size(g) ELSE (v - Least(up)) % Size(g)

\* BIND_ACTION_SEARCH_CANCEL returns to the view, a press on the grid (wl_pointer_button) and
\* BIND_ACTION_SEARCH_COMMIT do not.
SearchCancel ==
    LET to == IF search.view = {} THEN G.offset
              ELSE EnsureViewIsAllocated(G, CHOOSE v \in search.view : TRUE)
    IN /\ search.on
       /\ Len(search.buf) <= MaxLast
       /\ \/ "cancelled too late" \in Admitted
          \/ search.view \subseteq 0..Size(G) - 1 /\ IsView(G, to)
       /\ grid' = [grid EXCEPT ![screen].view = to]
       /\ search' = Forgotten(search) /\ sel' = NoSel /\ did' = "other"
       /\ UNCHANGED <<screen, pasting>>
SearchEnd(keeps) ==
    /\ search.on /\ Len(search.buf) <= MaxLast
    /\ search' = Forgotten(search) /\ did' = "other"
    /\ sel' = IF keeps THEN [sel EXCEPT !.ongoing = FALSE] ELSE NoSel
    /\ UNCHANGED <<grid, screen, pasting>>

\* The pointer leaves: selection_finalize(), after which the match is selected anew.
PointerLeave ==
    /\ search.on /\ sel.ongoing /\ sel' = [sel EXCEPT !.ongoing = FALSE]
    /\ did' = "other" /\ UNCHANGED <<grid, screen, search, pasting>>

\* BIND_ACTION_SEARCH_CLIPBOARD_PASTE looks for what there is, and again when the text is there.
SearchPaste ==
    /\ search.on /\ ~pasting /\ pasting' = TRUE
    /\ SearchFindNext(search, "same")
    /\ UNCHANGED screen
FromClipboardDone(chars) ==
    /\ pasting /\ pasting' = FALSE
    /\ "pasted too late" \in Admitted \/ search.on
    /\ Len(search.buf) + Len(chars) <= MaxLen
    /\ SearchFindNext(Inserted(search, chars), "same")
    /\ UNCHANGED screen

\* The selection's rows are those that are used again: selection_scroll_up().
Cancelled(g, s) == s.end # Nowhere /\ \E p \in {s.start, s.end} : Rebased(g, p[1]) = 0

\* Output scrolls a row in: term_scroll_partial()
TermScroll(row) ==
    LET g == grid["normal"]
        offset == (g.offset + 1) % Size(g)
        at == ((offset + Rows - 1) % Size(g)) + 1
        new == [g EXCEPT !.offset = offset, !.rows[at] = row.cells, !.hard[at] = row.hard]
        follows == g.view = g.offset
        out == ~follows /\ Rebased(g, g.view) = 0
        to == IF follows THEN offset ELSE IF out THEN (g.view + 1) % Size(g) ELSE g.view
        gone == Cancelled(g, sel)
    IN /\ screen = "normal" /\ Len(row.cells) = Cols(g) /\ g.offset < MaxScroll
       /\ grid' = [grid EXCEPT !["normal"] = [new EXCEPT !.view = to]]
       /\ search' = IF gone THEN NoMatch(search) ELSE search
       /\ sel' = IF gone THEN NoSel ELSE IF to <= g.view THEN Scrolled(new, sel, to) ELSE sel
       /\ did' = "other"
       /\ UNCHANGED <<screen, pasting>>

\* An application switches screens: the selection is cancelled, and with it the match.
Switch ==
    /\ screen' = IF screen = "normal" THEN "alt" ELSE "normal"
    /\ search' = NoMatch(search) /\ sel' = NoSel /\ did' = "other"
    /\ UNCHANGED <<grid, pasting>>

\* render_resize(): the rows are rewrapped (Reflow); the search is not told.
RenderResize(g) ==
    /\ screen = "normal" /\ Cols(g) # Cols(G)
    /\ "resized" \in Admitted \/ (search.match = Nowhere /\ search.view = {})
    /\ grid' = [grid EXCEPT !["normal"] = Shown(g)]
    /\ sel' = NoSel /\ did' = "other"
    /\ UNCHANGED <<screen, search, pasting>>

Init ==
    /\ \E g \in Grids : grid = [normal |-> Shown(g),
                                alt |-> Shown(AltGrid)]
    /\ screen = "normal"
    /\ search = [on |-> FALSE, buf |-> <<>>, cursor |-> 0, match |-> Nowhere, len |-> 0,
                 view |-> {}, last |-> <<>>]
    /\ sel = NoSel /\ pasting = FALSE /\ did = "other"

Next ==
    \/ SearchBegin \/ SearchCancel \/ SearchPaste \/ PointerLeave \/ Switch
    \/ \E c \in Typed : SearchInput(<<c>>) \/ FromClipboardDone(<<c>>)
    \/ \E direction \in {"forward", "backward"} : SearchFind(direction)
    \/ \E motion \in Motions : SearchEdit(motion) \/ SearchDelete(motion)
    \/ \E unit \in {"char", "word", "word to whitespace", "line"}, left \in BOOLEAN : SearchExtend(unit, left)
    \/ \E to \in 0..Size(G) - 1 : CmdScrollback(to)
    \/ \E keeps \in BOOLEAN : SearchEnd(keeps)
    \/ \E row \in NewRows : TermScroll(row)
    \/ \E g \in Grids : RenderResize(g)

Spec == Init /\ [][Next]_searchVars

---------------------------------------------------------------------------
(***************************************************************************)
(* Properties                                                              *)
(***************************************************************************)
\* Rows in the order they were written, and the cells before p in it
Order(g, p) == Rebased(g, p[1]) * Cols(g) + p[2]
Present(g) == {p \in (0..Size(g) - 1) \X (0..Cols(g) - 1) : Row(g, p[1]) # <<>> /\ Cell(g, p) # Spacer}

\* Where the text is to be found: the cells from p on read as it, one after another.
RECURSIVE ReadsAs(_, _, _)
ReadsAs(g, p, buf) ==
    LET c == Cell(g, p)
        chars == IF c = <<>> THEN <<" ">> ELSE c
        rest == IF c = Spacer THEN buf ELSE SubSeq(buf, Len(chars) + 1, Len(buf))
        next == NextCell(g, p)
    IN /\ c # Spacer => Len(chars) <= Len(buf) /\ SubSeq(buf, 1, Len(chars)) = chars
       /\ rest # <<>> => Order(g, next) > 0 /\ Row(g, next[1]) # <<>> /\ ReadsAs(g, next, rest)
Occurrences(g, buf) == {p \in Present(g) : ReadsAs(g, p, buf)}

\* Of these, the one that is found first from p on
Nearest(g, buf, p, backward) ==
    LET Distance(q) == (IF backward THEN Order(g, p) - Order(g, q) ELSE Order(g, q) - Order(g, p))
                       % (Size(g) * Cols(g))
        found == Occurrences(g, buf)
        least == CHOOSE n \in {Distance(q) : q \in found} : \A q \in found : n <= Distance(q)
    IN {q \in found : Distance(q) = least}

Edges(buf) == {0, Len(buf)} \cup {i \in 1..Len(buf) - 1 : IsSpace(buf, i) /\ ~IsSpace(buf, i + 1)}

\* What is shown as found is there and is all that is selected: the cells from the match to
\* the selection's end read as the text that is looked for.  Each search finds the
\* occurrence nearest to the last one, on and on around the scrollback, or to what is in view, shows
\* it with all others in view, and finds nothing only if there is none.  A motion by words goes to the beginning
\* of a word.  The view is of rows that are there, and nothing is selected by a search that has ended.
FindsTheText ==
    LET g == grid'[screen']
        s == search'
        from == IF search.len = 0 THEN IF did' = "forward" THEN <<G.view, 0>> ELSE <<ViewEnd(G), Cols(G) - 1>>
                ELSE IF did' = "same" THEN search.match
                ELSE IF did' = "forward" THEN NextCell(G, search.match) ELSE PrevCell(G, search.match)
    IN /\ IsView(g, g.view)
       /\ s.cursor \in 0..Len(s.buf)
       /\ s.len > 0 => /\ s.on /\ Row(g, s.match[1]) # <<>> /\ Cell(g, s.match) # Spacer
                       /\ Bounded(g, sel'.start) = s.match /\ Order(g, s.match) <= Order(g, Bounded(g, sel'.end))
                       /\ Reading(g, s.match, Bounded(g, sel'.end)) = s.buf
       /\ did' \in {"forward", "backward", "same"} /\ s.buf # <<>> =>
             IF s.len > 0
             THEN /\ s.match \in Nearest(g, s.buf, from, did' # "forward")
                  /\ {s.match} \cup {p \in Occurrences(g, s.buf) : InView(g, p[1])}
                     \subseteq Highlights(g, <<g.view, 0>>, s.buf)
             ELSE Occurrences(g, s.buf) = {}
       /\ did' = "by words" => s.cursor \in Edges(s.buf)

SearchFindsTheText == [][FindsTheText]_searchVars
===============================================================================
