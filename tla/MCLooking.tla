------------------------------- MODULE MCLooking -------------------------------
(***************************************************************************)
(* Small instances for TLC of how the user looks at the scrollback: a      *)
(* larger ring than that of run scrollback, without selections and modes   *)
(* (Scrollback), what is selected by dragging (Selecting), and what a      *)
(* search finds (Search).  Each is checked by itself: part says which.     *)
(***************************************************************************)
EXTENDS Scrollback

CONSTANTS ShownRows                                                     \* of Selecting and Search
CONSTANTS Texts                                                         \* of Selecting
CONSTANTS Grids, AltGrid, NewRows, Delimiters, Typed, MaxScroll, MaxLen, MaxExtended, MaxLast \* of Search

VARIABLES part, text, top, selection, marked, grid, screen, search, found, pasting, did

Dragging == INSTANCE Selecting WITH Rows <- ShownRows, view <- top, sel <- selection
Finding  == INSTANCE Search WITH Rows <- ShownRows, sel <- found

dragVars == <<text, top, selection, marked>>
findVars == <<grid, screen, search, found, pasting, did>>

\* The variables of the parts that a behaviour is not about.
NoDragging == text = 0 /\ top = 0 /\ selection = 0 /\ marked = 0
NoFinding == grid = 0 /\ screen = 0 /\ search = 0 /\ found = 0 /\ pasting = 0 /\ did = 0

\* The ring stays as it is at first when a behaviour is about another part.
MCInit ==
    /\ Init
    /\ \/ part = "ring" /\ NoDragging /\ NoFinding
       \/ part = "selecting" /\ Dragging!Init /\ NoFinding
       \/ part = "search" /\ Finding!Init /\ NoDragging
MCNext ==
    \/ part = "ring" /\ Next /\ UNCHANGED <<part, dragVars, findVars>>
    \/ part = "selecting" /\ Dragging!Next /\ UNCHANGED <<part, vars, findVars>>
    \/ part = "search" /\ Finding!Next /\ UNCHANGED <<part, vars, dragVars>>
MCSpec == MCInit /\ [][MCNext]_<<part, vars, dragVars, findVars>>

\* Bounds of the search: the clipboard is awaited with a text that is no longer than when a
\* search ends; a match that was extended is looked at where it was found.
Settled == part = "search" =>
    /\ pasting => Len(search.buf) <= MaxLast
    /\ Len(search.buf) > MaxLen => screen = "normal" /\ ~pasting

\* A line that is wrapped before a wide character and ends in blanks, and one with a quote.
R(cells, hard) == [cells |-> cells, hard |-> hard]
TheTexts == {<< R(<<"a", "W", "s", "s">>, FALSE), R(<<"W", "s", ".", "_">>, TRUE), R(<<"'", "a", "'", "a">>, TRUE) >>}

\* Two rings: of four rows, one not allocated, with a wide character; and of two rows, with
\* combining ones and delimiters.
x == <<"x">>
dot == <<".">>
w == <<"w">>
xy == <<"x", "y">>
TheGrids == {
    [rows |-> <<<<x, <<>>>>, <<w, <<"spacer">>>>, <<x, x>>, <<>>>>,
     hard |-> <<FALSE, FALSE, TRUE, TRUE>>, cols |-> 2, offset |-> 1],
    [rows |-> <<<<xy, x, dot>>, <<x, dot, <<>>>>>>, hard |-> <<FALSE, TRUE>>, cols |-> 3, offset |-> 0] }
TheAltGrid == [rows |-> <<<<w, <<"spacer">>>>, <<x, <<>>>>>>, hard |-> <<TRUE, TRUE>>, cols |-> 2, offset |-> 0]
TheNewRows == {R(<<xy, x>>, FALSE)}

\* The keys for the prompts move the view in their direction, also across the end
\* of the ring (input.c).
PromptKeysMoveTheView == [][part = "ring" => PromptKeysMove]_<<part, vars>>

\* Wherever the pointer is dragged, over whatever on the way, the selection is that
\* between where it began and the pointer, in its kind's units (selection.c); and
\* what is copied, written again at its column, reads the same (extract.c).
SelectionIsAsDragged ==
    part = "selecting" => Dragging!SelectionIsAsDragged /\ Dragging!CopiedTextReadsTheSame

\* A search goes to the next match in its direction, selects and shows it, and finds one
\* if there is one (search.c).
SearchFindsTheText == [][part = "search" => Finding!FindsTheText]_<<part, findVars>>
===============================================================================
