-------------------------------- MODULE MCGrid --------------------------------
(***************************************************************************)
(* Small instances for TLC of what a grid carries along: the text and the  *)
(* points in it when the window is resized, the ranges of its rows, and    *)
(* the images on it, each by itself: part says which.                      *)
(***************************************************************************)
EXTENDS Reflow

CONSTANTS Length, Widths, Links, Ring, Heights, Cols, MaxImages, MaxChanges

VARIABLES part, width, ranges, painted, g, shown, cut, images, changes

Rows   == INSTANCE RowRanges
Images == INSTANCE Sixel

rangesVars == <<width, ranges, painted>>
imagesVars == <<g, shown, cut, images, changes>>

\* The variables of the parts that a behaviour is not about.
NoReflow ==
    /\ grid = 0 /\ rows = 0 /\ cols = 0 /\ sel = 0 /\ shadow = 0 /\ resizing = 0
    /\ armed = 0 /\ log = 0 /\ output = 0 /\ configures = 0
NoRanges == width = 0 /\ ranges = 0 /\ painted = 0
NoImages == g = 0 /\ shown = 0 /\ cut = 0 /\ images = 0 /\ changes = 0

MCInit ==
    \/ part = "reflow" /\ Init        /\ NoRanges /\ NoImages
    \/ part = "ranges" /\ Rows!Init   /\ NoReflow /\ NoImages
    \/ part = "images" /\ Images!Init /\ NoReflow /\ NoRanges
MCNext ==
    \/ part = "reflow" /\ Next        /\ UNCHANGED <<part, rangesVars, imagesVars>>
    \/ part = "ranges" /\ Rows!Next   /\ UNCHANGED <<part, reflowVars, imagesVars>>
    \/ part = "images" /\ Images!Next /\ UNCHANGED <<part, reflowVars, rangesVars>>
MCSpec == MCInit /\ [][MCNext]_<<part, reflowVars, rangesVars, imagesVars>>

TheSizes == {<<2, 2>>, <<2, 3>>, <<1, 4>>}

\* Resizing the window, at once or while its border is dragged, loses no text and
\* keeps the cursors and the selection where they are in it.
ResizeKeepsText == [][part = "reflow" => TextStays]_<<part, reflowVars>>

\* What lies on the grid is where it was last put, however it is cut, joined,
\* wrapped and scrolled: the ranges of a row say of every cell which hyperlink it
\* was last given, and the list of images is free of overlaps and in order and says
\* of every cell which image is shown there.
CellsAreAsDrawn ==
    /\ part = "ranges" => Rows!RangesAreAsPut
    /\ part = "images" => Images!ImagesAreAsDrawn
===============================================================================
