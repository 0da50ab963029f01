---------------------------- MODULE Terminal_proofs ----------------------------
(***************************************************************************)
(* Proofs about the state machines that a terminal's output drives, for    *)
(* any sizes, counts, modes and levels: the choice of a printer, the       *)
(* cursor, the private modes and the keyboard flags.                       *)
(***************************************************************************)
EXTENDS MCTerminal, Sequences, WellFoundedInduction, TLAPS

(***************************************************************************)
(* The choice of a printer                                                 *)
(***************************************************************************)

Sets == [selected : Slots, saved : Slots, set : [Slots -> {"ascii", "graphic"}]]
AllBits == {"charset", "insert_mode", "style", "sixels"}

TypeOK ==
    /\ charsets \in Sets /\ kept \in Sets
    /\ insert \in BOOLEAN /\ styled \in BOOLEAN
    /\ screen \in {"normal", "alt"} /\ images \subseteq {"normal", "alt"}
    /\ bits \subseteq AllBits
    /\ printer \in {"fast", "generic", "shift"}

\* What sets a bit is looked at again whenever it changes; only a single shift
\* leaves the character set's as it is, and its printer looks at it after the
\* character.
BitsAreTrue ==
    /\ "insert_mode" \in bits <=> insert
    /\ "style" \in bits <=> styled
    /\ "sixels" \in bits <=> screen \in images
    /\ printer # "shift" => ("charset" \in bits <=> Graphic)
    /\ printer # "shift" => (printer = "fast" <=> bits = {})

PInv == TypeOK /\ BitsAreTrue

\* A new terminal prints ASCII with nothing set.
LEMMA PrinterInit == Init => PInv
<1>. SUFFICES ASSUME Init PROVE PInv
  OBVIOUS
<1>1. Plain \in Sets /\ Plain.selected = "g0" /\ Plain.set["g0"] = "ascii"
  BY SlotsAssumption DEF Plain, Sets
<1>2. TypeOK
  BY <1>1 DEF Init, TypeOK
<1>3. BitsAreTrue
  BY <1>1 DEF Init, BitsAreTrue, Graphic
<1>. QED
  BY <1>2, <1>3 DEF PInv

\* term_update_ascii_printer() after a step: the printer fits the bits.
LEMMA Updated ==
  ASSUME NEW set, Update(set)
  PROVE  /\ bits' = set /\ printer' \in {"fast", "generic"} /\ printer' # "shift"
         /\ printer' = "fast" <=> bits' = {}
BY DEF Update

\* What designates, shifts, saves and restores character sets only touches them
\* and the bit that follows from them.
LEMMA SetsStep ==
  ASSUME PInv, printer # "shift",
         LockingShift \/ Designate \/ SaveCursor \/ RestoreCursor
  PROVE  PInv'
<1>0. TypeOK /\ BitsAreTrue
  BY DEF PInv
<1>1. ASSUME charsets' \in Sets, kept' \in Sets, UpdateCharset,
             UNCHANGED <<insert, styled, screen, images>>
      PROVE  PInv'
  <2>1. /\ bits' = With("charset", charsets'.set[charsets'.selected] = "graphic")
        /\ printer' \in {"fast", "generic"} /\ printer' # "shift"
        /\ printer' = "fast" <=> bits' = {}
    BY <1>1, Updated DEF UpdateCharset
  <2>2. Graphic' <=> charsets'.set[charsets'.selected] = "graphic"
    BY DEF Graphic
  <2>3. /\ "charset" \in bits' <=> Graphic'
        /\ \A b \in AllBits : b # "charset" => (b \in bits' <=> b \in bits)
        /\ bits' \subseteq AllBits
    BY <1>0, <2>1, <2>2 DEF With, TypeOK, AllBits
  <2>4. BitsAreTrue'
    BY <1>0, <1>1, <2>1, <2>3 DEF BitsAreTrue, AllBits
  <2>5. TypeOK'
    BY <1>0, <1>1, <2>1, <2>3 DEF TypeOK
  <2>. QED
    BY <2>4, <2>5 DEF PInv
<1>2. CASE LockingShift
  <2>1. charsets' \in Sets /\ kept' \in Sets
    BY <1>0, <1>2 DEF LockingShift, TypeOK, Sets
  <2>. QED
    BY <1>1, <1>2, <2>1 DEF LockingShift
<1>3. CASE Designate
  <2>1. charsets' \in Sets /\ kept' \in Sets
    BY <1>0, <1>3 DEF Designate, TypeOK, Sets
  <2>. QED
    BY <1>1, <1>3, <2>1 DEF Designate
<1>4. CASE SaveCursor
  BY <1>0, <1>4 DEF SaveCursor, PInv, TypeOK, BitsAreTrue, Graphic
<1>5. CASE RestoreCursor
  <2>1. charsets' \in Sets /\ kept' \in Sets
    BY <1>0, <1>5 DEF RestoreCursor, TypeOK
  <2>. QED
    BY <1>1, <1>5, <2>1 DEF RestoreCursor
<1>. QED
  BY <1>2, <1>3, <1>4, <1>5

\* The character set's bit is left as it was: it is looked at after the character.
LEMMA SingleShiftStep ==
  ASSUME PInv, printer # "shift", SingleShift
  PROVE  PInv'
<1>1. charsets' \in Sets
  BY SlotsAssumption DEF PInv, SingleShift, TypeOK, Sets
<1>2. TypeOK'
  BY <1>1 DEF PInv, SingleShift, TypeOK
<1>3. BitsAreTrue'
  BY DEF PInv, SingleShift, BitsAreTrue
<1>. QED
  BY <1>2, <1>3 DEF PInv

\* Overwriting images takes the bit with the last of them.
LEMMA OverwriteKeeps ==
  ASSUME PInv, printer # "shift", Overwrite,
         UNCHANGED <<charsets, kept, insert, styled, screen>>
  PROVE  PInv'
<1>0. TypeOK /\ BitsAreTrue
  BY DEF PInv
<1>1. CASE screen \notin images
  BY <1>0, <1>1 DEF Overwrite, PInv, TypeOK, BitsAreTrue, Graphic
<1>2. CASE screen \in images
  <2>1. PICK left \in BOOLEAN :
          /\ images' = IF left THEN images ELSE images \ {screen}
          /\ Update(With("sixels", left))
    BY <1>2 DEF Overwrite
  <2>2. /\ bits' = With("sixels", left)
        /\ printer' \in {"fast", "generic"} /\ printer' # "shift"
        /\ printer' = "fast" <=> bits' = {}
    BY <2>1, Updated
  <2>3. /\ "sixels" \in bits' <=> screen' \in images'
        /\ \A b \in AllBits : b # "sixels" => (b \in bits' <=> b \in bits)
        /\ bits' \subseteq AllBits /\ images' \subseteq images
    BY <1>0, <1>2, <2>1, <2>2 DEF With, TypeOK, AllBits
  <2>4. BitsAreTrue'
    BY <1>0, <2>2, <2>3 DEF BitsAreTrue, AllBits, Graphic
  <2>5. TypeOK'
    BY <1>0, <2>2, <2>3 DEF TypeOK
  <2>. QED
    BY <2>4, <2>5 DEF PInv
<1>. QED
  BY <1>1, <1>2

\* The character after a single shift: the printer that prints it chooses anew,
\* with the set that was selected before.
LEMMA ShiftedStep ==
  ASSUME PInv, PrintShifted, UNCHANGED <<kept, insert, styled, screen>>
  PROVE  PInv'
<1>0. TypeOK /\ BitsAreTrue
  BY DEF PInv
<1>1. charsets' \in Sets
  BY <1>0 DEF PrintShifted, TypeOK, Sets
<1>2. PICK left \in IF screen \in images THEN BOOLEAN ELSE {TRUE} :
          /\ images' = IF left THEN images ELSE images \ {screen}
          /\ Update({b \in bits \cup {"charset"} :
                       /\ b = "charset" => charsets'.set[charsets'.selected] = "graphic"
                       /\ b = "sixels" => left})
  BY DEF PrintShifted
<1>3. /\ bits' = {b \in bits \cup {"charset"} :
                       /\ b = "charset" => charsets'.set[charsets'.selected] = "graphic"
                       /\ b = "sixels" => left}
      /\ printer' \in {"fast", "generic"} /\ printer' # "shift"
      /\ printer' = "fast" <=> bits' = {}
  BY <1>2, Updated
<1>4. /\ "charset" \in bits' <=> charsets'.set[charsets'.selected] = "graphic"
      /\ "sixels" \in bits' <=> "sixels" \in bits /\ left
      /\ \A b \in {"insert_mode", "style"} : b \in bits' <=> b \in bits
      /\ bits' \subseteq AllBits
  BY <1>0, <1>3 DEF TypeOK, AllBits
<1>5. "sixels" \in bits' <=> screen' \in images'
  BY <1>0, <1>2, <1>4 DEF BitsAreTrue
<1>6. BitsAreTrue'
  BY <1>0, <1>3, <1>4, <1>5 DEF BitsAreTrue, Graphic
<1>7. TypeOK'
  BY <1>0, <1>1, <1>2, <1>3, <1>4 DEF TypeOK
<1>. QED
  BY <1>6, <1>7 DEF PInv

\* So do the modes: each change of a mode, a style or the screen is followed by
\* the look at its bit.
LEMMA ModesStep ==
  ASSUME PInv, printer # "shift", SetInsert \/ SetStyle \/ SixelUnhook \/ TermReset
  PROVE  PInv'
<1>0. TypeOK /\ BitsAreTrue
  BY DEF PInv
<1>1. CASE SetInsert
  <2>1. /\ insert' \in BOOLEAN /\ bits' = With("insert_mode", insert')
        /\ UNCHANGED <<charsets, kept, styled, screen, images>>
        /\ printer' \in {"fast", "generic"} /\ printer' # "shift"
        /\ printer' = "fast" <=> bits' = {}
    BY <1>1, Updated DEF SetInsert
  <2>2. /\ "insert_mode" \in bits' <=> insert'
        /\ \A b \in AllBits : b # "insert_mode" => (b \in bits' <=> b \in bits)
        /\ bits' \subseteq AllBits
    BY <1>0, <2>1 DEF With, TypeOK, AllBits
  <2>3. BitsAreTrue' /\ TypeOK'
    BY <1>0, <2>1, <2>2 DEF BitsAreTrue, AllBits, Graphic, TypeOK
  <2>. QED
    BY <2>3 DEF PInv
<1>2. CASE SetStyle
  <2>1. /\ styled' \in BOOLEAN /\ bits' = With("style", styled')
        /\ UNCHANGED <<charsets, kept, insert, screen, images>>
        /\ printer' \in {"fast", "generic"} /\ printer' # "shift"
        /\ printer' = "fast" <=> bits' = {}
    BY <1>2, Updated DEF SetStyle
  <2>2. /\ "style" \in bits' <=> styled'
        /\ \A b \in AllBits : b # "style" => (b \in bits' <=> b \in bits)
        /\ bits' \subseteq AllBits
    BY <1>0, <2>1 DEF With, TypeOK, AllBits
  <2>3. BitsAreTrue' /\ TypeOK'
    BY <1>0, <2>1, <2>2 DEF BitsAreTrue, AllBits, Graphic, TypeOK
  <2>. QED
    BY <2>3 DEF PInv
<1>3. CASE SixelUnhook
  <2>1. /\ images' = images \cup {screen} /\ bits' = With("sixels", TRUE)
        /\ UNCHANGED <<charsets, kept, insert, styled, screen>>
        /\ printer' \in {"fast", "generic"} /\ printer' # "shift"
        /\ printer' = "fast" <=> bits' = {}
    BY <1>3, Updated DEF SixelUnhook
  <2>2. /\ "sixels" \in bits'
        /\ \A b \in AllBits : b # "sixels" => (b \in bits' <=> b \in bits)
        /\ bits' \subseteq AllBits
    BY <1>0, <2>1 DEF With, TypeOK, AllBits
  <2>3. BitsAreTrue' /\ TypeOK'
    BY <1>0, <2>1, <2>2 DEF BitsAreTrue, AllBits, Graphic, TypeOK
  <2>. QED
    BY <2>3 DEF PInv
<1>4. CASE TermReset
  <2>1. charsets' \in Sets /\ charsets'.set[charsets'.selected] = "ascii"
    BY <1>0, <1>4, SlotsAssumption DEF TermReset, Plain, TypeOK, Sets
  <2>2. /\ insert' = FALSE /\ styled' = FALSE /\ screen' = "normal" /\ images' = {}
        /\ bits' = {} /\ printer' = "fast" /\ kept' = charsets'
    BY <1>4 DEF TermReset, Update
  <2>3. BitsAreTrue' /\ TypeOK'
    BY <2>1, <2>2 DEF BitsAreTrue, Graphic, TypeOK, AllBits
  <2>. QED
    BY <2>3 DEF PInv
<1>. QED
  BY <1>1, <1>2, <1>3, <1>4

\* The other screen's images are looked at, and the character set if it is
\* restored with the cursor.
LEMMA AltScreenStep ==
  ASSUME PInv, printer # "shift", NEW restores \in BOOLEAN, AltScreen(restores)
  PROVE  PInv'
<1>0. TypeOK /\ BitsAreTrue
  BY DEF PInv
<1>1. /\ screen' \in {"normal", "alt"} /\ images' \subseteq {"normal", "alt"}
      /\ charsets' \in Sets /\ kept' \in Sets
      /\ insert' = insert /\ styled' = styled
  BY <1>0 DEF AltScreen, TypeOK
<1>. DEFINE back == restores /\ screen = "alt"
<1>2. charsets' = IF back THEN kept ELSE charsets
  BY DEF AltScreen
<1>3. /\ bits' = {b \in bits \cup {"charset", "sixels"} :
                    /\ b = "sixels" => screen' \in images'
                    /\ b = "charset" => IF back
                                        THEN charsets'.set[charsets'.selected] = "graphic"
                                        ELSE "charset" \in bits}
      /\ printer' \in {"fast", "generic"} /\ printer' # "shift"
      /\ printer' = "fast" <=> bits' = {}
  BY Updated DEF AltScreen
<1>4. /\ "sixels" \in bits' <=> screen' \in images'
      /\ "charset" \in bits' <=> IF back THEN charsets'.set[charsets'.selected] = "graphic"
                                         ELSE "charset" \in bits
      /\ \A b \in {"insert_mode", "style"} : b \in bits' <=> b \in bits
      /\ bits' \subseteq AllBits
  BY <1>0, <1>3 DEF TypeOK, AllBits
<1>5. "charset" \in bits' <=> Graphic'
  BY <1>0, <1>2, <1>4 DEF BitsAreTrue, Graphic
<1>6. BitsAreTrue'
  BY <1>0, <1>1, <1>3, <1>4, <1>5 DEF BitsAreTrue
<1>7. TypeOK'
  BY <1>0, <1>1, <1>3, <1>4 DEF TypeOK
<1>. QED
  BY <1>6, <1>7 DEF PInv

\* Every step keeps the bits true: a character printed through a single shift puts
\* the printer back to what they ask for.
LEMMA PrinterStep ==
  ASSUME PInv, "single shift" \notin Defects, [Next]_printerVars
  PROVE  PInv'
<1>1. CASE PrintAscii
  <2>1. UNCHANGED <<kept, insert, styled, screen>>
    BY <1>1 DEF PrintAscii
  <2>2. CASE PrintFast \/ PrintGeneric
    <3>1. Overwrite /\ charsets' = charsets /\ printer # "shift"
      BY <2>2 DEF PrintFast, PrintGeneric
    <3>. QED
      BY <2>1, <3>1, OverwriteKeeps
  <2>3. CASE PrintShifted
    BY <2>1, <2>3, ShiftedStep
  <2>. QED
    BY <1>1, <2>2, <2>3 DEF PrintAscii
<1>2. CASE printer # "shift" /\ Others
  <2>1. CASE PrintOther
    BY <1>2, <2>1, OverwriteKeeps DEF PrintOther
  <2>. QED
    BY <1>2, <2>1, SetsStep, SingleShiftStep, ModesStep, AltScreenStep DEF Others
<1>3. CASE UNCHANGED printerVars
  BY <1>3 DEF printerVars, PInv, TypeOK, BitsAreTrue, Graphic
<1>. QED
  BY <1>1, <1>2, <1>3 DEF Next

\* As long as nothing comes between a single shift and its character: PInv is an
\* invariant, whatever else the slave's output does and in any order.
THEOREM Invariance == "single shift" \notin Defects => (Spec => []PInv)
<1>. SUFFICES ASSUME "single shift" \notin Defects PROVE Spec => []PInv
  OBVIOUS
<1>1. Init => PInv
  BY PrinterInit
<1>2. PInv /\ [Next]_printerVars => PInv'
  BY PrinterStep
<1>. QED
  BY <1>1, <1>2, PTL DEF Spec

\* The fast printer is not used while characters have to be translated, moved
\* aside or styled, or images are in the way.
THEOREM PrinterKept == "single shift" \notin Defects => (Spec => []PrinterFits)
<1>1. PInv => PrinterFits
  BY DEF PInv, BitsAreTrue, PrinterFits
<1>. QED
  BY <1>1, Invariance, PTL

(***************************************************************************)
(* Natural numbers                                                         *)
(***************************************************************************)

\* A set of natural numbers that is not empty has a least element.
LEMMA LeastExists ==
    ASSUME NEW S, S \subseteq Nat, S # {}
    PROVE  \E x \in S : \A y \in S : x <= y
<1>. DEFINE Less == {ss \in Nat \X Nat : ss[1] < ss[2]}
<1>1. IsWellFoundedOn(Less, Nat)
  BY NatLessThanWellFounded DEF OpToRel
<1>2. \A x, y \in Nat : x < y => <<x, y>> \in Less
  OBVIOUS
<1>. HIDE DEF Less
<1>3. \E x \in S : \A y \in S : <<y, x>> \notin Less
  BY <1>1, WFMin, Zenon
<1>4. PICK x \in S : \A y \in S : <<y, x>> \notin Less
  BY <1>3
<1>5. \A y \in S : ~(y < x)
  BY <1>2, <1>4
<1>. QED
  BY <1>5

\* Mathematical induction, for the set of the numbers that something holds for
LEMMA Inductive ==
    ASSUME NEW S, S \subseteq Nat, 0 \in S, \A n \in S : n + 1 \in S
    PROVE  S = Nat
<1>. DEFINE Rest == Nat \ S
<1>. SUFFICES ASSUME Rest # {} PROVE FALSE
  OBVIOUS
<1>1. PICK x \in Rest : \A y \in Rest : x <= y
  <2>1. Rest \subseteq Nat
    OBVIOUS
  <2>. HIDE DEF Rest
  <2>. QED
    BY <2>1, LeastExists
<1>2. x - 1 \in Nat /\ x - 1 < x /\ (x - 1) + 1 = x
  BY <1>1
<1>3. x - 1 \in S
  BY <1>1, <1>2
<1>. QED
  BY <1>1, <1>2, <1>3

\* Least is the lesser of its arguments.
LEMMA LeastIs ==
    ASSUME NEW a \in Nat, NEW b \in Nat
    PROVE  Cursor!Least(a, b) = IF a <= b THEN a ELSE b
<1>1. {a, b} \subseteq Nat /\ {a, b} # {}
  OBVIOUS
<1>2. Cursor!Min({a, b}) \in {a, b} /\ \A y \in {a, b} : Cursor!Min({a, b}) <= y
  BY <1>1, LeastExists DEF Cursor!Min
<1>. QED
  BY <1>2 DEF Cursor!Least

(***************************************************************************)
(* The cursor: the inductive invariant, and the moves                      *)
(***************************************************************************)

Grids == {"normal", "alt"}
Points == [row : Nat, col : Nat, lcf : BOOLEAN]
Cursors ==
    [rows : Nat, cols : Nat, grid : Grids, top : Nat, bottom : Nat,
     relative : BOOLEAN, wraps : BOOLEAN, rwraps : BOOLEAN,
     cursor : [Grids -> Points], saved : [Grids -> Points]]

\* A point is on the screen; a wrap is pending at the line's end only.
OnScreen(c, t) == c.row < t.rows /\ c.col < t.cols
Pending(c, t) == c.lcf => c.col = t.cols - 1
InRegion(row, t) == t.relative => t.top <= row /\ row < t.bottom

\* All but the cursor in use
Around(t) ==
    /\ t \in Cursors
    /\ t.top < t.bottom /\ t.bottom <= t.rows /\ 0 < t.cols
    /\ \A g \in Grids : OnScreen(t.saved[g], t) /\ Pending(t.saved[g], t)
    /\ \A g \in Grids : OnScreen(t.cursor[g], t) /\ (g # t.grid => Pending(t.cursor[g], t))

\* A wrap may be about to be forced, in the middle of term_print().
Rough(t) == Around(t) /\ InRegion(t.cursor[t.grid].row, t)
Fits(t) == Rough(t) /\ Pending(t.cursor[t.grid], t)

At(t, c) == [t EXCEPT !.cursor[t.grid] = c]

\* Moving the cursor of the grid in use changes nothing else of the screen ...
LEMMA PutAround ==
    ASSUME NEW t, Around(t), NEW c \in Points, OnScreen(c, t)
    PROVE  /\ Around(At(t, c))
           /\ At(t, c).cursor[t.grid] = c /\ At(t, c).grid = t.grid
           /\ At(t, c).rows = t.rows /\ At(t, c).cols = t.cols /\ At(t, c).top = t.top
           /\ At(t, c).bottom = t.bottom /\ At(t, c).relative = t.relative
           /\ At(t, c).wraps = t.wraps
<1>1. t \in Cursors /\ t.grid \in Grids
  BY DEF Around, Cursors
<1>2. At(t, c) = [rows |-> t.rows, cols |-> t.cols, grid |-> t.grid, top |-> t.top,
        bottom |-> t.bottom, relative |-> t.relative, wraps |-> t.wraps, rwraps |-> t.rwraps,
        cursor |-> [t.cursor EXCEPT ![t.grid] = c], saved |-> t.saved]
  BY <1>1 DEF At, Cursors
<1>3. [t.cursor EXCEPT ![t.grid] = c] \in [Grids -> Points]
  BY <1>1 DEF Cursors
<1>4. At(t, c) \in Cursors
  BY <1>1, <1>2, <1>3 DEF Cursors
<1>5. \A g \in Grids : At(t, c).cursor[g] = IF g = t.grid THEN c ELSE t.cursor[g]
  BY <1>1, <1>2 DEF Cursors
<1>. QED
  BY <1>1, <1>2, <1>4, <1>5 DEF Around, OnScreen, Pending

\* ... and fits when the new place does.
LEMMA Put ==
    ASSUME NEW t, Around(t), NEW c \in Points, OnScreen(c, t), InRegion(c.row, t), Pending(c, t)
    PROVE  Fits(At(t, c))
BY PutAround DEF Fits, Rough, InRegion, Pending

\* What assigning one field of a point makes of it.
LEMMA PointIs ==
    ASSUME NEW c \in Points, NEW col \in Nat, NEW b \in BOOLEAN
    PROVE  /\ [c EXCEPT !.lcf = b] = [row |-> c.row, col |-> c.col, lcf |-> b]
           /\ [c EXCEPT !.col = col] = [row |-> c.row, col |-> col, lcf |-> c.lcf]
           /\ [[c EXCEPT !.col = col] EXCEPT !.lcf = b]
                = [row |-> c.row, col |-> col, lcf |-> b]
<1>1. c = [row |-> c.row, col |-> c.col, lcf |-> c.lcf]
  BY DEF Points
<1>2. \A x, y, z : [[row |-> x, col |-> y, lcf |-> z] EXCEPT !.lcf = b]
                      = [row |-> x, col |-> y, lcf |-> b]
  OBVIOUS
<1>3. \A x, y, z : [[row |-> x, col |-> y, lcf |-> z] EXCEPT !.col = col]
                      = [row |-> x, col |-> col, lcf |-> z]
  OBVIOUS
<1>4. [c EXCEPT !.lcf = b] = [row |-> c.row, col |-> c.col, lcf |-> b]
  BY <1>1, <1>2
<1>5. [c EXCEPT !.col = col] = [row |-> c.row, col |-> col, lcf |-> c.lcf]
  BY <1>1, <1>3
<1>6. [[row |-> c.row, col |-> col, lcf |-> c.lcf] EXCEPT !.lcf = b]
         = [row |-> c.row, col |-> col, lcf |-> b]
  BY <1>2
<1>. QED
  BY <1>4, <1>5, <1>6, Zenon

\* Of two moves of a cursor the second one counts.
LEMMA Twice ==
    ASSUME NEW t, Around(t), NEW x, NEW y
    PROVE  /\ At(t, x).cursor[t.grid] = x
           /\ [At(t, x) EXCEPT !.cursor[t.grid] = y] = At(t, y)
<1>1. t \in Cursors /\ t.grid \in Grids
  BY DEF Around, Cursors
<1>. DEFINE m == t.cursor
<1>2. /\ DOMAIN m = Grids /\ m = [g \in Grids |-> m[g]]
  BY <1>1 DEF Cursors
<1>3. [m EXCEPT ![t.grid] = x][t.grid] = x
      /\ [[m EXCEPT ![t.grid] = x] EXCEPT ![t.grid] = y] = [m EXCEPT ![t.grid] = y]
  BY <1>1, <1>2
<1>4. t = [rows |-> t.rows, cols |-> t.cols, grid |-> t.grid, top |-> t.top,
        bottom |-> t.bottom, relative |-> t.relative, wraps |-> t.wraps, rwraps |-> t.rwraps,
        cursor |-> t.cursor, saved |-> t.saved]
  BY <1>1 DEF Cursors
<1>5. \A z : [t EXCEPT !.cursor = z] =
        [rows |-> t.rows, cols |-> t.cols, grid |-> t.grid, top |-> t.top,
        bottom |-> t.bottom, relative |-> t.relative, wraps |-> t.wraps, rwraps |-> t.rwraps,
        cursor |-> z, saved |-> t.saved]
  BY <1>4
<1>6. \A z, w : [[t EXCEPT !.cursor = z] EXCEPT !.cursor = w] = [t EXCEPT !.cursor = w]
  BY <1>5
<1>7. \A z : [t EXCEPT !.cursor = z].cursor = z
  BY <1>5
<1>. QED
  BY <1>3, <1>6, <1>7 DEF At

\* What the handlers do with a cursor, as the cursor that they put
LEMMA Moves ==
    ASSUME NEW t, Around(t), NEW col \in Nat, NEW row \in Nat, NEW b \in BOOLEAN
    PROVE  /\ Cursor!CursorTo(t, row, col) = At(t, [row |-> row, col |-> col, lcf |-> FALSE])
           /\ Cursor!CursorCol(t, col)
                = At(t, [row |-> t.cursor[t.grid].row, col |-> col, lcf |-> FALSE])
           /\ [t EXCEPT !.cursor[t.grid].lcf = b]
                = At(t, [row |-> t.cursor[t.grid].row, col |-> t.cursor[t.grid].col, lcf |-> b])
           /\ [t EXCEPT !.cursor[t.grid].col = col]
                = At(t, [row |-> t.cursor[t.grid].row, col |-> col,
                         lcf |-> t.cursor[t.grid].lcf])
           /\ [t EXCEPT !.cursor[t.grid].col = col, !.cursor[t.grid].lcf = b]
                = At(t, [row |-> t.cursor[t.grid].row, col |-> col, lcf |-> b])
<1>. DEFINE c == t.cursor[t.grid]
            moved == [c EXCEPT !.col = col]
<1>1. c \in Points
  BY DEF Around, Cursors
<1>2. Cursor!CursorTo(t, row, col) = At(t, [row |-> row, col |-> col, lcf |-> FALSE])
  BY DEF At, Cursor!CursorTo
<1>3. [t EXCEPT !.cursor[t.grid].lcf = b] = At(t, [row |-> c.row, col |-> c.col, lcf |-> b])
  <2>1. [c EXCEPT !.lcf = b] = [row |-> c.row, col |-> c.col, lcf |-> b]
    BY <1>1, PointIs
  <2>. QED
    BY <2>1, Zenon DEF At
<1>4. [t EXCEPT !.cursor[t.grid].col = col] = At(t, [row |-> c.row, col |-> col, lcf |-> c.lcf])
  <2>1. [c EXCEPT !.col = col] = [row |-> c.row, col |-> col, lcf |-> c.lcf]
    BY <1>1, PointIs
  <2>. QED
    BY <2>1, Zenon DEF At
<1>5. \A e \in BOOLEAN : [t EXCEPT !.cursor[t.grid].col = col, !.cursor[t.grid].lcf = e]
         = At(t, [row |-> c.row, col |-> col, lcf |-> e])
  <2>. TAKE e \in BOOLEAN
  <2>1. [moved EXCEPT !.lcf = e] = [row |-> c.row, col |-> col, lcf |-> e]
    BY <1>1, PointIs
  <2>. HIDE DEF moved
  <2>2. At(t, moved).cursor[t.grid] = moved
    BY Twice
  <2>3. [At(t, moved).cursor[t.grid] EXCEPT !.lcf = e] = [row |-> c.row, col |-> col, lcf |-> e]
    BY <2>1, <2>2, Zenon
  <2>4. [At(t, moved) EXCEPT !.cursor[t.grid] = [row |-> c.row, col |-> col, lcf |-> e]]
          = At(t, [row |-> c.row, col |-> col, lcf |-> e])
    BY Twice
  <2>5. [At(t, moved) EXCEPT !.cursor[t.grid].lcf = e]
          = At(t, [row |-> c.row, col |-> col, lcf |-> e])
    BY <2>3, <2>4, Zenon
  <2>. QED
    BY <2>5, Zenon DEF moved, At
<1>. QED
  BY <1>2, <1>3, <1>4, <1>5, Zenon DEF Cursor!CursorCol

\* term_cursor_to() is a move that forgets the pending wrap ...
LEMMA ToIs ==
    ASSUME NEW t, NEW row, NEW col
    PROVE  Cursor!CursorTo(t, row, col) = At(t, [row |-> row, col |-> col, lcf |-> FALSE])
BY Zenon DEF At, Cursor!CursorTo

\* ... and fits when its target lies on the screen and in the region.
LEMMA ToFits ==
    ASSUME NEW t, Around(t), NEW row \in Nat, NEW col \in Nat,
           row < t.rows, col < t.cols, InRegion(row, t)
    PROVE  Fits(Cursor!CursorTo(t, row, col))
<1>. DEFINE c == [row |-> row, col |-> col, lcf |-> FALSE]
<1>1. c \in Points /\ OnScreen(c, t) /\ Pending(c, t) /\ InRegion(c.row, t)
  BY DEF Points, OnScreen, Pending
<1>2. Cursor!CursorTo(t, row, col) = At(t, c)
  BY ToIs
<1>. QED
  BY <1>1, <1>2, Put

\* term_cursor_col(): a move along the row the cursor is on.
LEMMA ColFits ==
    ASSUME NEW t, Fits(t), NEW col \in Nat, col < t.cols
    PROVE  Fits(Cursor!CursorCol(t, col))
<1>. DEFINE c == [row |-> t.cursor[t.grid].row, col |-> col, lcf |-> FALSE]
<1>1. Around(t) /\ t.cursor[t.grid] \in Points /\ t.grid \in Grids
  BY DEF Fits, Rough, Around, Cursors
<1>2. c \in Points /\ OnScreen(c, t) /\ Pending(c, t) /\ InRegion(c.row, t)
  BY <1>1 DEF Fits, Rough, Around, Points, OnScreen, Pending, InRegion
<1>3. Cursor!CursorCol(t, col) = At(t, c)
  BY <1>1, Moves
<1>. QED
  BY <1>1, <1>2, <1>3, Put

\* What the cursor in use is known to be
LEMMA Here ==
    ASSUME NEW t, Rough(t)
    PROVE  /\ Around(t) /\ t.grid \in Grids /\ t.cursor[t.grid] \in Points
           /\ t.cursor[t.grid].row \in Nat /\ t.cursor[t.grid].col \in Nat
           /\ t.cursor[t.grid].lcf \in BOOLEAN
           /\ t.rows \in Nat /\ t.cols \in Nat /\ t.top \in Nat /\ t.bottom \in Nat
           /\ t.cursor[t.grid].row < t.rows /\ t.cursor[t.grid].col < t.cols
           /\ t.top < t.bottom /\ t.bottom <= t.rows /\ 0 < t.cols
           /\ t.relative \in BOOLEAN /\ t.wraps \in BOOLEAN
           /\ t.relative => t.top <= t.cursor[t.grid].row /\ t.cursor[t.grid].row < t.bottom
<1>1. Around(t) /\ t.grid \in Grids /\ t.cursor[t.grid] \in Points
  BY DEF Rough, Around, Cursors
<1>. QED
  BY <1>1 DEF Rough, InRegion, Around, Cursors, Points, OnScreen

\* Forgetting the pending wrap moves nothing.
LEMMA UnpendFits ==
    ASSUME NEW t, Fits(t)
    PROVE  Fits([t EXCEPT !.cursor[t.grid].lcf = FALSE])
<1>. DEFINE c == [row |-> t.cursor[t.grid].row, col |-> t.cursor[t.grid].col, lcf |-> FALSE]
<1>1. Rough(t)
  BY DEF Fits
<1>2. c \in Points /\ OnScreen(c, t) /\ Pending(c, t) /\ InRegion(c.row, t)
  BY <1>1, Here DEF Points, OnScreen, Pending, InRegion
<1>3. [t EXCEPT !.cursor[t.grid].lcf = FALSE] = At(t, c)
  BY <1>1, Here, Moves, Zenon
<1>. QED
  BY <1>1, <1>2, <1>3, Here, Put

\* term_row_rel_to_abs() clamps to the screen, and in origin mode to the region.
LEMMA RowIs ==
    ASSUME NEW t, Around(t), NEW row \in Nat
    PROVE  /\ Cursor!RowRelToAbs(t, row) \in Nat /\ Cursor!RowRelToAbs(t, row) < t.rows
           /\ InRegion(Cursor!RowRelToAbs(t, row), t)
<1>1. /\ t.rows \in Nat /\ t.top \in Nat /\ t.bottom \in Nat /\ t.relative \in BOOLEAN
      /\ t.top < t.bottom /\ t.bottom <= t.rows
  BY DEF Around, Cursors
<1>2. row + t.top \in Nat /\ t.bottom - 1 \in Nat /\ t.rows - 1 \in Nat
  BY <1>1
<1>. QED
  BY <1>1, <1>2, LeastIs DEF Cursor!RowRelToAbs, InRegion

\* term_cursor_home(): the first row of the screen, or of the region.
LEMMA HomeFits ==
    ASSUME NEW t, Around(t)
    PROVE  Fits(Cursor!CursorHome(t))
BY RowIs, ToFits DEF Cursor!CursorHome, Around, Cursors

\* Left, right and carriage return stay on the row and within the columns.
LEMMA SidewaysFits ==
    ASSUME NEW t, Fits(t), NEW count \in Nat
    PROVE  /\ Fits(Cursor!CursorLeft(t, count)) /\ Fits(Cursor!CursorRight(t, count))
           /\ Fits(Cursor!CarriageReturn(t))
<1>. DEFINE col == t.cursor[t.grid].col
<1>1. /\ col \in Nat /\ t.cols \in Nat /\ col < t.cols
  BY Here DEF Fits
<1>2. t.cols - col - 1 \in Nat
  BY <1>1
<1>3. \A n \in Nat : col - Cursor!Least(col, n) \in Nat /\ col - Cursor!Least(col, n) < t.cols
  BY <1>1, LeastIs
<1>4. /\ col + Cursor!Least(t.cols - col - 1, count) \in Nat
      /\ col + Cursor!Least(t.cols - col - 1, count) < t.cols
  BY <1>1, <1>2, LeastIs
<1>5. \A n \in Nat : Fits(Cursor!CursorLeft(t, n))
  BY <1>3, ColFits DEF Cursor!CursorLeft
<1>. QED
  BY <1>1, <1>4, <1>5, ColFits DEF Cursor!CursorRight, Cursor!CarriageReturn

\* Up and down are clamped to the region in origin mode, else to the screen.
LEMMA UpDownFits ==
    ASSUME NEW t, Fits(t), NEW count \in Nat
    PROVE  Fits(Cursor!CursorUp(t, count)) /\ Fits(Cursor!CursorDown(t, count))
<1>. DEFINE c == t.cursor[t.grid]
            top == IF t.relative THEN t.top ELSE 0
            bottom == IF t.relative THEN t.bottom ELSE t.rows
            up == c.row - Cursor!Least(c.row - top, count)
            down == c.row + Cursor!Least(bottom - c.row - 1, count)
<1>1. Rough(t)
  BY DEF Fits
<1>2. /\ c.row \in Nat /\ c.col \in Nat /\ c.col < t.cols /\ c.row < t.rows
      /\ t.rows \in Nat /\ t.top \in Nat /\ t.bottom \in Nat
      /\ t.bottom <= t.rows
      /\ t.relative => t.top <= c.row /\ c.row < t.bottom
  BY <1>1, Here
<1>3. c.row - top \in Nat /\ bottom - c.row - 1 \in Nat /\ bottom <= t.rows
  BY <1>2
<1>4. up \in Nat /\ up < t.rows /\ InRegion(up, t)
  BY <1>2, <1>3, LeastIs DEF InRegion
<1>5. down \in Nat /\ down < t.rows /\ InRegion(down, t)
  BY <1>2, <1>3, LeastIs DEF InRegion
<1>6. Around(t)
  BY <1>1 DEF Rough
<1>7. Fits(Cursor!CursorTo(t, up, c.col)) /\ Fits(Cursor!CursorTo(t, down, c.col))
  BY <1>2, <1>4, <1>5, <1>6, ToFits
<1>. QED
  BY <1>7 DEF Cursor!CursorUp, Cursor!CursorDown

\* A linefeed or a reverse index at the region's edge scrolls; elsewhere it moves.
LEMMA LineFits ==
    ASSUME NEW t, Fits(t)
    PROVE  Fits(Cursor!Linefeed(t)) /\ Fits(Cursor!ReverseIndex(t))
BY UnpendFits, UpDownFits DEF Cursor!Linefeed, Cursor!ReverseIndex

\* Printing
LEMMA WrapFits ==
    ASSUME NEW t, Rough(t), t.wraps \/ Pending(t.cursor[t.grid], t)
    PROVE  Fits(Cursor!PrintLinewrap(t)) /\ Cursor!PrintLinewrap(t).wraps = t.wraps
           /\ (t.wraps => ~Cursor!PrintLinewrap(t).cursor[Cursor!PrintLinewrap(t).grid].lcf)
<1>. DEFINE c == t.cursor[t.grid]
            row == IF c.row = t.bottom - 1 THEN c.row ELSE Cursor!Least(c.row + 1, t.rows - 1)
<1>1. CASE ~c.lcf \/ ~t.wraps
  BY <1>1, Here DEF Cursor!PrintLinewrap, Fits, Pending
<1>2. CASE c.lcf /\ t.wraps
  <2>1. t.rows - 1 \in Nat /\ c.row + 1 \in Nat
    BY Here
  <2>2. row \in Nat /\ row < t.rows /\ InRegion(row, t)
    BY <2>1, Here, LeastIs DEF InRegion
  <2>3. Cursor!PrintLinewrap(t) = Cursor!CursorTo(t, row, 0)
    BY <1>2 DEF Cursor!PrintLinewrap
  <2>4. Around(t) /\ 0 < t.cols
    BY Here
  <2>5. Fits(Cursor!CursorTo(t, row, 0))
    BY <2>2, <2>4, ToFits
  <2>6. Cursor!CursorTo(t, row, 0) = At(t, [row |-> row, col |-> 0, lcf |-> FALSE])
    BY ToIs, Zenon
  <2>7. [row |-> row, col |-> 0, lcf |-> FALSE] \in Points
        /\ OnScreen([row |-> row, col |-> 0, lcf |-> FALSE], t)
    BY <2>2, <2>4 DEF Points, OnScreen
  <2>. DEFINE p == [row |-> row, col |-> 0, lcf |-> FALSE]
  <2>8. p \in Points /\ OnScreen(p, t) /\ p.lcf = FALSE
    BY <2>7
  <2>9. Cursor!PrintLinewrap(t) = At(t, p)
    BY <2>3, <2>6, Zenon
  <2>. HIDE DEF p, row
  <2>10. At(t, p).cursor[t.grid] = p /\ At(t, p).grid = t.grid /\ At(t, p).wraps = t.wraps
    BY <2>4, <2>8, PutAround
  <2>. QED
    BY <2>3, <2>5, <2>8, <2>9, <2>10
<1>. QED
  BY <1>1, <1>2, Here

\* What is printed in the last column leaves the cursor there, pending.
LEMMA AdvancedFits ==
    ASSUME NEW t, Fits(t), NEW width \in {1, 2}
    PROVE  Fits(Cursor!Advanced(t, width))
<1>. DEFINE c == t.cursor[t.grid]
            last == [row |-> c.row, col |-> t.cols - 1, lcf |-> TRUE]
            next == [row |-> c.row, col |-> c.col + width, lcf |-> c.lcf]
<1>0. Rough(t)
  BY DEF Fits
<1>1. /\ Around(t) /\ c.row \in Nat /\ c.col \in Nat /\ t.cols \in Nat /\ c.col < t.cols
      /\ c.lcf \in BOOLEAN /\ c.row < t.rows /\ t.rows \in Nat
  BY <1>0, Here
<1>2. CASE c.col + width > t.cols - 1
  <2>1. t.cols - 1 \in Nat /\ t.cols - 1 < t.cols
    BY <1>1
  <2>2. last \in Points /\ OnScreen(last, t) /\ Pending(last, t) /\ InRegion(last.row, t)
    BY <1>0, <1>1, <2>1 DEF Points, OnScreen, Pending, Rough
  <2>3. Cursor!Advanced(t, width) = At(t, last)
    BY <1>1, <1>2, <2>1, Moves DEF Cursor!Advanced
  <2>. QED
    BY <1>1, <2>2, <2>3, Put
<1>3. CASE ~(c.col + width > t.cols - 1)
  <2>1. c.col + width \in Nat /\ c.col + width < t.cols /\ c.col # t.cols - 1
    BY <1>1, <1>3
  <2>2. ~c.lcf
    BY <2>1 DEF Fits, Pending
  <2>3. next \in Points /\ OnScreen(next, t) /\ Pending(next, t) /\ InRegion(next.row, t)
    BY <1>0, <1>1, <2>1, <2>2 DEF Points, OnScreen, Pending, Rough
  <2>4. Cursor!Advanced(t, width) = At(t, next)
    BY <1>1, <1>3, <2>1, Moves DEF Cursor!Advanced
  <2>. QED
    BY <1>1, <2>3, <2>4, Put
<1>. QED
  BY <1>2, <1>3

\* term_print(): the pending wrap first, the character, then the advance.
LEMMA PrintedFits ==
    ASSUME NEW t, Fits(t), NEW width \in {1, 2}
    PROVE  Fits(Cursor!Printed(t, width))
<1>. DEFINE u == Cursor!PrintLinewrap(t)
            c == u.cursor[u.grid]
            forced == [row |-> c.row, col |-> c.col, lcf |-> TRUE]
<1>1. Fits(u)
  BY WrapFits DEF Fits
<1>. HIDE DEF u
<1>2. Rough(u) /\ Around(u) /\ forced \in Points /\ OnScreen(forced, u) /\ u.grid \in Grids
      /\ InRegion(c.row, u)
  BY <1>1, Here DEF Fits, Points, OnScreen, Rough
<1>3. [u EXCEPT !.cursor[u.grid].lcf = TRUE] = At(u, forced)
  BY <1>2, Here, Moves
<1>4. Rough(At(u, forced)) /\ At(u, forced).wraps = u.wraps
  BY <1>2, PutAround DEF Rough, InRegion
<1>5. u.wraps => Fits(Cursor!PrintLinewrap(At(u, forced)))
  BY <1>4, WrapFits
<1>6. Fits(Cursor!Advanced(u, width))
  BY <1>1, AdvancedFits
<1>7. u.wraps => Fits(Cursor!Advanced(Cursor!PrintLinewrap(At(u, forced)), width))
  BY <1>5, AdvancedFits
<1>. QED
  BY <1>3, <1>6, <1>7 DEF Cursor!Printed, u

\* Changing the region, origin mode or automatic margins leaves the cursors alone.
LEMMA RegionAround ==
    ASSUME NEW t, Around(t), NEW top \in Nat, NEW bottom \in Nat, top < bottom, bottom <= t.rows
    PROVE  Around([t EXCEPT !.top = top, !.bottom = bottom])
<1>. DEFINE u == [t EXCEPT !.top = top, !.bottom = bottom]
<1>1. /\ u \in Cursors /\ u.rows = t.rows /\ u.cols = t.cols /\ u.grid = t.grid
      /\ u.top = top /\ u.bottom = bottom /\ u.relative = t.relative /\ u.wraps = t.wraps
      /\ u.cursor = t.cursor /\ u.saved = t.saved
  BY DEF Around, Cursors
<1>. HIDE DEF u
<1>2. Around(u)
  BY <1>1 DEF Around, OnScreen, Pending
<1>. QED
  BY <1>2 DEF u

\* Origin mode itself moves nothing; its callers send the cursor home.
LEMMA OriginAround ==
    ASSUME NEW t, Around(t), NEW on \in BOOLEAN
    PROVE  Around([t EXCEPT !.relative = on])
<1>. DEFINE u == [t EXCEPT !.relative = on]
<1>1. /\ u \in Cursors /\ u.rows = t.rows /\ u.cols = t.cols /\ u.grid = t.grid
      /\ u.top = t.top /\ u.bottom = t.bottom /\ u.relative = on /\ u.wraps = t.wraps
      /\ u.cursor = t.cursor /\ u.saved = t.saved
  BY DEF Around, Cursors
<1>. HIDE DEF u
<1>2. Around(u)
  BY <1>1 DEF Around, OnScreen, Pending
<1>. QED
  BY <1>2 DEF u

\* Turning auto-wrap off or on drops the pending wrap; reverse wrap does not look.
LEMMA WrapsFit ==
    ASSUME NEW t, Fits(t), NEW on \in BOOLEAN
    PROVE  /\ Fits([t EXCEPT !.rwraps = on])
           /\ Fits([t EXCEPT !.wraps = on, !.cursor[t.grid].lcf = FALSE])
<1>. DEFINE u == [t EXCEPT !.wraps = on]
            w == [t EXCEPT !.rwraps = on]
<1>0. t \in Cursors
  BY DEF Fits, Rough, Around
<1>1. /\ u \in Cursors /\ u.rows = t.rows /\ u.cols = t.cols /\ u.grid = t.grid
      /\ u.top = t.top /\ u.bottom = t.bottom /\ u.relative = t.relative /\ u.wraps = on
      /\ u.cursor = t.cursor /\ u.saved = t.saved
  BY <1>0 DEF Cursors
<1>2. /\ w \in Cursors /\ w.rows = t.rows /\ w.cols = t.cols /\ w.grid = t.grid
      /\ w.top = t.top /\ w.bottom = t.bottom /\ w.relative = t.relative /\ w.wraps = t.wraps
      /\ w.cursor = t.cursor /\ w.saved = t.saved
  BY <1>0 DEF Cursors
<1>. HIDE DEF u, w
<1>3. Fits(w)
  BY <1>2 DEF Fits, Rough, Around, OnScreen, Pending, InRegion
<1>4. Fits(u)
  BY <1>1 DEF Fits, Rough, Around, OnScreen, Pending, InRegion
<1>5. Fits([u EXCEPT !.cursor[u.grid].lcf = FALSE])
  BY <1>4, UnpendFits
<1>6. Fits([u EXCEPT !.cursor[t.grid].lcf = FALSE])
  BY <1>1, <1>5, Zenon
<1>. QED
  BY <1>3, <1>6, Zenon DEF u, w

\* Saving the cursor keeps one that was on the screen at that time ...
LEMMA SavedFits ==
    ASSUME NEW t, Fits(t)
    PROVE  Fits(Cursor!Saved(t)) /\ Cursor!Saved(t).grid = t.grid
<1>0. Around(t) /\ t \in Cursors /\ t.grid \in Grids /\ t.cursor[t.grid] \in Points
  BY DEF Fits, Rough, Around, Cursors
<1>. DEFINE m == [t.saved EXCEPT ![t.grid] = t.cursor[t.grid]]
            u == [t EXCEPT !.saved = m]
<1>1. m \in [Grids -> Points]
  BY <1>0 DEF Cursors
<1>2. \A g \in Grids : OnScreen(m[g], t) /\ Pending(m[g], t)
  BY <1>0 DEF Fits, Rough, Around, Cursors
<1>. HIDE DEF m
<1>3. /\ u \in Cursors /\ u.rows = t.rows /\ u.cols = t.cols /\ u.grid = t.grid
      /\ u.top = t.top /\ u.bottom = t.bottom /\ u.relative = t.relative /\ u.wraps = t.wraps
      /\ u.cursor = t.cursor /\ u.saved = m
  BY <1>0, <1>1 DEF Cursors
<1>. HIDE DEF u
<1>4. Fits(u)
  BY <1>0, <1>2, <1>3 DEF Fits, Rough, Around, OnScreen, Pending, InRegion
<1>. QED
  BY <1>3, <1>4, Zenon DEF m, u, Cursor!Saved

\* A state but for the region that its cursor is to be in
Placed(t) == Around(t) /\ Pending(t.cursor[t.grid], t)

\* ... and restoring it clamps to the screen there is now.
LEMMA RestoredPlaced ==
    ASSUME NEW t, Around(t)
    PROVE  Placed(Cursor!Restored(t))
<1>. DEFINE c == t.saved[t.grid]
            row == Cursor!Least(c.row, t.rows - 1)
            col == Cursor!Least(c.col, t.cols - 1)
            p == [row |-> row, col |-> col, lcf |-> FALSE]
            r == [row |-> row, col |-> col, lcf |-> c.lcf]
<1>1. /\ t.grid \in Grids /\ c \in Points /\ OnScreen(c, t) /\ Pending(c, t)
      /\ t.rows \in Nat /\ t.cols \in Nat
  BY DEF Around, Cursors
<1>2. c.row \in Nat /\ c.col \in Nat /\ c.lcf \in BOOLEAN /\ c.row < t.rows /\ c.col < t.cols
  BY <1>1 DEF Points, OnScreen
<1>3. row = c.row /\ col = c.col
  BY <1>1, <1>2, LeastIs
<1>4. r \in Points /\ OnScreen(r, t) /\ Pending(r, t)
  BY <1>1, <1>2, <1>3 DEF Points, OnScreen, Pending
<1>5. p \in Points /\ [p EXCEPT !.lcf = c.lcf] = r
  BY <1>2, <1>3 DEF Points
<1>. HIDE DEF p, r, row, col
<1>6. Cursor!Restored(t) = At(t, r)
  <2>1. Cursor!CursorTo(t, row, col) = At(t, p)
    BY ToIs, Zenon DEF p
  <2>2. At(t, p).cursor[t.grid] = p /\ [At(t, p) EXCEPT !.cursor[t.grid] = r] = At(t, r)
    BY Twice
  <2>3. [At(t, p).cursor[t.grid] EXCEPT !.lcf = c.lcf] = r
    BY <1>5, <2>2, Zenon
  <2>4. [At(t, p) EXCEPT !.cursor[t.grid].lcf = c.lcf] = At(t, r)
    BY <2>2, <2>3, Zenon
  <2>. QED
    BY <2>1, <2>4, Zenon DEF Cursor!Restored, row, col
<1>. QED
  BY <1>4, <1>6, PutAround DEF Placed, Pending

\* Switching screens carries the cursor over to the other grid.
LEMMA CarriedFits ==
    ASSUME NEW t, Fits(t), NEW g \in Grids
    PROVE  Fits(Cursor!Carried(t, g)) /\ Cursor!Carried(t, g).grid = g
<1>. DEFINE c == t.cursor[t.grid]
            row == Cursor!Least(c.row, t.rows - 1)
            col == Cursor!Least(c.col, t.cols - 1)
            u == [t EXCEPT !.grid = g]
<1>1. Rough(t) /\ Around(t) /\ t \in Cursors
  BY DEF Fits, Rough, Around
<1>2. /\ c.row \in Nat /\ c.col \in Nat /\ c.row < t.rows /\ c.col < t.cols
      /\ t.rows \in Nat /\ t.cols \in Nat /\ InRegion(c.row, t)
  BY <1>1, Here DEF Rough
<1>3. row = c.row /\ col = c.col
  BY <1>2, LeastIs
<1>4. /\ u \in Cursors /\ u.rows = t.rows /\ u.cols = t.cols /\ u.grid = g
      /\ u.top = t.top /\ u.bottom = t.bottom /\ u.relative = t.relative /\ u.wraps = t.wraps
      /\ u.cursor = t.cursor /\ u.saved = t.saved
  BY <1>1 DEF Cursors
<1>5. Around(u) /\ InRegion(c.row, u)
  BY <1>1, <1>2, <1>4 DEF Fits, Rough, Around, OnScreen, Pending, InRegion
<1>. HIDE DEF u, row, col
<1>6. Fits(Cursor!CursorTo(u, row, col))
  BY <1>2, <1>3, <1>4, <1>5, ToFits
<1>. DEFINE p == [row |-> row, col |-> col, lcf |-> FALSE]
<1>7. p \in Points /\ OnScreen(p, u)
  BY <1>2, <1>3, <1>4 DEF Points, OnScreen
<1>. HIDE DEF p
<1>8. At(u, p).grid = g
  BY <1>4, <1>5, <1>7, PutAround
<1>9. Cursor!CursorTo(u, row, col) = At(u, p)
  BY ToIs, Zenon DEF p
<1>. QED
  BY <1>6, <1>8, <1>9 DEF Cursor!Carried, u, row, col

\* A reset, soft or full: the region is the whole screen before anything moves.
LEMMA SoftFits ==
    ASSUME NEW t, Fits(t)
    PROVE  /\ Fits(Cursor!SoftReset(t))
           /\ Fits([Cursor!SoftReset(t) EXCEPT !.relative = FALSE,
                      !.cursor = [g \in Grids |-> Cursor!Origin],
                      !.saved = [g \in Grids |-> Cursor!Origin]])
<1>. DEFINE u == Cursor!SoftReset(t)
            zero == [g \in Grids |-> Cursor!Origin]
            w == [u EXCEPT !.relative = FALSE, !.cursor = zero, !.saved = zero]
<1>1. Rough(t) /\ Around(t) /\ t \in Cursors
  BY DEF Fits, Rough, Around
<1>2. t.rows \in Nat /\ 0 < t.rows /\ t.cols \in Nat /\ 0 < t.cols /\ "normal" \in Grids
  BY <1>1, Here DEF Grids
<1>3. /\ u \in Cursors /\ u.rows = t.rows /\ u.cols = t.cols /\ u.grid = "normal"
      /\ u.top = 0 /\ u.bottom = t.rows /\ u.relative = t.relative /\ u.wraps
      /\ u.cursor = t.cursor /\ u.saved = t.saved
  BY <1>1, <1>2 DEF Cursors, Cursor!SoftReset
<1>. HIDE DEF u
<1>4. zero \in [Grids -> Points] /\ \A g \in Grids : zero[g] = Cursor!Origin
  BY DEF Cursor!Origin, Points
<1>. HIDE DEF zero
<1>5. /\ w \in Cursors /\ w.rows = u.rows /\ w.cols = u.cols /\ w.grid = u.grid
      /\ w.top = u.top /\ w.bottom = u.bottom /\ ~w.relative /\ w.wraps = u.wraps
      /\ w.cursor = zero /\ w.saved = zero
  BY <1>3, <1>4 DEF Cursors
<1>. HIDE DEF w
<1>6. Fits(u)
  BY <1>1, <1>2, <1>3 DEF Fits, Rough, Around, OnScreen, Pending, InRegion, Cursors, Points
<1>7. Fits(w)
  BY <1>2, <1>3, <1>4, <1>5 DEF Fits, Rough, Around, OnScreen, Pending, InRegion, Cursor!Origin
<1>. QED
  BY <1>6, <1>7 DEF u, w, zero

\* Two grids, one record.
LEMMA Pair ==
    ASSUME NEW x \in Points, NEW y \in Points
    PROVE  /\ [normal |-> x, alt |-> y] \in [Grids -> Points]
           /\ [normal |-> x, alt |-> y]["normal"] = x /\ [normal |-> x, alt |-> y]["alt"] = y
BY DEF Grids

\* A point of the alternate screen stays on the last row, or where it is.
IsClamped(d, c, rows, cols, old) ==
    /\ d \in Points /\ d.row < rows /\ d.col < cols /\ ~d.lcf
    /\ d.row = IF c.row = old - 1 \/ c.row > rows - 1 THEN rows - 1 ELSE c.row

\* The alternate screen's cursor is clamped by a resize without reflow ...
LEMMA ClampedIs ==
    ASSUME NEW c \in Points, NEW rows \in Nat \ {0}, NEW cols \in Nat \ {0}, NEW old \in Nat
    PROVE  IsClamped(Cursor!Clamped(c, rows, cols, old), c, rows, cols, old)
<1>. DEFINE d == Cursor!Clamped(c, rows, cols, old)
<1>1. c.row \in Nat /\ c.col \in Nat /\ rows - 1 \in Nat /\ cols - 1 \in Nat
  BY DEF Points
<1>2. d.row = IF c.row = old - 1 \/ c.row > rows - 1 THEN rows - 1 ELSE c.row
  BY <1>1, LeastIs DEF Cursor!Clamped
<1>3. d.col \in Nat /\ d.col < cols /\ d.lcf = FALSE
  BY <1>1, LeastIs DEF Cursor!Clamped
<1>4. d = [row |-> d.row, col |-> d.col, lcf |-> d.lcf]
  BY DEF Cursor!Clamped
<1>. HIDE DEF d
<1>5. d.row \in Nat /\ d.row < rows
  BY <1>1, <1>2
<1>6. d \in Points
  BY <1>3, <1>4, <1>5, Zenon DEF Points
<1>. QED
  BY <1>2, <1>3, <1>5, <1>6 DEF IsClamped, d

\* ... the normal one's goes wherever reflow puts its cell.
LEMMA ReflowedIs ==
    ASSUME NEW c \in Points, NEW rows \in Nat \ {0}, NEW cols \in Nat \ {0},
           NEW d \in Cursor!Reflowed(c, rows, cols)
    PROVE  d \in Points /\ d.row < rows /\ d.col < cols /\ (d.lcf => d.col = cols - 1)
<1>1. rows - 1 \in Nat /\ cols - 1 \in Nat
  OBVIOUS
<1>2. CASE d \in [row : 0 .. rows - 1, col : 0 .. cols - 1, lcf : {FALSE}]
  <2>1. d.row \in 0 .. rows - 1 /\ d.col \in 0 .. cols - 1 /\ d.lcf = FALSE
        /\ d = [row |-> d.row, col |-> d.col, lcf |-> d.lcf]
    BY <1>2
  <2>2. d.row \in Nat /\ d.col \in Nat /\ d.row < rows /\ d.col < cols
    BY <1>1, <2>1
  <2>3. d \in Points
    BY <2>1, <2>2, Zenon DEF Points
  <2>. QED
    BY <2>1, <2>2, <2>3
<1>3. CASE d \in [row : 0 .. rows - 1, col : {cols - 1}, lcf : {TRUE}]
  <2>1. d.row \in 0 .. rows - 1 /\ d.col = cols - 1 /\ d.lcf = TRUE
        /\ d = [row |-> d.row, col |-> d.col, lcf |-> d.lcf]
    BY <1>3
  <2>2. d.row \in Nat /\ d.col \in Nat /\ d.row < rows /\ d.col < cols
    BY <1>1, <2>1
  <2>3. d \in Points
    BY <2>1, <2>2, Zenon DEF Points
  <2>. QED
    BY <2>1, <2>2, <2>3
<1>. QED
  BY <1>2, <1>3 DEF Cursor!Reflowed

\* A resize cuts the region to the new screen and gives every cursor a place on it;
\* only reflowing may leave the normal screen's cursor outside of the region, which
\* is the defect the theorem excludes.
LEMMA ResizeFits ==
    ASSUME Fits(s), Defects = {}, Cursor!Resize
    PROVE  Fits(s')
<1>1. PICK size \in Sizes :
        /\ \E c \in Cursor!Reflowed(s.cursor.normal, size[1], size[2]),
              d \in Cursor!Reflowed(s.saved.normal, size[1], size[2]) :
              s' = [Cursor!Region(s, size[1]) EXCEPT
                      !.rows = size[1], !.cols = size[2],
                      !.cursor = [normal |-> c,
                                  alt |-> Cursor!Clamped(@.alt, size[1], size[2], s.rows)],
                      !.saved = [normal |-> d,
                                 alt |-> Cursor!Clamped(@.alt, size[1], size[2], s.rows)]]
        /\ \/ "reflowed outside" \in Defects \/ s.grid = "alt" \/ ~s.relative
           \/ s'.cursor.normal.row \in s'.top .. s'.bottom - 1
  BY DEF Cursor!Resize
<1>. DEFINE rows == size[1]
            cols == size[2]
<1>2. rows \in Nat \ {0} /\ cols \in Nat \ {0}
  BY TerminalAssumption
<1>3. PICK c \in Cursor!Reflowed(s.cursor.normal, rows, cols),
           d \in Cursor!Reflowed(s.saved.normal, rows, cols) :
        s' = [Cursor!Region(s, rows) EXCEPT
                !.rows = rows, !.cols = cols,
                !.cursor = [normal |-> c, alt |-> Cursor!Clamped(@.alt, rows, cols, s.rows)],
                !.saved = [normal |-> d, alt |-> Cursor!Clamped(@.alt, rows, cols, s.rows)]]
  BY <1>1
<1>. HIDE DEF rows, cols
<1>4. /\ Rough(s) /\ Around(s) /\ s \in Cursors
      /\ s.cursor["normal"] \in Points /\ s.cursor["alt"] \in Points
      /\ s.saved["normal"] \in Points /\ s.saved["alt"] \in Points
  BY DEF Fits, Rough, Around, Cursors, Grids
<1>. DEFINE e == Cursor!Clamped(s.cursor.alt, rows, cols, s.rows)
            f == Cursor!Clamped(s.saved.alt, rows, cols, s.rows)
            top == IF s.top >= rows THEN 0 ELSE s.top
            bottom == IF s.bottom > rows \/ s.bottom >= s.rows THEN rows ELSE s.bottom
            cursor == [normal |-> c, alt |-> e]
            saved == [normal |-> d, alt |-> f]
            mid == Cursor!Region(s, rows)
<1>5. /\ s.rows \in Nat /\ s.top \in Nat /\ s.bottom \in Nat
      /\ s.top < s.bottom /\ s.bottom <= s.rows
  BY <1>4, Here
<1>6. top \in Nat /\ bottom \in Nat /\ top < bottom /\ bottom <= rows
  BY <1>2, <1>5
<1>7. /\ mid \in Cursors /\ mid.grid = s.grid /\ mid.cursor = s.cursor /\ mid.saved = s.saved
      /\ mid.top = top /\ mid.bottom = bottom /\ mid.relative = s.relative
  BY <1>2, <1>4, <1>6 DEF Cursors, Cursor!Region
<1>8. /\ c \in Points /\ c.row < rows /\ c.col < cols /\ (c.lcf => c.col = cols - 1)
      /\ d \in Points /\ d.row < rows /\ d.col < cols /\ (d.lcf => d.col = cols - 1)
  BY <1>2, <1>4, ReflowedIs
<1>9. /\ e \in Points /\ e.row < rows /\ e.col < cols /\ ~e.lcf
      /\ f \in Points /\ f.row < rows /\ f.col < cols /\ ~f.lcf
      /\ e.row = IF s.cursor.alt.row = s.rows - 1 \/ s.cursor.alt.row > rows - 1
                 THEN rows - 1 ELSE s.cursor.alt.row
  <2>1. IsClamped(e, s.cursor["alt"], rows, cols, s.rows)
    BY <1>2, <1>4, <1>5, ClampedIs
  <2>2. IsClamped(f, s.saved["alt"], rows, cols, s.rows)
    BY <1>2, <1>4, <1>5, ClampedIs
  <2>. QED
    BY <2>1, <2>2 DEF IsClamped
<1>10. /\ cursor \in [Grids -> Points] /\ cursor["normal"] = c /\ cursor["alt"] = e
       /\ saved \in [Grids -> Points] /\ saved["normal"] = d /\ saved["alt"] = f
  BY <1>8, <1>9, Pair
<1>11. s' = [mid EXCEPT !.rows = rows, !.cols = cols, !.cursor = cursor, !.saved = saved]
  BY <1>3, <1>7
<1>. HIDE DEF mid, cursor, saved, e, f, top, bottom
<1>12. /\ s' \in Cursors /\ s'.rows = rows /\ s'.cols = cols /\ s'.cursor = cursor
       /\ s'.saved = saved /\ s'.grid = s.grid /\ s'.top = top /\ s'.bottom = bottom
       /\ s'.relative = s.relative
  BY <1>2, <1>7, <1>10, <1>11 DEF Cursors
<1>13. Around(s')
  BY <1>2, <1>6, <1>8, <1>9, <1>10, <1>12 DEF Around, OnScreen, Pending, Grids, Points
<1>14. Pending(s'.cursor[s'.grid], s')
  BY <1>4, <1>8, <1>9, <1>10, <1>12 DEF Pending, Cursors, Grids
<1>15. InRegion(s'.cursor[s'.grid].row, s')
  <2>1. CASE s.grid = "normal"
    <3>1. ~s.relative \/ s'.cursor.normal.row \in s'.top .. s'.bottom - 1
      BY <1>1, <2>1
    <3>2. ~s.relative \/ c.row \in top .. bottom - 1
      BY <1>10, <1>12, <3>1
    <3>. QED
      BY <1>6, <1>10, <1>12, <2>1, <3>2 DEF InRegion
  <2>2. CASE s.grid = "alt"
    <3>1. s.relative => s.top <= s.cursor.alt.row /\ s.cursor.alt.row < s.bottom
      BY <1>4, <2>2, Here
    <3>2. s.cursor.alt.row \in Nat
      BY <1>4 DEF Points
    <3>3. s.relative => top <= e.row /\ e.row < bottom
      BY <1>2, <1>5, <1>9, <3>1, <3>2 DEF top, bottom, Points
    <3>. QED
      BY <1>10, <1>12, <2>2, <3>3 DEF InRegion
  <2>. QED
    BY <1>4, <2>1, <2>2 DEF Cursors, Grids
<1>. QED
  BY <1>13, <1>14, <1>15 DEF Fits, Rough

\* A new screen has its cursors in the corner.
LEMMA ScreenInit == Cursor!Init => Fits(s)
<1>. SUFFICES ASSUME Cursor!Init PROVE Fits(s)
  OBVIOUS
<1>1. PICK size \in Sizes :
        s = [rows |-> size[1], cols |-> size[2], grid |-> "normal", top |-> 0,
             bottom |-> size[1], relative |-> FALSE, wraps |-> TRUE, rwraps |-> TRUE,
             cursor |-> [g \in Grids |-> Cursor!Origin],
             saved |-> [g \in Grids |-> Cursor!Origin]]
  BY DEF Cursor!Init, Grids
<1>2. size[1] \in Nat \ {0} /\ size[2] \in Nat \ {0}
  BY TerminalAssumption
<1>. DEFINE zero == [g \in Grids |-> Cursor!Origin]
<1>3. zero \in [Grids -> Points] /\ \A g \in Grids : zero[g] = Cursor!Origin
  BY DEF Cursor!Origin, Points
<1>. HIDE DEF zero
<1>4. s = [rows |-> size[1], cols |-> size[2], grid |-> "normal", top |-> 0,
           bottom |-> size[1], relative |-> FALSE, wraps |-> TRUE, rwraps |-> TRUE,
           cursor |-> zero, saved |-> zero]
  BY <1>1 DEF zero
<1>5. s \in Cursors
  BY <1>2, <1>3, <1>4 DEF Cursors, Grids
<1>. QED
  BY <1>2, <1>3, <1>4, <1>5
     DEF Fits, Rough, Around, OnScreen, Pending, InRegion, Grids, Cursor!Origin

\* Printing, one lemma per group of handlers from here on.
LEMMA PrintStep == Fits(s) /\ Cursor!TermPrint => Fits(s')
BY PrintedFits DEF Cursor!TermPrint

\* A backspace over a pending wrap, within the row, or back round its start.
LEMMA BackspaceStep == Fits(s) /\ Cursor!Backspace => Fits(s')
<1>. SUFFICES ASSUME Fits(s), Cursor!Backspace PROVE Fits(s')
  OBVIOUS
<1>. DEFINE c == s.cursor[s.grid]
<1>1. Rough(s)
  BY DEF Fits
<1>2. CASE c.lcf
  BY <1>2, UnpendFits DEF Cursor!Backspace, Cursor!Cur
<1>3. CASE ~c.lcf /\ c.col = 0 /\ s.rwraps /\ s.wraps
  <2>1. CASE c.row <= s.top
    BY <1>3, <2>1 DEF Cursor!Backspace, Cursor!Cur
  <2>2. CASE ~(c.row <= s.top)
    <3>1. c.row - 1 \in Nat /\ c.row - 1 < s.rows /\ s.cols - 1 \in Nat /\ s.cols - 1 < s.cols
          /\ InRegion(c.row - 1, s) /\ Around(s)
      BY <1>1, <2>2, Here DEF InRegion
    <3>. QED
      BY <1>3, <2>2, <3>1, ToFits DEF Cursor!Backspace, Cursor!Cur, Cursor!LastCol
  <2>. QED
    BY <2>1, <2>2
<1>4. CASE ~c.lcf /\ ~(c.col = 0 /\ s.rwraps /\ s.wraps)
  BY <1>4, SidewaysFits DEF Cursor!Backspace, Cursor!Cur
<1>. QED
  BY <1>2, <1>3, <1>4

\* The next tab stop, or the last column.
LEMMA TabStep == Fits(s) /\ Cursor!Tab => Fits(s')
<1>. SUFFICES ASSUME Fits(s), Cursor!Tab PROVE Fits(s')
  OBVIOUS
<1>. DEFINE c == s.cursor[s.grid]
<1>1. Rough(s) /\ Around(s) /\ c.row \in Nat /\ c.col \in Nat /\ c.lcf \in BOOLEAN
      /\ s.cols \in Nat /\ c.col < s.cols /\ c.row < s.rows
  BY Here DEF Fits
<1>2. ASSUME NEW stop \in (c.col + 1 .. s.cols - 1) \cup {s.cols - 1},
             s' = [Cursor!CursorRight(s, stop - c.col) EXCEPT !.cursor[s.grid].lcf = c.lcf]
      PROVE  Fits(s')
  <2>1. stop \in Nat /\ stop < s.cols /\ stop - c.col \in Nat /\ c.col <= stop
    BY <1>1
  <2>2. c.col + Cursor!Least(s.cols - c.col - 1, stop - c.col) = stop
    <3>1. s.cols - c.col - 1 \in Nat /\ stop - c.col <= s.cols - c.col - 1
      BY <1>1, <2>1
    <3>2. Cursor!Least(s.cols - c.col - 1, stop - c.col) \in {stop - c.col}
      BY <2>1, <3>1, LeastIs
    <3>. QED
      BY <1>1, <2>1, <3>2
  <2>. DEFINE p == [row |-> c.row, col |-> stop, lcf |-> FALSE]
              q == [row |-> c.row, col |-> stop, lcf |-> c.lcf]
  <2>3. Cursor!CursorRight(s, stop - c.col) = Cursor!CursorCol(s, stop)
    BY <2>2, Zenon DEF Cursor!CursorRight
  <2>4. Cursor!CursorCol(s, stop) = At(s, p)
    BY <1>1, <2>1, Moves
  <2>5. [p EXCEPT !.lcf = c.lcf] = q /\ p \in Points /\ q \in Points
    BY <1>1, <2>1 DEF Points
  <2>6. q.row = c.row /\ q.col = stop /\ q.lcf = c.lcf
    OBVIOUS
  <2>7. c.lcf => stop = s.cols - 1
    BY <1>1 DEF Fits, Pending
  <2>8. OnScreen(q, s) /\ Pending(q, s) /\ InRegion(q.row, s)
    BY <1>1, <2>1, <2>6, <2>7 DEF OnScreen, Pending, Rough
  <2>. HIDE DEF p, q
  <2>9. At(s, p).cursor[s.grid] = p /\ [At(s, p) EXCEPT !.cursor[s.grid] = q] = At(s, q)
    BY <1>1, Twice
  <2>10. [At(s, p).cursor[s.grid] EXCEPT !.lcf = c.lcf] = q
    BY <2>5, <2>9, Zenon
  <2>11. [At(s, p) EXCEPT !.cursor[s.grid].lcf = c.lcf] = At(s, q)
    BY <2>9, <2>10, Zenon
  <2>12. s' = At(s, q)
    BY <1>2, <2>3, <2>4, <2>11, Zenon
  <2>. QED
    BY <1>1, <2>5, <2>8, <2>12, Put
<1>3. ASSUME NEW stop \in (0 .. c.col - 1) \cup {0}, s' = Cursor!CursorLeft(s, c.col - stop)
      PROVE  Fits(s')
  <2>1. c.col - stop \in Nat
    BY <1>1
  <2>. QED
    BY <1>3, <2>1, SidewaysFits
<1>. QED
  BY <1>2, <1>3 DEF Cursor!Tab, Cursor!Cur, Cursor!LastCol

\* Line movements and relative cursor movements.
LEMMA MoveStep == Fits(s) /\ (Cursor!Lines \/ Cursor!CursorMoves) => Fits(s')
<1>. SUFFICES ASSUME Fits(s), Cursor!Lines \/ Cursor!CursorMoves PROVE Fits(s')
  OBVIOUS
<1>1. CASE Cursor!Lines
  BY <1>1, LineFits, SidewaysFits DEF Cursor!Lines
<1>2. CASE Cursor!CursorMoves
  <2>1. PICK n \in Counts :
          s' \in {Cursor!CursorUp(s, n), Cursor!CursorDown(s, n), Cursor!CursorRight(s, n),
                  Cursor!CursorLeft(s, n), Cursor!CarriageReturn(Cursor!CursorDown(s, n)),
                  Cursor!CarriageReturn(Cursor!CursorUp(s, n))}
    BY <1>2 DEF Cursor!CursorMoves
  <2>2. n \in Nat
    BY TerminalAssumption
  <2>3. Fits(Cursor!CursorUp(s, n)) /\ Fits(Cursor!CursorDown(s, n))
    BY <2>2, UpDownFits
  <2>4. \A t : Fits(t) => Fits(Cursor!CarriageReturn(t))
    BY SidewaysFits
  <2>5. Fits(Cursor!CursorRight(s, n)) /\ Fits(Cursor!CursorLeft(s, n))
    BY <2>2, SidewaysFits
  <2>. QED
    BY <2>1, <2>3, <2>4, <2>5
<1>. QED
  BY <1>1, <1>2

\* Absolute positions, and what erases or inserts.
LEMMA PositionStep ==
    Fits(s) /\ (Cursor!CursorPosition \/ Cursor!Erase \/ Cursor!InsertLines) => Fits(s')
<1>. SUFFICES ASSUME Fits(s), Cursor!CursorPosition \/ Cursor!Erase \/ Cursor!InsertLines
              PROVE  Fits(s')
  OBVIOUS
<1>1. Rough(s) /\ Around(s) /\ s.cols \in Nat /\ 0 < s.cols
      /\ s.cursor[s.grid].col \in Nat /\ s.cursor[s.grid].col < s.cols
  BY Here DEF Fits
<1>2. CASE Cursor!CursorPosition
  <2>1. PICK n \in Counts, m \in Counts :
          s' \in {Cursor!CursorTo(s, Cursor!RowRelToAbs(s, n - 1), s.cursor[s.grid].col),
                  Cursor!CursorCol(s, Cursor!Least(m, s.cols) - 1),
                  Cursor!CursorTo(s, Cursor!RowRelToAbs(s, n - 1), Cursor!Least(m, s.cols) - 1)}
    BY <1>2 DEF Cursor!CursorPosition, Cursor!Cur
  <2>2. n - 1 \in Nat /\ m \in Nat \ {0}
    BY TerminalAssumption
  <2>3. Cursor!Least(m, s.cols) - 1 \in Nat /\ Cursor!Least(m, s.cols) - 1 < s.cols
    BY <1>1, <2>2, LeastIs
  <2>4. /\ Cursor!RowRelToAbs(s, n - 1) \in Nat /\ Cursor!RowRelToAbs(s, n - 1) < s.rows
        /\ InRegion(Cursor!RowRelToAbs(s, n - 1), s)
    BY <1>1, <2>2, RowIs
  <2>. QED
    BY <1>1, <2>1, <2>3, <2>4, ToFits, ColFits
<1>3. CASE Cursor!Erase
  BY <1>3, UnpendFits DEF Cursor!Erase
<1>4. CASE Cursor!InsertLines
  BY <1>1, <1>4, ColFits DEF Cursor!InsertLines
<1>. QED
  BY <1>2, <1>3, <1>4

\* What changes the region or what rows are counted from.
LEMMA RegionStep ==
    Fits(s) /\ (Cursor!SetRegion \/ Cursor!Align \/ Cursor!SetOrigin) => Fits(s')
<1>. SUFFICES ASSUME Fits(s), Cursor!SetRegion \/ Cursor!Align \/ Cursor!SetOrigin
              PROVE  Fits(s')
  OBVIOUS
<1>1. Rough(s) /\ Around(s) /\ s.rows \in Nat /\ 0 < s.rows
  BY Here DEF Fits
<1>2. CASE Cursor!SetRegion
  <2>1. PICK n \in Counts, m \in Counts :
          /\ Cursor!Least(m, s.rows) > n
          /\ s' = Cursor!CursorHome([s EXCEPT !.top = n - 1,
                                              !.bottom = Cursor!Least(m, s.rows)])
    BY <1>2 DEF Cursor!SetRegion
  <2>. DEFINE end == Cursor!Least(m, s.rows)
  <2>2. n - 1 \in Nat /\ n \in Nat /\ m \in Nat
    BY TerminalAssumption
  <2>3. end \in Nat /\ end <= s.rows
    BY <1>1, <2>2, LeastIs
  <2>4. n - 1 < end
    BY <2>1, <2>2, <2>3
  <2>5. Around([s EXCEPT !.top = n - 1, !.bottom = end])
    BY <1>1, <2>2, <2>3, <2>4, RegionAround
  <2>. QED
    BY <2>1, <2>5, HomeFits
<1>3. CASE Cursor!Align
  <2>1. 0 \in Nat /\ s.rows <= s.rows
    BY <1>1
  <2>2. Around([s EXCEPT !.top = 0, !.bottom = s.rows])
    BY <1>1, <2>1, RegionAround, Zenon
  <2>. QED
    BY <1>3, <2>2, HomeFits DEF Cursor!Align
<1>4. CASE Cursor!SetOrigin
  BY <1>1, <1>4, OriginAround, HomeFits DEF Cursor!SetOrigin
<1>. QED
  BY <1>2, <1>3, <1>4

\* What saves, restores, or changes screens.
LEMMA ScreenStep ==
    Fits(s) /\ Defects = {}
      /\ (Cursor!SaveCursor \/ Cursor!RestoreCursor \/ Cursor!EnterAlt \/ Cursor!LeaveAlt)
    => Fits(s')
<1>. SUFFICES ASSUME Fits(s), Defects = {},
                     \/ Cursor!SaveCursor \/ Cursor!RestoreCursor
                     \/ Cursor!EnterAlt \/ Cursor!LeaveAlt
              PROVE  Fits(s')
  OBVIOUS
<1>1. Around(s)
  BY DEF Fits, Rough
<1>2. \A t : Placed(t) /\ Cursor!Inside(t) => Fits(t)
  BY DEF Placed, Cursor!Inside, Fits, Rough, InRegion, Around, Cursors, Points
<1>3. CASE Cursor!SaveCursor
  BY <1>3, SavedFits DEF Cursor!SaveCursor
<1>4. CASE Cursor!RestoreCursor
  BY <1>1, <1>2, <1>4, RestoredPlaced DEF Cursor!RestoreCursor
<1>5. CASE Cursor!EnterAlt
  <2>1. Fits(Cursor!Carried(s, "alt")) /\ Fits(Cursor!Carried(Cursor!Saved(s), "alt"))
    BY SavedFits, CarriedFits DEF Grids
  <2>. QED
    BY <1>5, <2>1 DEF Cursor!EnterAlt
<1>6. CASE Cursor!LeaveAlt
  <2>1. Fits(Cursor!Carried(s, "normal"))
    BY CarriedFits DEF Grids
  <2>2. Placed(Cursor!Restored(Cursor!Carried(s, "normal")))
    BY <2>1, RestoredPlaced DEF Fits, Rough
  <2>. QED
    BY <1>2, <1>6, <2>1, <2>2 DEF Cursor!LeaveAlt
<1>. QED
  BY <1>3, <1>4, <1>5, <1>6

\* Every step of the cursor's machine keeps it on the screen ...
LEMMA CursorStep ==
    ASSUME Fits(s), Defects = {}, Cursor!Next
    PROVE  Fits(s')
<1>1. CASE Cursor!SetWrap
  <2>1. PICK on \in BOOLEAN : \/ s' = [s EXCEPT !.wraps = on, !.cursor[s.grid].lcf = FALSE]
                              \/ s' = [s EXCEPT !.rwraps = on]
    BY <1>1, Zenon DEF Cursor!SetWrap
  <2>. QED
    <3>1. Fits([s EXCEPT !.rwraps = on])
      BY WrapsFit, Zenon
    <3>2. Fits([s EXCEPT !.wraps = on, !.cursor[s.grid].lcf = FALSE])
      BY WrapsFit, Zenon
    <3>. QED
      BY <2>1, <3>1, <3>2, Zenon
<1>2. CASE Cursor!TermReset
  BY <1>2, SoftFits DEF Cursor!TermReset, Grids
<1>. QED
  BY <1>1, <1>2, PrintStep, BackspaceStep, TabStep, MoveStep, PositionStep, RegionStep,
     ScreenStep, ResizeFits DEF Cursor!Next

\* ... which is what CursorFits asks for.
LEMMA FitsIs == Fits(s) => Cursor!CursorFits
<1>. SUFFICES ASSUME Fits(s) PROVE Cursor!CursorFits
  OBVIOUS
<1>1. \A g \in Grids : /\ s.cursor[g] \in Points
                       /\ OnScreen(s.cursor[g], s) /\ Pending(s.cursor[g], s)
  BY DEF Fits, Rough, Around, Cursors
<1>2. s.grid \in Grids /\ s \in Cursors /\ s.rows \in Nat /\ s.cols \in Nat
      /\ s.top \in Nat /\ s.bottom \in Nat /\ s.top < s.bottom /\ s.bottom <= s.rows
      /\ InRegion(s.cursor[s.grid].row, s)
  BY DEF Fits, Rough, Around, Cursors
<1>3. \A g \in Grids : /\ s.cursor[g].row \in 0 .. s.rows - 1
                       /\ s.cursor[g].col \in 0 .. s.cols - 1
                       /\ s.cursor[g].lcf => s.cursor[g].col = s.cols - 1
  BY <1>1, <1>2 DEF Points, OnScreen, Pending
<1>4. s.relative => s.cursor[s.grid].row \in s.top .. s.bottom - 1
  BY <1>2, <1>3 DEF InRegion
<1>. QED
  BY <1>2, <1>3, <1>4 DEF Cursor!CursorFits, Cursor!LastRow, Cursor!LastCol, Cursor!Cur, Grids

(***************************************************************************)
(* Private modes                                                           *)
(***************************************************************************)

Modal ==
    [tracking : Private!Tracking \cup {"none"}, reporting : Private!Reporting \cup {"normal"},
     grid : {"normal", "alt"}, flags : SUBSET Flag]
AllModes == Flag \cup Private!Tracking \cup Private!Reporting \cup Private!Alternate

\* Two modes that exclude each other, and two that are the same
Rivals(m, k) ==
    m # k /\ \E group \in {Private!Tracking, Private!Reporting} : m \in group /\ k \in group
Twins(m, k) == m = k \/ (m \in Private!Alternate /\ k \in Private!Alternate)

\* The kinds of modes have nothing in common.
LEMMA Kinds ==
    /\ Private!Tracking \cap Private!Reporting = {}
    /\ Private!Tracking \cap Private!Alternate = {}
    /\ Private!Reporting \cap Private!Alternate = {}
    /\ Flag \cap Private!Tracking = {} /\ Flag \cap Private!Reporting = {}
    /\ Flag \cap Private!Alternate = {}
    /\ "none" \notin Private!Tracking /\ "normal" \notin Private!Reporting
    /\ Used \subseteq AllModes
<1>1. /\ Private!Tracking \cap Private!Reporting = {}
      /\ Private!Tracking \cap Private!Alternate = {}
      /\ Private!Reporting \cap Private!Alternate = {}
      /\ "none" \notin Private!Tracking /\ "normal" \notin Private!Reporting
  BY DEF Private!Tracking, Private!Reporting, Private!Alternate
<1>. QED
  BY <1>1, ModesAssumption DEF AllModes

\* What DECRQM answers, by kind of mode.
LEMMA RqmIs ==
    ASSUME NEW t, NEW k
    PROVE  /\ k \in Private!Tracking  => (Private!DecRqm(t, k) <=> t.tracking = k)
           /\ k \in Private!Reporting => (Private!DecRqm(t, k) <=> t.reporting = k)
           /\ k \in Private!Alternate => (Private!DecRqm(t, k) <=> t.grid = "alt")
           /\ k \in Flag              => (Private!DecRqm(t, k) <=> k \in t.flags)
<1>1. k \in Private!Tracking  => (Private!DecRqm(t, k) <=> t.tracking = k)
  BY Kinds DEF Private!DecRqm
<1>2. k \in Private!Reporting => (Private!DecRqm(t, k) <=> t.reporting = k)
  BY Kinds DEF Private!DecRqm
<1>3. k \in Private!Alternate => (Private!DecRqm(t, k) <=> t.grid = "alt")
  BY Kinds DEF Private!DecRqm
<1>4. k \in Flag => (Private!DecRqm(t, k) <=> k \in t.flags)
  BY Kinds DEF Private!DecRqm
<1>. QED
  BY <1>1, <1>2, <1>3, <1>4

\* What a mode is once another was set or reset
LEMMA SetThen ==
    ASSUME NEW t \in Modal, NEW m \in AllModes, NEW k \in AllModes, NEW on \in BOOLEAN,
           NEW u, u = Private!DecSet(t, m, on)
    PROVE  /\ u \in Modal
           /\ Twins(m, k) => (Private!DecRqm(u, k) <=> on)
           /\ ~Twins(m, k) =>
                (Private!DecRqm(u, k) <=> ~(Rivals(m, k) /\ on) /\ Private!DecRqm(t, k))
<1>1. CASE m \in Private!Tracking
  <2>. DEFINE value == IF on THEN m ELSE IF t.tracking = m THEN "none" ELSE t.tracking
  <2>1. u = [t EXCEPT !.tracking = value]
    BY <1>1, Kinds DEF Private!DecSet, Private!Exclusive
  <2>2. value \in Private!Tracking \cup {"none"}
    BY <1>1 DEF Modal
  <2>. HIDE DEF value
  <2>3. /\ u \in Modal
        /\ u.tracking = value /\ u.reporting = t.reporting
        /\ u.grid = t.grid /\ u.flags = t.flags
    BY <2>1, <2>2 DEF Modal
  <2>4. CASE k \in Private!Tracking
    <3>1. (Private!DecRqm(u, k) <=> u.tracking = k) /\ (Private!DecRqm(t, k) <=> t.tracking = k)
      BY <2>4, RqmIs
    <3>2. (Twins(m, k) <=> m = k) /\ (Rivals(m, k) <=> m # k)
      BY <1>1, <2>4, Kinds DEF Twins, Rivals
    <3>. QED
      BY <1>1, <2>3, <2>4, <3>1, <3>2, Kinds DEF value
  <2>5. CASE k \notin Private!Tracking
    <3>1. Private!DecRqm(u, k) <=> Private!DecRqm(t, k)
      BY <2>3, <2>5, RqmIs DEF AllModes
    <3>2. ~Twins(m, k) /\ ~Rivals(m, k)
      BY <1>1, <2>5, Kinds DEF Twins, Rivals
    <3>. QED
      BY <2>3, <3>1, <3>2
  <2>. QED
    BY <2>4, <2>5
<1>2. CASE m \in Private!Reporting
  <2>. DEFINE value == IF on THEN m ELSE IF t.reporting = m THEN "normal" ELSE t.reporting
  <2>1. u = [t EXCEPT !.reporting = value]
    BY <1>2, Kinds DEF Private!DecSet, Private!Exclusive
  <2>2. value \in Private!Reporting \cup {"normal"}
    BY <1>2 DEF Modal
  <2>. HIDE DEF value
  <2>3. /\ u \in Modal
        /\ u.tracking = t.tracking /\ u.reporting = value
        /\ u.grid = t.grid /\ u.flags = t.flags
    BY <2>1, <2>2 DEF Modal
  <2>4. CASE k \in Private!Reporting
    <3>1. /\ Private!DecRqm(u, k) <=> u.reporting = k
          /\ Private!DecRqm(t, k) <=> t.reporting = k
      BY <2>4, RqmIs
    <3>2. (Twins(m, k) <=> m = k) /\ (Rivals(m, k) <=> m # k)
      BY <1>2, <2>4, Kinds DEF Twins, Rivals
    <3>. QED
      BY <1>2, <2>3, <2>4, <3>1, <3>2, Kinds DEF value
  <2>5. CASE k \notin Private!Reporting
    <3>1. Private!DecRqm(u, k) <=> Private!DecRqm(t, k)
      BY <2>3, <2>5, RqmIs DEF AllModes
    <3>2. ~Twins(m, k) /\ ~Rivals(m, k)
      BY <1>2, <2>5, Kinds DEF Twins, Rivals
    <3>. QED
      BY <2>3, <3>1, <3>2
  <2>. QED
    BY <2>4, <2>5
<1>3. CASE m \in Private!Alternate
  <2>. DEFINE value == IF on THEN "alt" ELSE "normal"
  <2>1. u = [t EXCEPT !.grid = value]
    BY <1>3, Kinds DEF Private!DecSet
  <2>2. value \in {"normal", "alt"}
    BY <1>3 DEF Modal
  <2>. HIDE DEF value
  <2>3. /\ u \in Modal
        /\ u.tracking = t.tracking /\ u.reporting = t.reporting
        /\ u.grid = value /\ u.flags = t.flags
    BY <2>1, <2>2 DEF Modal
  <2>4. CASE k \in Private!Alternate
    <3>1. (Private!DecRqm(u, k) <=> u.grid = "alt") /\ (Private!DecRqm(t, k) <=> t.grid = "alt")
      BY <2>4, RqmIs
    <3>2. Twins(m, k) /\ ~Rivals(m, k)
      BY <1>3, <2>4, Kinds DEF Twins, Rivals
    <3>. QED
      BY <1>3, <2>3, <2>4, <3>1, <3>2, Kinds DEF value
  <2>5. CASE k \notin Private!Alternate
    <3>1. Private!DecRqm(u, k) <=> Private!DecRqm(t, k)
      BY <2>3, <2>5, RqmIs DEF AllModes
    <3>2. ~Twins(m, k) /\ ~Rivals(m, k)
      BY <1>3, <2>5, Kinds DEF Twins, Rivals
    <3>. QED
      BY <2>3, <3>1, <3>2
  <2>. QED
    BY <2>4, <2>5
<1>4. CASE m \in Flag
  <2>. DEFINE value == IF on THEN t.flags \cup {m} ELSE t.flags \ {m}
  <2>1. u = [t EXCEPT !.flags = value]
    BY <1>4, Kinds DEF Private!DecSet
  <2>2. value \in SUBSET Flag
    BY <1>4 DEF Modal
  <2>. HIDE DEF value
  <2>3. /\ u \in Modal
        /\ u.tracking = t.tracking /\ u.reporting = t.reporting
        /\ u.grid = t.grid /\ u.flags = value
    BY <2>1, <2>2 DEF Modal
  <2>4. CASE k \in Flag
    <3>1. (Private!DecRqm(u, k) <=> k \in u.flags) /\ (Private!DecRqm(t, k) <=> k \in t.flags)
      BY <2>4, RqmIs
    <3>2. (Twins(m, k) <=> m = k) /\ ~Rivals(m, k)
      BY <1>4, <2>4, Kinds DEF Twins, Rivals
    <3>. QED
      BY <1>4, <2>3, <2>4, <3>1, <3>2, Kinds DEF value
  <2>5. CASE k \notin Flag
    <3>1. Private!DecRqm(u, k) <=> Private!DecRqm(t, k)
      BY <2>3, <2>5, RqmIs DEF AllModes
    <3>2. ~Twins(m, k) /\ ~Rivals(m, k)
      BY <1>4, <2>5, Kinds DEF Twins, Rivals
    <3>. QED
      BY <2>3, <3>1, <3>2
  <2>. QED
    BY <2>4, <2>5
<1>. QED
  BY <1>1, <1>2, <1>3, <1>4 DEF AllModes

\* The states that XTRESTORE goes through
Steps(list, n, f) ==
    f = [k \in 0 .. n |-> IF k = 0 THEN Private!State
                          ELSE Private!DecSet(f[k - 1], list[k], list[k] \in slots)]

\* The modes after each of a list's entries can be listed: otherwise there would
\* be a shortest list for which they cannot.
LEMMA StepsExist ==
    ASSUME NEW list
    PROVE  \A n \in Nat : \E f : Steps(list, n, f)
<1>. DEFINE Have == {n \in Nat : \E f : Steps(list, n, f)}
            G(f, k) == IF k = 0 THEN Private!State
                       ELSE Private!DecSet(f[k - 1], list[k], list[k] \in slots)
<1>1. 0 \in Have
  <2>. DEFINE f == [k \in 0 .. 0 |-> Private!State]
  <2>1. \A k \in 0 .. 0 : k = 0
    OBVIOUS
  <2>2. f = [k \in 0 .. 0 |-> G(f, k)]
    BY <2>1
  <2>. QED
    BY <2>2 DEF Steps
<1>2. ASSUME NEW n \in Have PROVE n + 1 \in Have
  <2>1. n \in Nat /\ n + 1 \in Nat /\ n \in 0 .. n
    OBVIOUS
  <2>2. PICK f : f = [k \in 0 .. n |-> G(f, k)]
    BY DEF Steps
  <2>. DEFINE last == Private!DecSet(f[n], list[n + 1], list[n + 1] \in slots)
              g == [k \in 0 .. n + 1 |-> IF k = n + 1 THEN last ELSE f[k]]
  <2>. HIDE DEF last
  <2>3. \A k \in 0 .. n : g[k] = f[k]
    BY <2>1
  <2>4. g[n + 1] = last
    BY <2>1
  <2>5. ASSUME NEW k \in 0 .. n + 1 PROVE g[k] = G(g, k)
    <3>1. CASE k = 0
      BY <2>1, <2>2, <2>3, <3>1
    <3>2. CASE k # 0 /\ k \in 0 .. n
      <4>1. k - 1 \in 0 .. n
        BY <2>1, <3>2
      <4>2. g[k] = f[k] /\ g[k - 1] = f[k - 1]
        BY <2>3, <3>2, <4>1
      <4>3. f[k] = G(f, k)
        BY <2>2, <3>2
      <4>. QED
        BY <3>2, <4>2, <4>3
    <3>3. CASE k = n + 1
      <4>1. k # 0 /\ k - 1 = n
        BY <2>1, <3>3
      <4>. QED
        BY <2>1, <2>3, <2>4, <3>3, <4>1 DEF last
    <3>. QED
      BY <2>1, <3>1, <3>2, <3>3
  <2>6. g = [k \in 0 .. n + 1 |-> G(g, k)]
    BY <2>5
  <2>. HIDE DEF g
  <2>. QED
    BY <2>1, <2>6 DEF Steps
<1>. HIDE DEF Have
<1>3. Have \subseteq Nat
  BY DEF Have
<1>4. Have = Nat
  BY <1>1, <1>2, <1>3, Inductive
<1>. QED
  BY <1>4 DEF Have

\* xtrestore as a fold over the list: the state after its last entry.
LEMMA RestoredIs ==
    ASSUME NEW list \in Seq(Used)
    PROVE  \E f : /\ Private!Restored(list) = f[Len(list)]
                  /\ f[0] = Private!State
                  /\ \A k \in 1 .. Len(list) :
                        f[k] = Private!DecSet(f[k - 1], list[k], list[k] \in slots)
<1>. DEFINE f == CHOOSE r : Steps(list, Len(list), r)
<1>1. Len(list) \in Nat
  OBVIOUS
<1>2. Steps(list, Len(list), f)
  BY <1>1, StepsExist, Zenon
<1>3. Private!Restored(list) = f[Len(list)]
  BY Zenon DEF Private!Restored, Steps
<1>. HIDE DEF f
<1>4. \A k \in 0 .. Len(list) : f[k] = IF k = 0 THEN Private!State
                                       ELSE Private!DecSet(f[k - 1], list[k], list[k] \in slots)
  BY <1>2 DEF Steps
<1>5. f[0] = Private!State
  BY <1>1, <1>4
<1>6. \A k \in 1 .. Len(list) : f[k] = Private!DecSet(f[k - 1], list[k], list[k] \in slots)
  BY <1>1, <1>4
<1>. QED
  BY <1>3, <1>5, <1>6

\* Each of those states is one of the terminal's.
LEMMA RestoredModal ==
    ASSUME NEW list \in Seq(Used), Private!State \in Modal, NEW f,
           f[0] = Private!State,
           \A k \in 1 .. Len(list) : f[k] = Private!DecSet(f[k - 1], list[k], list[k] \in slots)
    PROVE  \A n \in 0 .. Len(list) : f[n] \in Modal
<1>. DEFINE Have == {n \in Nat : n <= Len(list) => f[n] \in Modal}
<1>0. Len(list) \in Nat /\ \A k \in 1 .. Len(list) : list[k] \in AllModes
  BY Kinds
<1>1. 0 \in Have
  OBVIOUS
<1>2. ASSUME NEW n \in Have PROVE n + 1 \in Have
  <2>. SUFFICES ASSUME n + 1 <= Len(list) PROVE f[n + 1] \in Modal
    OBVIOUS
  <2>1. n + 1 \in 1 .. Len(list) /\ (n + 1) - 1 = n /\ n <= Len(list)
    BY <1>0
  <2>2. f[n] \in Modal /\ f[n + 1] = Private!DecSet(f[n], list[n + 1], list[n + 1] \in slots)
    BY <2>1
  <2>. DEFINE on == list[n + 1] \in slots
  <2>3. list[n + 1] \in AllModes /\ on \in BOOLEAN
    BY <1>0, <2>1
  <2>4. f[n + 1] = Private!DecSet(f[n], list[n + 1], on)
    BY <2>2
  <2>. HIDE DEF on
  <2>. QED
    BY <2>2, <2>3, <2>4, SetThen
<1>. HIDE DEF Have
<1>3. Have = Nat
  <2>1. Have \subseteq Nat
    BY DEF Have
  <2>. QED
    BY <1>1, <1>2, <2>1, Inductive
<1>. QED
  BY <1>0, <1>3 DEF Have

\* What XTSAVE remembers is a set of modes that may all be set at once.
Kept ==
    /\ Private!State \in Modal
    /\ asked.list \in Seq(Used)
    /\ \A m \in Private!ToSet(asked.list) : m \in slots <=> m \in asked.set
    /\ \A m, k \in Private!ToSet(asked.list) :
          /\ Rivals(m, k) => ~(m \in asked.set /\ k \in asked.set)
          /\ Twins(m, k) => (m \in asked.set <=> k \in asked.set)

\* After a restore each mode of the list answers as when it was saved: what a later
\* entry changes of an earlier one, it changes to what was saved for both.
LEMMA KeptRestores == Kept => Private!RestoresWhatWasSaved
<1>. SUFFICES ASSUME Kept PROVE Private!RestoresWhatWasSaved
  OBVIOUS
<1>. DEFINE list == asked.list
<1>0. list \in Seq(Used) /\ Private!State \in Modal
  BY DEF Kept
<1>. HIDE DEF list
<1>1. PICK f : /\ Private!Restored(list) = f[Len(list)] /\ f[0] = Private!State
               /\ \A k \in 1 .. Len(list) :
                     f[k] = Private!DecSet(f[k - 1], list[k], list[k] \in slots)
  BY <1>0, RestoredIs
<1>2. \A n \in 0 .. Len(list) : f[n] \in Modal
  BY <1>0, <1>1, RestoredModal
<1>3. /\ Len(list) \in Nat /\ Private!ToSet(list) = {list[k] : k \in 1 .. Len(list)}
      /\ \A k \in 1 .. Len(list) : list[k] \in AllModes /\ list[k] \in Private!ToSet(list)
  BY <1>0, Kinds DEF Private!ToSet
<1>4. \A m, k \in Private!ToSet(list) :
         /\ Rivals(m, k) => ~(m \in slots /\ k \in slots)
         /\ Twins(m, k) => (m \in slots <=> k \in slots)
  BY DEF Kept, list
<1>. DEFINE Done(n) == \A k \in 1 .. n : Private!DecRqm(f[n], list[k]) <=> list[k] \in slots
            Have == {n \in Nat : n <= Len(list) => Done(n)}
<1>5. 0 \in Have
  OBVIOUS
<1>6. ASSUME NEW n \in Have PROVE n + 1 \in Have
  <2>. SUFFICES ASSUME n + 1 <= Len(list), NEW k \in 1 .. n + 1
                PROVE  Private!DecRqm(f[n + 1], list[k]) <=> list[k] \in slots
    BY DEF Done
  <2>. DEFINE m == list[n + 1]
  <2>1. n \in Nat /\ n + 1 \in 1 .. Len(list) /\ (n + 1) - 1 = n /\ n <= Len(list)
        /\ k \in 1 .. Len(list) /\ n \in 0 .. Len(list)
    BY <1>3
  <2>2. f[n] \in Modal /\ f[n + 1] = Private!DecSet(f[n], m, m \in slots)
    BY <1>1, <1>2, <2>1
  <2>3. m \in AllModes /\ list[k] \in AllModes /\ (m \in slots) \in BOOLEAN
        /\ m \in Private!ToSet(list) /\ list[k] \in Private!ToSet(list)
    BY <1>3, <2>1
  <2>4. /\ Twins(m, list[k]) => (Private!DecRqm(f[n + 1], list[k]) <=> m \in slots)
        /\ ~Twins(m, list[k]) =>
              (Private!DecRqm(f[n + 1], list[k])
                 <=> ~(Rivals(m, list[k]) /\ m \in slots) /\ Private!DecRqm(f[n], list[k]))
    <3>. DEFINE on == m \in slots
    <3>1. on \in BOOLEAN /\ f[n + 1] = Private!DecSet(f[n], m, on)
      BY <2>2
    <3>. HIDE DEF on
    <3>2. /\ Twins(m, list[k]) => (Private!DecRqm(f[n + 1], list[k]) <=> on)
          /\ ~Twins(m, list[k]) =>
                (Private!DecRqm(f[n + 1], list[k])
                   <=> ~(Rivals(m, list[k]) /\ on) /\ Private!DecRqm(f[n], list[k]))
      BY <2>2, <2>3, <3>1, SetThen
    <3>. QED
      BY <3>2 DEF on
  <2>5. CASE Twins(m, list[k])
    BY <1>4, <2>3, <2>4, <2>5
  <2>6. CASE ~Twins(m, list[k])
    <3>1. k # n + 1
      BY <2>6 DEF Twins
    <3>2. k \in 1 .. n
      BY <2>1, <3>1
    <3>3. Private!DecRqm(f[n], list[k]) <=> list[k] \in slots
      BY <2>1, <3>2 DEF Done
    <3>. QED
      BY <1>4, <2>3, <2>4, <2>6, <3>3
  <2>. QED
    BY <2>5, <2>6
<1>. HIDE DEF Have, Done
<1>7. Have = Nat
  <2>1. Have \subseteq Nat
    BY DEF Have
  <2>. QED
    BY <1>5, <1>6, <2>1, Inductive
<1>8. Done(Len(list))
  BY <1>3, <1>7 DEF Have
<1>9. \A k \in 1 .. Len(list) :
        Private!DecRqm(Private!Restored(list), list[k]) <=> list[k] \in slots
  BY <1>1, <1>8 DEF Done
<1>10. \A m \in Private!ToSet(list) : m \in slots <=> m \in asked.set
  BY DEF Kept, list
<1>. QED
  BY <1>3, <1>9, <1>10 DEF Private!RestoresWhatWasSaved, list

\* The lists the run tries are sequences of modes.
LEMMA ListsAre == Private!Lists \subseteq Seq(Used)
<1>. SUFFICES ASSUME NEW list \in Private!Lists PROVE list \in Seq(Used)
  OBVIOUS
<1>1. PICK n \in 0 .. MaxList : list \in [1 .. n -> Used]
  BY DEF Private!Lists, Private!BoundedSeq, Private!SeqOf
<1>2. n \in Nat
  BY TerminalAssumption
<1>. QED
  BY <1>1, <1>2

\* What an application does to its modes leaves the last XTSAVE alone.
LEMMA BecomesKept ==
    ASSUME Kept, NEW t \in Modal, Private!Becomes(t), UNCHANGED <<slots, asked>>
    PROVE  Kept'
<1>1. t = [tracking |-> t.tracking, reporting |-> t.reporting,
           grid |-> t.grid, flags |-> t.flags]
  BY DEF Modal
<1>2. Private!State' = t
  BY <1>1 DEF Private!Becomes, Private!State
<1>3. Private!State' \in Modal
  BY <1>2
<1>. QED
  BY <1>3 DEF Kept

\* What is saved at one time is true of one state: no two rivals are set in it.
LEMMA SaveKept ==
    ASSUME Kept, Private!XtSave
    PROVE  Kept'
<1>. DEFINE On(list) == {m \in Private!ToSet(list) : Private!DecRqm(Private!State, m)}
<1>1. PICK list \in Private!Lists :
        /\ slots' = (slots \ UNION {Private!Slot(m) : m \in Private!ToSet(list)})
                      \cup UNION {Private!Slot(m) : m \in On(list)}
        /\ asked' = [list |-> list, set |-> On(list)]
        /\ UNCHANGED <<tracking, reporting, grid, flags>>
  BY DEF Private!XtSave, Private!modeVars
<1>2. list \in Seq(Used)
  BY ListsAre
<1>3. asked'.list = list /\ asked'.set = On(list)
  BY <1>1
<1>4. Private!ToSet(list) \subseteq AllModes
  BY <1>2, Kinds DEF Private!ToSet
<1>5. \A m, k : k \in Private!Slot(m) <=>
                  k = m \/ (m \in Private!Alternate /\ k \in Private!Alternate)
  BY DEF Private!Slot
<1>6. ASSUME NEW m \in AllModes, NEW k \in AllModes
      PROVE  /\ Rivals(m, k) =>
                  ~(Private!DecRqm(Private!State, m) /\ Private!DecRqm(Private!State, k))
             /\ Twins(m, k) =>
                  (Private!DecRqm(Private!State, m) <=> Private!DecRqm(Private!State, k))
  BY RqmIs DEF Rivals, Twins
<1>7. ASSUME NEW k \in Private!ToSet(list)
      PROVE  k \in slots' <=> k \in On(list)
  <2>1. k \in slots' <=> \E m \in On(list) : k \in Private!Slot(m)
    BY <1>1, <1>5
  <2>2. \A m \in On(list) : k \in Private!Slot(m) => Twins(m, k)
    BY <1>5 DEF Twins
  <2>3. \A m \in On(list) : k \in Private!Slot(m) => k \in On(list)
    BY <1>4, <1>6, <2>2
  <2>. QED
    BY <1>5, <2>1, <2>3
<1>8. \A m, k \in Private!ToSet(list) :
          /\ Rivals(m, k) => ~(m \in On(list) /\ k \in On(list))
          /\ Twins(m, k) => (m \in On(list) <=> k \in On(list))
  BY <1>4, <1>6
<1>9. Private!State' \in Modal
  BY <1>1 DEF Kept, Private!State
<1>. HIDE DEF On
<1>. QED
  BY <1>2, <1>3, <1>7, <1>8, <1>9 DEF Kept, Private!ToSet, Rivals, Twins

\* Nothing is saved at first.
LEMMA KeptInit == Private!Init => Kept
<1>. SUFFICES ASSUME Private!Init PROVE Kept
  OBVIOUS
<1>1. Private!State \in Modal
  BY DEF Private!Init, Private!State, Modal
<1>2. asked.list = <<>> /\ <<>> \in Seq(Used) /\ Private!ToSet(<<>>) = {}
  BY DEF Private!Init, Private!ToSet
<1>. QED
  BY <1>1, <1>2 DEF Kept

\* Only a save changes what is saved.
LEMMA KeptStep ==
    ASSUME Kept, Private!Next
    PROVE  Kept'
<1>1. CASE Private!SetModes
  <2>1. PICK mode \in Used, on \in BOOLEAN :
          Private!Becomes(Private!DecSet(Private!State, mode, on)) /\ UNCHANGED <<slots, asked>>
    BY <1>1 DEF Private!SetModes
  <2>2. Private!DecSet(Private!State, mode, on) \in Modal
    BY SetThen, Kinds DEF Kept
  <2>. QED
    BY <2>1, <2>2, BecomesKept
<1>2. CASE Private!XtSave
  BY <1>2, SaveKept
<1>3. CASE Private!TermReset
  <2>1. [tracking |-> "none", reporting |-> "normal", grid |-> "normal", flags |-> {}] \in Modal
    BY DEF Modal
  <2>. QED
    BY <1>3, <2>1, BecomesKept DEF Private!TermReset
<1>4. ASSUME NEW list \in Private!Lists, Private!XtRestore(list) PROVE Kept'
  <2>1. list \in Seq(Used)
    BY ListsAre
  <2>2. PICK f : /\ Private!Restored(list) = f[Len(list)] /\ f[0] = Private!State
                 /\ \A k \in 1 .. Len(list) :
                       f[k] = Private!DecSet(f[k - 1], list[k], list[k] \in slots)
    BY <2>1, RestoredIs
  <2>3. Len(list) \in 0 .. Len(list)
    BY <2>1
  <2>4. Private!Restored(list) \in Modal
    BY <2>1, <2>2, <2>3, RestoredModal DEF Kept
  <2>. QED
    BY <1>4, <2>4, BecomesKept DEF Private!XtRestore
<1>. QED
  BY <1>1, <1>2, <1>3, <1>4 DEF Private!Next

\* Remainders: one in each row of a ring's size, and those that are apart differ.
LEMMA ModIs ==
    ASSUME NEW L \in Nat \ {0}, NEW a \in Int
    PROVE  a % L \in 0 .. L - 1 /\ (a \div L) \in Int /\ a = L * (a \div L) + (a % L)
BY SMT

\* A remainder is the only number below L that differs by a multiple of L.
LEMMA ModUnique ==
    ASSUME NEW L \in Nat \ {0}, NEW q \in Int, NEW r \in 0 .. L - 1
    PROVE  (L * q + r) % L = r
<1>. DEFINE a == L * q + r
<1>1. a \in Int
  BY SMT
<1>2. a % L \in 0 .. L - 1 /\ (a \div L) \in Int /\ a = L * (a \div L) + (a % L)
  BY <1>1, ModIs
<1>. DEFINE p == a \div L
            x == a % L
<1>3. x \in 0 .. L - 1 /\ p \in Int /\ L * q + r = L * p + x
  BY <1>2
<1>. HIDE DEF p, x
<1>4. L * (q - p) = x - r
  BY <1>3, SMT
<1>5. CASE q = p
  BY <1>3, <1>5 DEF x
<1>6. CASE q - p >= 1
  <2>1. L * (q - p) >= L
    BY <1>3, <1>6, SMT
  <2>. QED
    BY <1>3, <1>4, <2>1, SMT
<1>7. CASE q - p <= -1
  <2>1. L * (q - p) <= -L
    BY <1>3, <1>7, SMT
  <2>. QED
    BY <1>3, <1>4, <2>1, SMT
<1>. QED
  BY <1>3, <1>5, <1>6, <1>7, SMT

\* Subtracting before or after taking the remainder comes to the same.
LEMMA ModSub ==
    ASSUME NEW L \in Nat \ {0}, NEW a \in Int, NEW j \in Int
    PROVE  ((a % L) - j) % L = (a - j) % L /\ (a - j + L) % L = (a - j) % L
<1>. DEFINE q == a \div L
            r == a % L
            p == (r - j) \div L
            x == (r - j) % L
<1>1. r \in 0 .. L - 1 /\ q \in Int /\ a = L * q + r
  BY ModIs
<1>. HIDE DEF q, r
<1>2. r - j \in Int
  BY <1>1
<1>3. x \in 0 .. L - 1 /\ p \in Int /\ r - j = L * p + x
  BY <1>2, ModIs
<1>. HIDE DEF p, x
<1>4. a - j = L * (q + p) + x /\ a - j + L = L * (q + p + 1) + x
  BY <1>1, <1>3, SMT
<1>5. q + p \in Int /\ q + p + 1 \in Int
  BY <1>1, <1>3
<1>. QED
  BY <1>3, <1>4, <1>5, ModUnique DEF x, r

\* Places of a ring that are less than its size apart differ.
LEMMA ModApart ==
    ASSUME NEW L \in Nat \ {0}, NEW a \in Int, NEW d \in 1 .. L - 1
    PROVE  (a - d) % L # a % L
<1>. DEFINE q == a \div L
            r == a % L
            p == (a - d) \div L
            x == (a - d) % L
<1>1. r \in 0 .. L - 1 /\ q \in Int /\ a = L * q + r
  BY ModIs
<1>2. x \in 0 .. L - 1 /\ p \in Int /\ a - d = L * p + x
  BY ModIs
<1>. HIDE DEF q, r, p, x
<1>3. SUFFICES ASSUME x = r PROVE FALSE
  BY DEF x, r
<1>4. L * (q - p) = d
  BY <1>1, <1>2, <1>3, SMT
<1>5. CASE q - p <= 0
  <2>1. L * (q - p) <= 0
    BY <1>1, <1>2, <1>5, SMT
  <2>. QED
    BY <1>4, <2>1
<1>6. CASE q - p >= 1
  <2>1. L * (q - p) >= L
    BY <1>1, <1>2, <1>6, SMT
  <2>. QED
    BY <1>4, <2>1
<1>. QED
  BY <1>1, <1>2, <1>5, <1>6

(***************************************************************************)
(* The keyboard flags                                                      *)
(***************************************************************************)

Entries == SUBSET Bits
Boards == [ring : [0 .. Levels - 1 -> Entries], idx : 0 .. Levels - 1]

\* A ring holds a stack: its top at the index, the rest below, then nothing.
Place(i, j) == (i - j) % Levels
Layered(b, st) ==
    /\ b \in Boards /\ st \in Seq(Entries) /\ Len(st) \in 1 .. Levels
    /\ \A j \in 0 .. Levels - 1 :
          b.ring[Place(b.idx, j)] = IF j < Len(st) THEN st[Len(st) - j] ELSE {}

Stacked ==
    /\ current \in Grids
    /\ DOMAIN kitty = Grids /\ DOMAIN stack = Grids
    /\ \A g \in Grids : Layered(kitty[g], stack[g])

\* Places of the ring, counted down from an index: each is an index ...
LEMMA PlaceIs ==
    ASSUME NEW i \in Int, NEW j \in Int
    PROVE  Place(i, j) \in 0 .. Levels - 1
BY TerminalAssumption, ModIs DEF Place

\* ... none down is the index itself ...
LEMMA PlaceSelf ==
    ASSUME NEW i \in 0 .. Levels - 1
    PROVE  Place(i, 0) = i
<1>1. i = Levels * 0 + i /\ i - 0 = i
  BY TerminalAssumption
<1>. QED
  BY <1>1, TerminalAssumption, ModUnique DEF Place

\* ... steps add up ...
LEMMA PlaceThen ==
    ASSUME NEW i \in Int, NEW j \in Int, NEW k \in Int
    PROVE  Place(Place(i, j), k) = Place(i, j + k)
<1>1. (i - j) - k = i - (j + k) /\ i - j \in Int
  OBVIOUS
<1>2. (((i - j) % Levels) - k) % Levels = ((i - j) - k) % Levels
  BY <1>1, TerminalAssumption, ModSub
<1>. QED
  BY <1>1, <1>2, Zenon DEF Place

\* ... a full round comes back ...
LEMMA PlaceAround ==
    ASSUME NEW i \in Int, NEW j \in Int
    PROVE  Place(i, j - Levels) = Place(i, j)
<1>1. i - (j - Levels) = i - j + Levels
  BY TerminalAssumption
<1>2. (i - j + Levels) % Levels = (i - j) % Levels
  BY TerminalAssumption, ModSub
<1>. QED
  BY <1>1, <1>2, Zenon DEF Place

\* ... and less than a round does not.
LEMMA PlaceApart ==
    ASSUME NEW i \in Int, NEW j \in Int, NEW k \in Int, j < k, k < j + Levels
    PROVE  Place(i, j) # Place(i, k)
<1>1. k - j \in 1 .. Levels - 1 /\ (i - j) - (k - j) = i - k /\ i - j \in Int
  BY TerminalAssumption
<1>. QED
  BY <1>1, TerminalAssumption, ModApart DEF Place

\* The index above, where a push goes, has this one below it.
LEMMA AboveIs ==
    ASSUME NEW i \in 0 .. Levels - 1
    PROVE  Keys!Above(i) \in 0 .. Levels - 1
           /\ \A j \in 0 .. Levels - 1 : Place(Keys!Above(i), j) = Place(i, j - 1)
<1>1. Keys!Above(i) \in 0 .. Levels - 1
  BY TerminalAssumption DEF Keys!Above
<1>2. ASSUME NEW j \in 0 .. Levels - 1 PROVE Place(Keys!Above(i), j) = Place(i, j - 1)
  <2>1. CASE i + 1 < Levels
    <3>1. Keys!Above(i) - j = i - (j - 1)
      BY <2>1, TerminalAssumption DEF Keys!Above
    <3>. QED
      BY <3>1, Zenon DEF Place
  <2>2. CASE ~(i + 1 < Levels)
    <3>1. Keys!Above(i) - j = i - ((j - 1) + Levels)
      BY <2>2, TerminalAssumption DEF Keys!Above
    <3>2. Place(Keys!Above(i), j) = Place(i, (j - 1) + Levels)
      BY <3>1, Zenon DEF Place
    <3>3. (j - 1) + Levels \in Int /\ ((j - 1) + Levels) - Levels = j - 1
      BY TerminalAssumption
    <3>4. Place(i, ((j - 1) + Levels) - Levels) = Place(i, (j - 1) + Levels)
      BY <3>3, PlaceAround
    <3>. QED
      BY <3>2, <3>3, <3>4, Zenon
  <2>. QED
    BY <2>1, <2>2
<1>. QED
  BY <1>1, <1>2

\* A push on the ring is a push on the stack, which forgets its oldest entry when
\* it is full.
LEMMA PushLayered ==
    ASSUME NEW b, NEW st, Layered(b, st), NEW f \in Entries
    PROVE  Layered([ring |-> [b.ring EXCEPT ![Keys!Above(b.idx)] = f],
                    idx |-> Keys!Above(b.idx)],
                   Append(IF Len(st) = Levels THEN Tail(st) ELSE st, f))
<1>. DEFINE i == Keys!Above(b.idx)
            ring == [b.ring EXCEPT ![i] = f]
            old == IF Len(st) = Levels THEN Tail(st) ELSE st
            new == Append(old, f)
<1>1. /\ b.ring \in [0 .. Levels - 1 -> Entries] /\ b.idx \in 0 .. Levels - 1
      /\ st \in Seq(Entries) /\ Len(st) \in 1 .. Levels /\ Levels \in Nat \ {0}
      /\ b.idx \in Int /\ Len(st) \in Nat
  BY TerminalAssumption DEF Layered, Boards
<1>2. i \in 0 .. Levels - 1
  BY <1>1, AboveIs
<1>3. /\ old \in Seq(Entries) /\ Len(old) = IF Len(st) = Levels THEN Levels - 1 ELSE Len(st)
      /\ \A j \in 1 .. Len(old) : old[Len(old) + 1 - j] = st[Len(st) + 1 - j]
  BY <1>1
<1>4. /\ new \in Seq(Entries) /\ Len(new) = Len(old) + 1 /\ new[Len(new)] = f
      /\ \A j \in 1 .. Len(old) : new[Len(new) - j] = st[Len(st) - (j - 1)]
  <2>. HIDE DEF old
  <2>1. /\ new \in Seq(Entries) /\ Len(new) = Len(old) + 1 /\ new[Len(old) + 1] = f
        /\ \A j \in 1 .. Len(old) : new[j] = old[j]
    BY <1>3
  <2>2. ASSUME NEW j \in 1 .. Len(old) PROVE new[Len(new) - j] = st[Len(st) - (j - 1)]
    <3>1. Len(new) - j = Len(old) + 1 - j /\ Len(old) + 1 - j \in 1 .. Len(old)
          /\ Len(st) - (j - 1) = Len(st) + 1 - j
      BY <1>1, <1>3, <2>1
    <3>. QED
      BY <1>3, <2>1, <3>1
  <2>. QED
    BY <2>1, <2>2
<1>. HIDE DEF i, old, new
<1>5. ring \in [0 .. Levels - 1 -> Entries] /\ ring[i] = f
      /\ \A x \in 0 .. Levels - 1 : x # i => ring[x] = b.ring[x]
  BY <1>1, <1>2
<1>. HIDE DEF ring
<1>6. Place(i, 0) = i
  BY <1>2, PlaceSelf
<1>7. ASSUME NEW j \in 0 .. Levels - 1
      PROVE  ring[Place(i, j)] = IF j < Len(new) THEN new[Len(new) - j] ELSE {}
  <2>1. CASE j = 0
    <3>1. 0 < Len(new) /\ Len(new) - 0 = Len(new)
      BY <1>1, <1>3, <1>4
    <3>. QED
      BY <1>4, <1>5, <1>6, <2>1, <3>1
  <2>2. CASE j # 0
    <3>1. j \in 1 .. Levels - 1 /\ j - 1 \in 0 .. Levels - 1 /\ j \in Int /\ i \in Int
          /\ 0 < j /\ j < 0 + Levels
      BY <1>1, <1>2, <2>2
    <3>2. Place(i, j) \in 0 .. Levels - 1 /\ Place(i, j) # i
      <4>1. Place(i, 0) # Place(i, j)
        BY <3>1, PlaceApart
      <4>. QED
        BY <1>6, <3>1, <4>1, PlaceIs
    <3>3. Place(i, j) = Place(b.idx, j - 1)
      BY <1>1, AboveIs DEF i
    <3>4. b.ring[Place(b.idx, j - 1)] = IF j - 1 < Len(st) THEN st[Len(st) - (j - 1)] ELSE {}
      BY <3>1 DEF Layered
    <3>5. CASE j < Len(new)
      <4>1. j \in 1 .. Len(old) /\ j - 1 < Len(st)
        BY <1>1, <1>3, <1>4, <3>1, <3>5
      <4>. QED
        BY <1>4, <1>5, <3>2, <3>3, <3>4, <3>5, <4>1
    <3>6. CASE ~(j < Len(new))
      <4>1. ~(j - 1 < Len(st))
        BY <1>1, <1>3, <1>4, <3>1, <3>6
      <4>. QED
        BY <1>5, <3>2, <3>3, <3>4, <3>6, <4>1
    <3>. QED
      BY <3>5, <3>6
  <2>. QED
    BY <2>1, <2>2
<1>8. Len(new) \in 1 .. Levels
  BY <1>1, <1>3, <1>4
<1>. QED
  BY <1>2, <1>4, <1>5, <1>7, <1>8 DEF Layered, Boards, i, ring, new, old

\* Setting the flags replaces the top of the stack.
LEMMA SetLayered ==
    ASSUME NEW b, NEW st, Layered(b, st), NEW f \in Entries
    PROVE  Layered([ring |-> [b.ring EXCEPT ![b.idx] = f], idx |-> b.idx],
                   [st EXCEPT ![Len(st)] = f])
<1>. DEFINE ring == [b.ring EXCEPT ![b.idx] = f]
            new == [st EXCEPT ![Len(st)] = f]
<1>1. /\ b.ring \in [0 .. Levels - 1 -> Entries] /\ b.idx \in 0 .. Levels - 1
      /\ st \in Seq(Entries) /\ Len(st) \in 1 .. Levels /\ Levels \in Nat \ {0}
      /\ b.idx \in Int /\ Len(st) \in Nat
  BY TerminalAssumption DEF Layered, Boards
<1>2. /\ new \in Seq(Entries) /\ Len(new) = Len(st) /\ new[Len(st)] = f
      /\ \A j \in 1 .. Len(st) : j # Len(st) => new[j] = st[j]
  BY <1>1
<1>3. ring \in [0 .. Levels - 1 -> Entries] /\ ring[b.idx] = f
      /\ \A x \in 0 .. Levels - 1 : x # b.idx => ring[x] = b.ring[x]
  BY <1>1
<1>. HIDE DEF ring, new
<1>4. ASSUME NEW j \in 0 .. Levels - 1
      PROVE  ring[Place(b.idx, j)] = IF j < Len(new) THEN new[Len(new) - j] ELSE {}
  <2>1. Place(b.idx, 0) = b.idx
    BY <1>1, PlaceSelf
  <2>2. CASE j = 0
    <3>1. 0 < Len(new) /\ Len(new) - 0 = Len(st)
      BY <1>1, <1>2
    <3>. QED
      BY <1>2, <1>3, <2>1, <2>2, <3>1
  <2>3. CASE j # 0
    <3>1. j \in 1 .. Levels - 1 /\ j \in Int /\ 0 < j /\ j < 0 + Levels
      BY <1>1, <2>3
    <3>2. Place(b.idx, j) \in 0 .. Levels - 1 /\ Place(b.idx, j) # b.idx
      <4>1. Place(b.idx, 0) # Place(b.idx, j)
        BY <1>1, <3>1, PlaceApart
      <4>. QED
        BY <1>1, <2>1, <3>1, <4>1, PlaceIs
    <3>3. b.ring[Place(b.idx, j)] = IF j < Len(st) THEN st[Len(st) - j] ELSE {}
      BY DEF Layered
    <3>4. j < Len(st) => new[Len(st) - j] = st[Len(st) - j]
      BY <1>1, <1>2, <3>1
    <3>. QED
      BY <1>2, <1>3, <3>2, <3>3, <3>4
  <2>. QED
    BY <2>2, <2>3
<1>. QED
  BY <1>1, <1>2, <1>3, <1>4 DEF Layered, Boards, ring, new

\* A pop empties the places it leaves; one of more than there are leaves a stack
\* with no flags.
LEMMA PopLayered ==
    ASSUME NEW b, NEW st, Layered(b, st), NEW n \in Nat \ {0}
    PROVE  Layered([ring |-> [i \in DOMAIN b.ring |->
                               IF \E j \in 0 .. n - 1 : i = Place(b.idx, j) THEN {}
                                                                            ELSE b.ring[i]],
                    idx |-> Place(b.idx, n)],
                   IF n < Len(st) THEN SubSeq(st, 1, Len(st) - n) ELSE <<{}>>)
<1>. DEFINE ring == [i \in DOMAIN b.ring |->
                       IF \E j \in 0 .. n - 1 : i = Place(b.idx, j) THEN {} ELSE b.ring[i]]
            idx == Place(b.idx, n)
            new == IF n < Len(st) THEN SubSeq(st, 1, Len(st) - n) ELSE <<{}>>
<1>1. /\ b.ring \in [0 .. Levels - 1 -> Entries] /\ b.idx \in 0 .. Levels - 1
      /\ st \in Seq(Entries) /\ Len(st) \in 1 .. Levels /\ Levels \in Nat \ {0}
      /\ b.idx \in Int /\ Len(st) \in Nat
  BY TerminalAssumption DEF Layered, Boards
<1>2. idx \in 0 .. Levels - 1
  <2>1. n \in Int
    OBVIOUS
  <2>. QED
    BY <1>1, <2>1, PlaceIs
<1>3. /\ new \in Seq(Entries)
      /\ n < Len(st) => Len(new) = Len(st) - n /\ \A j \in 1 .. Len(st) - n : new[j] = st[j]
      /\ ~(n < Len(st)) => new = <<{}>> /\ Len(new) = 1 /\ new[1] = {}
  <2>1. CASE n < Len(st)
    <3>1. Len(st) - n \in 1 .. Len(st)
      BY <1>1, <2>1
    <3>. QED
      BY <1>1, <2>1, <3>1
  <2>2. CASE ~(n < Len(st))
    <3>1. {} \in Entries
      BY DEF Entries
    <3>. QED
      BY <2>2, <3>1
  <2>. QED
    BY <2>1, <2>2
<1>4. ring \in [0 .. Levels - 1 -> Entries]
  <2>1. {} \in Entries
    BY DEF Entries
  <2>. QED
    BY <1>1, <2>1
<1>5. \A x \in 0 .. Levels - 1 :
        ring[x] = IF \E j \in 0 .. n - 1 : x = Place(b.idx, j) THEN {} ELSE b.ring[x]
  BY <1>1
<1>. HIDE DEF ring, new, idx
<1>6. ASSUME NEW j \in 0 .. Levels - 1
      PROVE  ring[Place(idx, j)] = IF j < Len(new) THEN new[Len(new) - j] ELSE {}
  <2>0. n \in Int /\ j \in Int /\ n + j \in Int /\ j \in Nat
    BY <1>1
  <2>1. Place(idx, j) = Place(b.idx, n + j) /\ Place(b.idx, n + j) \in 0 .. Levels - 1
    BY <1>1, <2>0, PlaceThen, PlaceIs DEF idx
  <2>2. CASE n + j < Levels
    <3>1. ASSUME NEW k \in 0 .. n - 1 PROVE Place(b.idx, n + j) # Place(b.idx, k)
      BY <1>1, <2>2, PlaceApart
    <3>2. ring[Place(idx, j)] = b.ring[Place(b.idx, n + j)]
      BY <1>5, <2>1, <3>1
    <3>3. n + j \in 0 .. Levels - 1
      BY <1>1, <2>2
    <3>4. b.ring[Place(b.idx, n + j)] = IF n + j < Len(st) THEN st[Len(st) - (n + j)] ELSE {}
      BY <3>3 DEF Layered
    <3>5. CASE n + j < Len(st)
      <4>1. n < Len(st) /\ j < Len(st) - n /\ Len(st) - n - j \in 1 .. Len(st) - n
            /\ Len(st) - (n + j) = Len(st) - n - j
        BY <1>1, <3>5
      <4>. QED
        BY <1>3, <3>2, <3>4, <3>5, <4>1
    <3>6. CASE ~(n + j < Len(st))
      <4>1. n < Len(st) => ~(j < Len(new))
        BY <1>1, <1>3, <3>6
      <4>2. ~(n < Len(st)) /\ j < Len(new) => Len(new) - j = 1 /\ new[1] = {}
        <5>. SUFFICES ASSUME ~(n < Len(st)), j < Len(new)
                      PROVE  Len(new) - j = 1 /\ new[1] = {}
          OBVIOUS
        <5>1. Len(new) = 1 /\ new[1] = {}
          BY <1>3
        <5>. QED
          BY <2>0, <5>1
      <4>. QED
        BY <3>2, <3>4, <3>6, <4>1, <4>2
    <3>. QED
      BY <3>5, <3>6
  <2>3. CASE ~(n + j < Levels)
    <3>1. (n + j) - Levels \in 0 .. n - 1
      BY <1>1, <2>3
    <3>2. Place(b.idx, n + j) = Place(b.idx, (n + j) - Levels)
      BY <1>1, <2>0, PlaceAround
    <3>3. ring[Place(idx, j)] = {}
      BY <1>5, <2>1, <3>1, <3>2
    <3>4. n < Len(st) => ~(j < Len(new))
      BY <1>1, <1>3, <2>3
    <3>5. ~(n < Len(st)) /\ j < Len(new) => Len(new) - j = 1 /\ new[1] = {}
      <4>. SUFFICES ASSUME ~(n < Len(st)), j < Len(new)
                    PROVE  Len(new) - j = 1 /\ new[1] = {}
        OBVIOUS
      <4>1. Len(new) = 1 /\ new[1] = {}
        BY <1>3
      <4>. QED
        BY <2>0, <4>1
    <3>. QED
      BY <3>3, <3>4, <3>5
  <2>. QED
    BY <1>1, <2>2, <2>3
<1>7. Len(new) \in 1 .. Levels
  <2>1. CASE n < Len(st)
    BY <1>1, <1>3, <2>1
  <2>2. CASE ~(n < Len(st))
    <3>1. Len(new) = 1
      BY <1>3, <2>2, Zenon
    <3>. QED
      BY <1>1, <3>1
  <2>. QED
    BY <2>1, <2>2
<1>. QED
  BY <1>2, <1>3, <1>4, <1>6, <1>7 DEF Layered, Boards, ring, new, idx

\* What happens to one screen leaves the other's stack alone.
LEMMA BecomesStacked ==
    ASSUME Stacked, NEW ring, NEW i, NEW st, Keys!Becomes(ring, i, st),
           Layered([ring |-> ring, idx |-> i], st)
    PROVE  Stacked'
<1>. DEFINE b == [ring |-> ring, idx |-> i]
<1>1. /\ kitty' = [kitty EXCEPT ![current] = b] /\ stack' = [stack EXCEPT ![current] = st]
      /\ current' = current /\ Layered(b, st)
  BY DEF Keys!Becomes
<1>. HIDE DEF b
<1>2. DOMAIN kitty' = Grids /\ DOMAIN stack' = Grids
  BY <1>1 DEF Stacked
<1>3. \A g \in Grids : /\ kitty'[g] = IF g = current THEN b ELSE kitty[g]
                       /\ stack'[g] = IF g = current THEN st ELSE stack[g]
  BY <1>1 DEF Stacked
<1>4. \A g \in Grids : Layered(kitty'[g], stack'[g])
  BY <1>1, <1>3 DEF Stacked
<1>5. \A g \in Grids : Layered(kitty[g], stack[g])'
  BY <1>4 DEF Layered
<1>. QED
  BY <1>1, <1>2, <1>5 DEF Stacked

\* A new or reset terminal has no flags on either screen.
LEMMA EmptyStacked ==
    /\ Keys!Init => Stacked
    /\ Keys!TermReset => Stacked'
<1>. DEFINE none == [ring |-> [i \in 0 .. Levels - 1 |-> {}], idx |-> 0]
<1>1. {} \in Entries /\ Levels \in Nat \ {0} /\ "normal" \in Grids
  BY TerminalAssumption DEF Entries, Grids
<1>2. Layered(none, <<{}>>)
  <2>1. none \in Boards /\ none.idx = 0
    BY <1>1 DEF Boards
  <2>2. \A x \in 0 .. Levels - 1 : none.ring[x] = {}
    OBVIOUS
  <2>3. <<{}>> \in Seq(Entries) /\ Len(<<{}>>) = 1 /\ <<{}>>[1] = {}
    BY <1>1
  <2>. HIDE DEF none
  <2>4. \A j \in 0 .. Levels - 1 : Place(0, j) \in 0 .. Levels - 1
    BY <1>1, PlaceIs
  <2>5. ASSUME NEW j \in 0 .. Levels - 1
        PROVE  none.ring[Place(none.idx, j)]
                 = IF j < Len(<<{}>>) THEN <<{}>>[Len(<<{}>>) - j] ELSE {}
    <3>1. none.ring[Place(none.idx, j)] = {}
      BY <2>1, <2>2, <2>4
    <3>2. CASE j = 0
      BY <2>3, <3>1, <3>2
    <3>3. CASE j # 0
      <4>1. ~(j < Len(<<{}>>))
        BY <1>1, <2>3, <3>3
      <4>. QED
        BY <3>1, <4>1, Zenon
    <3>. QED
      BY <3>2, <3>3
  <2>6. Len(<<{}>>) \in 1 .. Levels
    BY <1>1, <2>3
  <2>. QED
    BY <2>1, <2>3, <2>5, <2>6, Zenon DEF Layered
<1>3. Keys!NoFlags = [g \in Grids |-> none]
  BY DEF Keys!NoFlags, Keys!Grids, Grids
<1>. HIDE DEF none
<1>4. Keys!Init => Stacked
  BY <1>1, <1>2, <1>3 DEF Keys!Init, Stacked, Keys!Grids, Grids
<1>5. ASSUME Keys!TermReset PROVE Stacked'
  <2>1. /\ kitty' = [g \in Grids |-> none] /\ stack' = [g \in Grids |-> <<{}>>]
        /\ current' = "normal"
    BY <1>3, <1>5 DEF Keys!TermReset, Keys!Grids, Grids
  <2>2. \A g \in Grids : Layered(kitty'[g], stack'[g])
    BY <1>2, <2>1
  <2>3. \A g \in Grids : Layered(kitty[g], stack[g])'
    BY <2>2 DEF Layered
  <2>. QED
    BY <1>1, <2>1, <2>3 DEF Stacked
<1>. QED
  BY <1>4, <1>5

\* Every step of the keyboard flags keeps the rings and the stacks alike ...
LEMMA KeysStep ==
    ASSUME Stacked, Keys!Next
    PROVE  Stacked'
<1>. DEFINE b == kitty[current]
            st == stack[current]
<1>1. Layered(b, st) /\ b.idx \in 0 .. Levels - 1 /\ b.ring[b.idx] \in Entries
  BY DEF Stacked, Layered, Boards
<1>2. CASE Keys!KittyPush
  <2>1. PICK f \in SUBSET Bits :
          Keys!Becomes([b.ring EXCEPT ![Keys!Above(b.idx)] = f], Keys!Above(b.idx),
                       Append(IF Len(st) = Levels THEN Tail(st) ELSE st, f))
    BY <1>2 DEF Keys!KittyPush, Keys!Ring, Keys!Idx, Keys!Stack
  <2>2. f \in Entries
    BY DEF Entries
  <2>. QED
    BY <1>1, <2>1, <2>2, PushLayered, BecomesStacked
<1>3. CASE Keys!KittySet
  <2>1. PICK f \in SUBSET Bits : \E top \in {f, b.ring[b.idx] \cup f, b.ring[b.idx] \ f} :
          Keys!Becomes([b.ring EXCEPT ![b.idx] = top], b.idx, [st EXCEPT ![Len(st)] = top])
    BY <1>3 DEF Keys!KittySet, Keys!Ring, Keys!Idx, Keys!Stack
  <2>2. PICK top \in {f, b.ring[b.idx] \cup f, b.ring[b.idx] \ f} :
          Keys!Becomes([b.ring EXCEPT ![b.idx] = top], b.idx, [st EXCEPT ![Len(st)] = top])
    BY <2>1
  <2>3. top \in Entries
    BY <1>1 DEF Entries
  <2>. QED
    BY <1>1, <2>2, <2>3, SetLayered, BecomesStacked
<1>4. CASE Keys!KittyPop
  <2>1. PICK n \in 1 .. MaxPop :
          Keys!Becomes([i \in DOMAIN b.ring |->
                          IF \E j \in 0 .. n - 1 : i = Place(b.idx, j) THEN {} ELSE b.ring[i]],
                       Place(b.idx, n),
                       IF n < Len(st) THEN SubSeq(st, 1, Len(st) - n) ELSE <<{}>>)
    BY <1>4, Zenon
       DEF Keys!KittyPop, Keys!Ring, Keys!Idx, Keys!Below, Keys!Popped, Keys!Stack, Place
  <2>2. n \in Nat \ {0}
    BY TerminalAssumption
  <2>. QED
    BY <1>1, <2>1, <2>2, PopLayered, BecomesStacked
<1>5. CASE Keys!AltScreen
  BY <1>5 DEF Keys!AltScreen, Keys!Grids, Grids, Stacked, Layered
<1>6. CASE Keys!TermReset
  BY <1>6, EmptyStacked
<1>. QED
  BY <1>2, <1>3, <1>4, <1>5, <1>6 DEF Keys!Next

\* ... so that the flags in force are the top of the stack.
LEMMA StackedIs == Stacked => Keys!FlagsAreOnTop
<1>. SUFFICES ASSUME Stacked, NEW g \in Grids
              PROVE  kitty[g].ring[kitty[g].idx] = stack[g][Len(stack[g])]
  BY DEF Keys!FlagsAreOnTop, Keys!Grids, Grids
<1>1. /\ kitty[g].idx \in 0 .. Levels - 1 /\ Len(stack[g]) \in 1 .. Levels
      /\ \A j \in 0 .. Levels - 1 :
            kitty[g].ring[Place(kitty[g].idx, j)]
              = IF j < Len(stack[g]) THEN stack[g][Len(stack[g]) - j] ELSE {}
  BY DEF Stacked, Layered, Boards
<1>2. 0 \in 0 .. Levels - 1 /\ 0 < Len(stack[g]) /\ Len(stack[g]) - 0 = Len(stack[g])
  BY <1>1, TerminalAssumption
<1>3. Place(kitty[g].idx, 0) = kitty[g].idx
  BY <1>1, PlaceSelf
<1>. QED
  BY <1>1, <1>2, <1>3

(***************************************************************************)
(* What the terminal keeps                                                 *)
(***************************************************************************)

PartInv ==
    /\ part = "cursor" => Fits(s)
    /\ part = "private" => Kept
    /\ part = "keys" => Stacked

\* The run's steps are those of one part, the others standing still.
LEMMA PartStep ==
    ASSUME Defects = {}, PartInv,
           [MCNext]_<<part, parserVars, cursorVars, printerVars, privateVars, keysVars>>
    PROVE  PartInv'
<1>1. CASE part = "cursor" /\ Cursor!Next /\ UNCHANGED part
  BY <1>1, CursorStep DEF PartInv
<1>2. CASE part = "private" /\ Private!Next /\ UNCHANGED part
  BY <1>2, KeptStep DEF PartInv
<1>3. CASE part = "keys" /\ Keys!Next /\ UNCHANGED part
  BY <1>3, KeysStep DEF PartInv
<1>4. CASE UNCHANGED <<part, s, privateVars, keysVars>>
  <2>1. part = "cursor" => Fits(s)'
    BY <1>4 DEF PartInv
  <2>2. part = "private" => Kept'
    BY <1>4 DEF PartInv, Kept, privateVars, Private!State
  <2>3. part = "keys" => Stacked'
    BY <1>4 DEF PartInv, Stacked, Layered, keysVars
  <2>. QED
    BY <1>4, <2>1, <2>2, <2>3 DEF PartInv
<1>. QED
  BY <1>1, <1>2, <1>3, <1>4 DEF MCNext, cursorVars

\* For any sizes, counts, modes and levels: the cursor is where the assertions about
\* it want it, what XTSAVE remembers can be restored, and each ring of keyboard flags
\* holds the entries of a stack.
THEOREM PartsKept == Defects = {} => (MCSpec => []PartInv)
<1>. SUFFICES ASSUME Defects = {} PROVE MCSpec => []PartInv
  OBVIOUS
<1>1. MCInit => PartInv
  BY ScreenInit, KeptInit, EmptyStacked DEF MCInit, PartInv
<1>2. PartInv /\ [MCNext]_<<part, parserVars, cursorVars, printerVars, privateVars, keysVars>>
        => PartInv'
  BY PartStep
<1>. QED
  BY <1>1, <1>2, PTL DEF MCSpec

\* After any output and any resizes, the cursor fits the screen, its region and a
\* pending wrap; XTRESTORE undoes what was done since XTSAVE; and the flags in force are
\* on top of their stack.
THEOREM StateKept == Defects = {} => (MCSpec => []StateIsKept)
<1>1. PartInv => StateIsKept
  BY FitsIs, KeptRestores, StackedIs DEF PartInv, StateIsKept
<1>. QED
  BY <1>1, PartsKept, PTL
================================================================================
