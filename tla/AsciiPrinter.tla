----------------------------- MODULE AsciiPrinter -----------------------------
(***************************************************************************)
(* The function that prints an ASCII character (term->ascii_printer): a    *)
(* fast one, a generic one that minds character sets, insert mode, styles  *)
(* and sixel images, and one for the character after a single shift.  Which *)
(* is used is chosen when one of these changes (terminal.c, vt.c, csi.c,   *)
(* sixel.c) and not looked at again when a character is printed.           *)
(***************************************************************************)
EXTENDS FiniteSets

CONSTANTS
    Slots,     \* a bound: the character sets used of G0, G1, G2 and G3; "g0" is one
    Shifts,    \* those that a single shift selects, of G2 and G3
    Defects    \* what PrinterFits does not hold for: see Next

ASSUME SlotsAssumption == "g0" \in Slots /\ Shifts \subseteq Slots

VARIABLES
    charsets,  \* term->charsets: selected, saved (by a single shift), and each set
    kept,      \* term->saved_charsets
    insert,    \* term->insert_mode
    styled,    \* a hyperlink is open, or underlines have a style or a colour
    screen,    \* term->grid: "normal" or "alt"
    images,    \* the grids that have sixel images
    bits,      \* term->bits_affecting_ascii_printer: those that are set
    printer    \* term->ascii_printer: "fast", "generic" or "shift"

printerVars == <<charsets, kept, insert, styled, screen, images, bits, printer>>

Graphic == charsets.set[charsets.selected] = "graphic"

\* term_update_ascii_printer(), for the bits as they are after the step
Update(set) == bits' = set /\ printer' = IF set = {} THEN "fast" ELSE "generic"
With(bit, on) == IF on THEN bits \cup {bit} ELSE bits \ {bit}

(***************************************************************************)
(* Character sets                                                          *)
(***************************************************************************)

UpdateCharset == Update(With("charset", charsets'.set[charsets'.selected] = "graphic"))

\* SO, SI, ESC n and ESC o: locking shifts
LockingShift ==
    \E g \in Slots :
        /\ charsets' = [charsets EXCEPT !.selected = g]
        /\ UpdateCharset
        /\ UNCHANGED <<kept, insert, styled, screen, images>>

\* Mutant of Designate: looks at the set that was designated.
DesignateThat ==
    \E g \in Slots, set \in {"ascii", "graphic"} :
        /\ charsets' = [charsets EXCEPT !.set[g] = set]
        /\ Update(With("charset", set = "graphic"))
        /\ UNCHANGED <<kept, insert, styled, screen, images>>

\* ESC ( 0 and the like
Designate ==
    \E g \in Slots, set \in {"ascii", "graphic"} :
        /\ charsets' = [charsets EXCEPT !.set[g] = set]
        /\ UpdateCharset
        /\ UNCHANGED <<kept, insert, styled, screen, images>>

\* ESC N and ESC O: term_single_shift()
SingleShift ==
    \E g \in Shifts :
        /\ charsets' = [charsets EXCEPT !.saved = charsets.selected, !.selected = g]
        /\ printer' = "shift"
        /\ UNCHANGED <<kept, insert, styled, screen, images, bits>>

(***************************************************************************)
(* Printing and erasing                                                    *)
(***************************************************************************)

\* sixel_overwrite_by_rectangle(), sixel_overwrite_by_row(), sixel_scroll_up()
\* and sixel_scroll_down() return early without images on this grid, and may
\* otherwise remove the last of them.
Overwrite ==
    IF screen \notin images THEN UNCHANGED <<images, bits, printer>>
    ELSE \E left \in BOOLEAN :
            /\ images' = IF left THEN images ELSE images \ {screen}
            /\ Update(With("sixels", left))

\* print_linewrap() by the fast printer, which scrolls only
PrintFast == printer = "fast" /\ Overwrite /\ UNCHANGED charsets

\* ascii_printer_generic()
PrintGeneric == printer = "generic" /\ Overwrite /\ UNCHANGED charsets

\* ascii_printer_single_shift(): the generic printer, then the set that was
\* selected before.
PrintShifted ==
    /\ printer = "shift"
    /\ charsets' = [charsets EXCEPT !.selected = charsets.saved]
    /\ \E left \in IF screen \in images THEN BOOLEAN ELSE {TRUE} :
          /\ images' = IF left THEN images ELSE images \ {screen}
          /\ Update({b \in bits \cup {"charset"} :
                       /\ b = "charset" => charsets'.set[charsets'.selected] = "graphic"
                       /\ b = "sixels" => left})

PrintAscii == (PrintFast \/ PrintGeneric \/ PrintShifted)
              /\ UNCHANGED <<kept, insert, styled, screen>>

\* Other characters, always printed by term_print(), erasing and scrolling
PrintOther ==
    /\ Overwrite
    /\ UNCHANGED <<charsets, kept, insert, styled, screen>>

\* sixel_unhook()
SixelUnhook ==
    /\ images' = images \cup {screen}
    /\ Update(With("sixels", TRUE))
    /\ UNCHANGED <<charsets, kept, insert, styled, screen>>

(***************************************************************************)
(* Modes and styles                                                        *)
(***************************************************************************)

\* CSI 4 h and CSI 4 l
SetInsert ==
    /\ insert' \in BOOLEAN
    /\ Update(With("insert_mode", insert'))
    /\ UNCHANGED <<charsets, kept, styled, screen, images>>

\* csi_sgr() with underlines, sgr_reset(), term_osc8_open(), term_osc8_close()
SetStyle ==
    /\ styled' \in BOOLEAN
    /\ Update(With("style", styled'))
    /\ UNCHANGED <<charsets, kept, insert, screen, images>>

\* term_save_cursor() and term_restore_cursor()
SaveCursor ==
    /\ kept' = charsets
    /\ UNCHANGED <<charsets, insert, styled, screen, images, bits, printer>>
RestoreCursor ==
    /\ charsets' = kept
    /\ UpdateCharset
    /\ UNCHANGED <<kept, insert, styled, screen, images>>

\* Modes 47, 1047 and 1049, of which the last saves and restores the cursor; the
\* images of the alternate screen go when it is left.
AltScreen(restores) ==
    /\ screen' = IF screen = "alt" THEN "normal" ELSE "alt"
    /\ images' = images \ (IF screen = "alt" THEN {"alt"} ELSE {})
    /\ kept' = IF restores /\ screen = "normal" THEN charsets ELSE kept
    /\ charsets' = IF restores /\ screen = "alt" THEN kept ELSE charsets
    /\ Update({b \in bits \cup {"charset", "sixels"} :
                 /\ b = "sixels" => screen' \in images'
                 /\ b = "charset" => IF restores /\ screen = "alt"
                                     THEN charsets'.set[charsets'.selected] = "graphic"
                                     ELSE "charset" \in bits})
    /\ UNCHANGED <<insert, styled>>

Plain == [selected |-> "g0", saved |-> "g0", set |-> [g \in Slots |-> "ascii"]]

\* term_reset(), soft or hard
TermReset ==
    /\ charsets' = [Plain EXCEPT !.saved = charsets.saved]
    /\ kept' = charsets'
    /\ insert' = FALSE /\ styled' = FALSE /\ screen' = "normal" /\ images' = {}
    /\ Update({})

Init ==
    /\ charsets = Plain /\ kept = Plain
    /\ insert = FALSE /\ styled = FALSE /\ screen = "normal" /\ images = {}
    /\ bits = {} /\ printer = "fast"

\* What chooses the printer anew between a single shift and its character makes
\* the shift a locking one, and a second single shift saves the first.
Others ==
    \/ LockingShift \/ Designate \/ SingleShift \/ PrintOther \/ SixelUnhook
    \/ SetInsert \/ SetStyle \/ SaveCursor \/ RestoreCursor \/ TermReset
    \/ \E restores \in BOOLEAN : AltScreen(restores)

Next ==
    \/ PrintAscii
    \/ ("single shift" \in Defects \/ printer # "shift") /\ Others

Spec == Init /\ [][Next]_printerVars

(***************************************************************************)
(* Properties                                                              *)
(***************************************************************************)

\* The fast printer is not used while characters have to be translated, moved
\* aside or styled, or images are in the way: its three assertions, and what it
\* leaves out.
PrinterFits ==
    printer = "fast" => ~Graphic /\ ~insert /\ ~styled /\ screen \notin images
===============================================================================
