------------------------------- MODULE MCTerminal -----------------------------
(***************************************************************************)
(* Small instances for TLC of the state machines that a terminal's output  *)
(* drives: the parser, the cursor, the choice of a printer, the private    *)
(* modes and the keyboard flags, each by itself: part says which.          *)
(***************************************************************************)
EXTENDS AsciiPrinter, Integers

CONSTANTS
    MaxParams, MaxSubs, MaxPrivate, Wrap, MaxSeq, StringBytes,
    Sizes, Counts,
    Flag, Used, MaxList,
    Levels, Bits, MaxPop

ASSUME TerminalAssumption ==
    /\ Sizes \subseteq (Nat \ {0}) \X (Nat \ {0}) /\ Counts \subseteq Nat \ {0}
    /\ Levels \in Nat \ {0} /\ MaxPop \in Nat /\ MaxList \in Nat

VARIABLES
    part,
    vt, events, seq,
    s,
    tracking, reporting, grid, flags, slots, asked,
    kitty, current, stack

Parser  == INSTANCE VtParser
Cursor  == INSTANCE Screen
Private == INSTANCE Modes
Keys    == INSTANCE KeyboardFlags

\* Each private mode is of one kind.
ASSUME ModesAssumption ==
    LET shared == Private!Tracking \cup Private!Reporting \cup Private!Alternate
    IN Flag \cap shared = {} /\ Used \subseteq Flag \cup shared

parserVars  == <<vt, events, seq>>
cursorVars  == <<s>>
privateVars == <<tracking, reporting, grid, flags, slots, asked>>
keysVars    == <<kitty, current, stack>>

\* The variables of the parts that a behaviour is not about; the printer's are
\* as they begin.
NoParser == vt = 0 /\ events = 0 /\ seq = 0
NoCursor == s = 0
NoPrivate == tracking = 0 /\ reporting = 0 /\ grid = 0 /\ flags = 0 /\ slots = 0 /\ asked = 0
NoKeys == kitty = 0 /\ current = 0 /\ stack = 0

MCInit ==
    /\ Init
    /\ \/ part = "parser"  /\ Parser!Init  /\ NoCursor /\ NoPrivate /\ NoKeys
       \/ part = "cursor"  /\ Cursor!Init  /\ NoParser /\ NoPrivate /\ NoKeys
       \/ part = "printer" /\ NoParser /\ NoCursor /\ NoPrivate /\ NoKeys
       \/ part = "private" /\ Private!Init /\ NoParser /\ NoCursor /\ NoKeys
       \/ part = "keys"    /\ Keys!Init    /\ NoParser /\ NoCursor /\ NoPrivate
MCNext ==
    \/ /\ part = "parser" /\ Parser!Next
       /\ UNCHANGED <<part, cursorVars, printerVars, privateVars, keysVars>>
    \/ /\ part = "cursor" /\ Cursor!Next
       /\ UNCHANGED <<part, parserVars, printerVars, privateVars, keysVars>>
    \/ /\ part = "printer" /\ Next
       /\ UNCHANGED <<part, parserVars, cursorVars, privateVars, keysVars>>
    \/ /\ part = "private" /\ Private!Next
       /\ UNCHANGED <<part, parserVars, cursorVars, printerVars, keysVars>>
    \/ /\ part = "keys" /\ Keys!Next
       /\ UNCHANGED <<part, parserVars, cursorVars, printerVars, privateVars>>
MCSpec ==
    /\ MCInit
    /\ [][MCNext]_<<part, parserVars, cursorVars, printerVars, privateVars, keysVars>>

TheSizes == {<<3, 2>>, <<2, 2>>}

\* What vt.c prints, dispatches or hands to a string's handler is what the bytes
\* since the sequence began spell, whatever was cancelled before.
SequencesAsWritten == part = "parser" => Parser!SequencesAsWritten

\* What the terminal keeps of its output fits what is on the screen and can be
\* taken back: the assertions of term_cursor_to(), term_cursor_up(),
\* term_cursor_down() and term_print() hold after any sequences and resizes;
\* XTRESTORE undoes what was done to the modes that XTSAVE saved, though setting
\* one mode may reset another; the ring that holds each screen's keyboard flags
\* works as a stack that forgets its oldest entries.
StateIsKept ==
    /\ part = "cursor"  => Cursor!CursorFits
    /\ part = "private" => Private!RestoresWhatWasSaved
    /\ part = "keys"    => Keys!FlagsAreOnTop
===============================================================================
