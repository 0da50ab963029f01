--------------------------------- MODULE Modes --------------------------------
(***************************************************************************)
(* The modes an application sets, asks for, saves and restores (DECSET,    *)
(* DECRQM, XTSAVE and XTRESTORE in csi.c).  Modes that exclude each       *)
(* other share a value: what the mouse reports, how that is encoded, and   *)
(* the alternate screen.                                                   *)
(***************************************************************************)
EXTENDS Integers, Sequences, SequencesExt

CONSTANTS
    Flag,      \* modes that are a flag of their own
    Used,      \* a bound: the modes used
    MaxList    \* a bound on the modes of one sequence

Tracking  == {"click", "drag", "motion"}        \* 1000, 1002 and 1003
Reporting == {"sgr", "urxvt", "pixels"}         \* 1006, 1015 and 1016
Alternate == {"alt47", "alt1047", "alt1049"}

VARIABLES
    tracking,  \* term->mouse_tracking, or "none"
    reporting, \* term->mouse_reporting, or "normal"
    grid,      \* term->grid: "normal" or "alt"
    flags,     \* the modes of Flag that are set
    slots,     \* term->xtsave: the modes that were set when saved
    asked      \* the modes that were saved last, and as what (history)

modeVars  == <<tracking, reporting, grid, flags>>
modesVars == <<modeVars, slots, asked>>

State == [tracking |-> tracking, reporting |-> reporting, grid |-> grid, flags |-> flags]
Becomes(s) ==
    /\ tracking' = s.tracking /\ reporting' = s.reporting
    /\ grid' = s.grid /\ flags' = s.flags

(***************************************************************************)
(* Setting and asking                                                      *)
(***************************************************************************)

\* Mutant of Exclusive: resetting any mode of the group resets the group.
ExclusiveResets(value, mode, on, none) == IF on THEN mode ELSE none

\* A mode of a group is reset only if it is the one that is set.
Exclusive(value, mode, on, none) ==
    IF on THEN mode ELSE IF value = mode THEN none ELSE value

\* decset_decrst()
DecSet(s, mode, on) ==
    CASE mode \in Tracking  -> [s EXCEPT !.tracking = Exclusive(@, mode, on, "none")]
      [] mode \in Reporting -> [s EXCEPT !.reporting = Exclusive(@, mode, on, "normal")]
      [] mode \in Alternate -> [s EXCEPT !.grid = IF on THEN "alt" ELSE "normal"]
      [] mode \in Flag      -> [s EXCEPT !.flags = IF on THEN @ \cup {mode} ELSE @ \ {mode}]

\* decrqm(): is the mode set?
DecRqm(s, mode) ==
    CASE mode \in Tracking  -> s.tracking = mode
      [] mode \in Reporting -> s.reporting = mode
      [] mode \in Alternate -> s.grid = "alt"
      [] mode \in Flag      -> mode \in s.flags

Lists == BoundedSeq(Used, MaxList) \ {<<>>}

SetModes ==
    \E mode \in Used, on \in BOOLEAN :
        /\ Becomes(DecSet(State, mode, on))
        /\ UNCHANGED <<slots, asked>>

(***************************************************************************)
(* Saving and restoring                                                    *)
(***************************************************************************)

\* Modes 47, 1047 and 1049 are saved in one place.
Slot(mode) == IF mode \in Alternate THEN Alternate ELSE {mode}

\* xtsave(), of each mode of CSI ? Pm s: saving changes no mode, so that those
\* that are saved in one place agree.
XtSave ==
    \E list \in Lists :
        LET on == {m \in ToSet(list) : DecRqm(State, m)}
        IN /\ slots' = (slots \ UNION {Slot(m) : m \in ToSet(list)}) \cup UNION {Slot(m) : m \in on}
           /\ asked' = [list |-> list, set |-> on]
           /\ UNCHANGED <<modeVars>>

\* xtrestore(), of each mode of CSI ? Pm r
Restored(list) ==
    LET restored[n \in 0 .. Len(list)] ==
            IF n = 0 THEN State ELSE DecSet(restored[n - 1], list[n], list[n] \in slots)
    IN restored[Len(list)]

XtRestore(list) ==
    /\ Becomes(Restored(list))
    /\ UNCHANGED <<slots, asked>>

\* term_reset()
TermReset ==
    /\ Becomes([tracking |-> "none", reporting |-> "normal", grid |-> "normal", flags |-> {}])
    /\ UNCHANGED <<slots, asked>>

Init ==
    /\ tracking = "none" /\ reporting = "normal" /\ grid = "normal" /\ flags = {}
    /\ slots = {} /\ asked = [list |-> <<>>, set |-> {}]

Next ==
    \/ SetModes \/ XtSave \/ TermReset
    \/ \E list \in Lists : XtRestore(list)

Spec == Init /\ [][Next]_modesVars

(***************************************************************************)
(* Properties                                                              *)
(***************************************************************************)

\* Restoring the modes that were saved last, in the same order, makes each of
\* them what it was, whichever of those that exclude it were set meanwhile.
RestoresWhatWasSaved ==
    \A mode \in ToSet(asked.list) : DecRqm(Restored(asked.list), mode) <=> mode \in asked.set
===============================================================================
