----------------------------- MODULE MCTabFrames ------------------------------
(***************************************************************************)
(* Small instances of TabFrames for TLC, under names of their own: who     *)
(* draws a window is another part of the same tabs than MCTabs's.          *)
(***************************************************************************)
EXTENDS Integers

CONSTANTS Terminals, NoTerm, SplitsDuringFrame

ASSUME FrameAssumption == NoTerm \notin Terminals /\ SplitsDuringFrame \in BOOLEAN

VARIABLES members, front, panes, pointer, data, paneCb, refresh, pending, stale, ended

Frames == INSTANCE TabFrames
            WITH Terms <- Terminals,
                 tabs <- members, active <- front, split <- panes, gone <- ended

FramesSpec == Frames!FairSpec

\* A shown terminal that is out of date will be drawn: by the hook, or by a
\* frame callback of its own that is in flight (do_tab_switch()).
StaleIsDriven == Frames!StaleIsDriven

\* The window's frame callback is neither a destroyed one nor that of a terminal
\* which has left the window (frame_callback()).
FrameHasTerminal == Frames!FrameHasTerminal

\* No shown tab freezes: what is shown is brought up to date, however tabs are
\* switched, split, opened and closed meanwhile (fdm_hook_refresh_pending_terminals()).
ShownIsDrawn == Frames!ShownIsDrawn
==============================================================================
