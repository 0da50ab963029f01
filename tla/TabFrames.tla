------------------------------ MODULE TabFrames ------------------------------
(***************************************************************************)
(* Who draws a window, and when.  Without split mode only the active tab   *)
(* draws, to the window's surface, and the window has one frame callback;  *)
(* in split mode every tab draws to a pane with a frame callback of its    *)
(* own (tab.c do_tab_switch(), tab_split_enter() ..., render.c             *)
(* frame_callback() and fdm_hook_refresh_pending_terminals()).  A frame    *)
(* callback carries the terminal it was created for, and calls it back     *)
(* once the compositor has shown the frame: the terminal does not draw     *)
(* again before.                                                           *)
(*                                                                         *)
(* The hook runs before each round of event handlers; handlers and hook    *)
(* are atomic and may follow each other in any order.                      *)
(***************************************************************************)
EXTENDS Integers, FiniteSets

CONSTANTS
    Terms,
    NoTerm,            \* not one of them
    SplitsDuringFrame  \* may split mode be entered with a frame in flight?

VARIABLES
    tabs,     \* the terminals of win->tab_bar.tabs
    active,   \* win->tab_bar.active->term, and win->term
    split,    \* win->tab_bar.split_mode
    pointer,  \* win->frame_callback: null, live, or dangling (was destroyed)
    data,     \* the terminal of the window's frame callback
    paneCb,   \* tabs whose pane_frame_cb is not NULL
    refresh,  \* term->render.refresh.grid
    pending,  \* term->render.pending.grid
    stale,    \* what the compositor shows of the terminal is out of date
    gone      \* detached: "detached", "freed"; else "no"

vars == <<tabs, active, split, pointer, data, paneCb, refresh, pending, stale, gone>>

TypeOK ==
    /\ tabs \subseteq Terms /\ active \in tabs
    /\ split \in BOOLEAN
    /\ pointer \in {"null", "live", "dangling"}
    /\ data \in Terms \cup {NoTerm}
    /\ paneCb \subseteq tabs
    /\ refresh \subseteq Terms /\ pending \subseteq Terms /\ stale \subseteq Terms
    /\ gone \in [Terms -> {"no", "detached", "freed"}]

Shown(t) == t \in tabs /\ (split \/ t = active)

(***************************************************************************)
(* Drawing                                                                 *)
(***************************************************************************)

\* grid_render() of t: a frame, and a frame callback for it.
DrawInWindow(t) ==
    /\ pointer' = "live" /\ data' = t
    /\ stale' = stale \ {t}

\* fdm_hook_refresh_pending_terminals(): a terminal that is shown draws what it
\* was asked to, or leaves it to its frame callback; the others forget it.
FdmHook ==
    /\ refresh \cap tabs # {}
    /\ refresh' = refresh \ tabs
    /\ IF split
       THEN LET ready == (refresh \cap tabs) \ paneCb IN
            /\ paneCb' = paneCb \cup ready
            /\ stale' = stale \ ready
            /\ pending' = pending \cup (refresh \cap paneCb)
            /\ UNCHANGED <<pointer, data>>
       ELSE /\ UNCHANGED paneCb
            /\ IF active \notin refresh
               THEN UNCHANGED <<pointer, data, pending, stale>>
               ELSE IF pointer = "null"
               THEN DrawInWindow(active) /\ UNCHANGED pending
               ELSE /\ pending' = pending \cup {active}
                    /\ UNCHANGED <<pointer, data, stale>>
    /\ UNCHANGED <<tabs, active, split, gone>>

\* Mutant of WindowFrameDone: what was pending is forgotten.
WindowFrameDoneForgets ==
    /\ pointer = "live"
    /\ pointer' = IF data \in tabs THEN "null" ELSE "dangling"
    /\ pending' = pending \ {data}
    /\ UNCHANGED <<tabs, active, split, data, paneCb, refresh, stale, gone>>

\* frame_callback(), called for the window's callback: a terminal that was
\* detached destroys the callback it was given, but cannot clear the window's
\* pointer to it; one that is no longer active does nothing; else what is
\* pending is drawn, now or once the delayed render timer expires.
WindowFrameDone ==
    /\ pointer = "live"
    /\ IF data \notin tabs
       THEN /\ pointer' = "dangling"
            /\ UNCHANGED <<data, paneCb, refresh, pending, stale>>
       ELSE /\ pending' = pending \ {data}
            /\ \/ /\ data \notin pending \/ ~Shown(data)
                  /\ pointer' = "null"
                  /\ UNCHANGED <<data, paneCb, refresh, stale>>
               \/ /\ data \in pending /\ Shown(data)
                  /\ \/ /\ refresh' = refresh \cup {data}
                        /\ pointer' = "null"
                        /\ UNCHANGED <<data, paneCb, stale>>
                     \/ /\ ~split
                        /\ DrawInWindow(data)
                        /\ UNCHANGED <<paneCb, refresh>>
                     \/ /\ split
                        /\ pointer' = "null"
                        /\ paneCb' = paneCb \cup {data}
                        /\ stale' = stale \ {data}
                        /\ UNCHANGED <<data, refresh>>
    /\ UNCHANGED <<tabs, active, split, gone>>

\* frame_callback(), called for a pane's callback.
PaneFrameDone(t) ==
    /\ t \in paneCb
    /\ pending' = pending \ {t}
    /\ \/ /\ t \notin pending
          /\ paneCb' = paneCb \ {t}
          /\ UNCHANGED <<refresh, stale>>
       \/ /\ t \in pending
          /\ \/ /\ paneCb' = paneCb \ {t}
                /\ refresh' = refresh \cup {t}
                /\ UNCHANGED stale
             \/ /\ stale' = stale \ {t}
                /\ UNCHANGED <<paneCb, refresh>>
    /\ UNCHANGED <<tabs, active, split, pointer, data, gone>>

\* The terminal's content changes, and with it render_refresh() is called (by
\* the delayed render timers; a hidden tab's is called too).
Output(t) ==
    /\ t \in tabs
    /\ refresh' = refresh \cup {t}
    /\ stale' = stale \cup {t}
    /\ UNCHANGED <<tabs, active, split, pointer, data, paneCb, pending, gone>>

(***************************************************************************)
(* Tabs                                                                    *)
(***************************************************************************)

\* Mutant of SwitchTo: the old tab's frame callback is left in place.
SwitchToKeepsFrame(old, t) ==
    /\ active' = t
    /\ UNCHANGED <<pointer, data>>
    /\ IF split
       THEN /\ refresh' = refresh \cup {old, t}
            /\ stale' = stale \cup {old, t}
            /\ UNCHANGED pending
       ELSE /\ refresh' = (refresh \ {old}) \cup {t}
            /\ pending' = pending \ {old}
            /\ stale' = stale \cup {t}

\* do_tab_switch() from the tab old: outside split mode it must not draw any
\* more, and the frame callback it may have is destroyed.
SwitchTo(old, t) ==
    /\ active' = t
    /\ UNCHANGED data
    /\ IF split
       THEN /\ refresh' = refresh \cup {old, t}
            /\ stale' = stale \cup {old, t}
            /\ UNCHANGED <<pointer, pending>>
       ELSE /\ refresh' = (refresh \ {old}) \cup {t}
            /\ pending' = pending \ {old}
            /\ stale' = stale \cup {t}
            /\ pointer' = "null"

TabSwitch(t) ==
    /\ t \in tabs \ {active}
    /\ SwitchTo(active, t)
    /\ UNCHANGED <<tabs, split, paneCb, gone>>

\* tab_split_enter(): every tab gets a pane to draw in.
TabSplitEnter ==
    /\ Cardinality(tabs) > 1 /\ ~split
    /\ SplitsDuringFrame \/ pointer = "null"
    /\ split' = TRUE
    /\ refresh' = refresh \cup tabs
    /\ stale' = stale \cup tabs
    /\ UNCHANGED <<tabs, active, pointer, data, paneCb, pending, gone>>

\* tab_split_exit(): the panes are destroyed, with their frame callbacks.
TabSplitExit ==
    /\ split
    /\ split' = FALSE
    /\ paneCb' = {}
    /\ refresh' = refresh \cup {active}
    /\ stale' = stale \cup {active}
    /\ UNCHANGED <<tabs, active, pointer, data, pending, gone>>

\* tab_attach(): split mode is left first.
TabAttach(t) ==
    /\ t \notin tabs /\ gone[t] = "no"
    /\ tabs' = tabs \cup {t}
    /\ split' = FALSE /\ paneCb' = {}
    /\ active' = t
    /\ refresh' = (refresh \ {active}) \cup {t}
    /\ pending' = pending \ {active}
    /\ stale' = stale \cup {t}
    /\ pointer' = "null"
    /\ UNCHANGED <<data, gone>>

\* tab_detach() of one of several tabs: the focus moves away first; a split
\* with one pane left is ended, one with several is laid out again.
TabDetach(t) ==
    /\ t \in tabs /\ tabs # {t}
    /\ tabs' = tabs \ {t}
    /\ split' = (split /\ Cardinality(tabs) > 2)
    /\ paneCb' = IF split' THEN paneCb \ {t} ELSE {}
    /\ \E u \in tabs \ {t} :
         /\ active # t => u = active
         /\ active' = u
         /\ IF split
            THEN /\ refresh' = refresh \cup (tabs \ {t})
                 /\ stale' = stale \cup (tabs \ {t})
            ELSE LET redraw == {v \in {u} : t = active \/ tabs = {t, u}} IN
                 /\ refresh' = (refresh \ ({t} \cap {active})) \cup redraw
                 /\ stale' = stale \cup redraw
    /\ IF t = active /\ ~split
       THEN pointer' = "null" /\ pending' = pending \ {t}
       ELSE UNCHANGED <<pointer, pending>>
    /\ gone' = [gone EXCEPT ![t] = "detached"]
    /\ UNCHANGED data

\* fdm_shutdown(), and, when its slave is gone, term_destroy().
TermDestroy(t) ==
    /\ gone[t] = "detached"
    /\ gone' = [gone EXCEPT ![t] = "freed"]
    /\ UNCHANGED <<tabs, active, split, pointer, data, paneCb, refresh, pending, stale>>

Init ==
    /\ \E t \in Terms :
         tabs = {t} /\ active = t /\ refresh = {t} /\ stale = {t}
    /\ split = FALSE /\ pointer = "null" /\ data = NoTerm
    /\ paneCb = {} /\ pending = {}
    /\ gone = [t \in Terms |-> "no"]

Next ==
    \/ FdmHook \/ WindowFrameDone \/ TabSplitEnter \/ TabSplitExit
    \/ \E t \in Terms : \/ PaneFrameDone(t) \/ Output(t) \/ TabSwitch(t)
                        \/ TabAttach(t) \/ TabDetach(t) \/ TermDestroy(t)

Spec == Init /\ [][Next]_vars

\* The loop runs its hook, and the compositor shows frames.
FairSpec ==
    /\ Spec
    /\ WF_vars(FdmHook)
    /\ WF_vars(WindowFrameDone)
    /\ \A t \in Terms : WF_vars(PaneFrameDone(t))

(***************************************************************************)
(* Properties                                                              *)
(***************************************************************************)

\* A shown terminal that is out of date will be drawn: by the hook, or by a
\* frame callback that is in flight and is the terminal's own ("leaving the
\* callback in place would strand the new tab's render", do_tab_switch()).
StaleIsDriven ==
    \A t \in stale :
        Shown(t) => \/ t \in refresh
                    \/ /\ t \in pending
                       /\ IF split THEN t \in paneCb ELSE pointer = "live" /\ data = t

\* The window's frame callback is never a callback that was destroyed, nor
\* that of a terminal which has left the window.
FrameHasTerminal ==
    /\ pointer # "dangling"
    /\ pointer = "live" => data \in tabs

\* grid_render()'s assertion: when frame_callback() draws, no other frame of
\* the same surface is in flight.
OneFrameInFlight ==
    (pointer = "live" /\ split /\ data \in tabs \cap pending) => data \notin paneCb

\* Outside split mode no pane's callback is in flight, and a window's frame is
\* the active tab's.
OnlyShownDraw ==
    /\ ~split => paneCb = {}
    /\ ~split /\ pointer = "live" => data = active

\* What is shown is brought up to date, however tabs are switched, split,
\* opened and closed meanwhile: no tab freezes.
ShownIsDrawn == \A t \in Terms : t \in stale /\ Shown(t) ~> (t \notin stale \/ ~Shown(t))
==============================================================================
