-------------------------------- MODULE Pointer --------------------------------
(***************************************************************************)
(* Pointer and touch events of a seat over one window with its tabs        *)
(* (input.c).  foot remembers which of the window's surfaces each button   *)
(* was pressed on; the release goes there, wherever the pointer is by      *)
(* then.  A press may start a selection, be reported to the application,   *)
(* or start the timer after which a drag moves the window.  A finger       *)
(* stands for the left button, once it is clear that it does not scroll.   *)
(***************************************************************************)
EXTENDS Integers, Sequences, FiniteSets, SequencesExt

CONSTANTS
    Tabs,       \* the window's terminals
    Buttons,    \* "left" and others
    Admitted    \* see below

\* What is known to leave a button, a drag or a timer behind, unless it is left out: the
\* compositor takes the pointer away while a button is held; another tab is
\* shown while one is held; an application asks for reports, or the user presses
\* the override keys, while one is held; the compositor cancels a touch; a
\* device is unplugged, or plugged in, while another is in use.
Defects == {"grab broken", "tab switched", "reports change", "touch cancelled", "devices change"}

VARIABLES
    s,        \* the seat, and what it shares with the window and its terminals
    inside,   \* whether the compositor has sent an enter event
    held,     \* the buttons that the user holds down over the window
    given     \* whether the compositor may take the pointer: it was asked to move the window

pointerVars == <<s, inside, held, given>>

None == "none"
Surfaces == {"grid", "title", "border", "button", "bar"}

\* What the mouse binding of a press does.
Bindings == {"none", "select", "other"}

Init ==
    \E t \in Tabs :
       /\ s = [term |-> t,                 \* win->term
               focus |-> None,             \* seat->mouse_focus
               surface |-> [u \in Tabs |-> None],   \* term->active_surface
               buttons |-> <<>>,           \* seat->mouse.buttons
               touch |-> "idle",           \* seat->touch.state
               touched |-> None,           \* seat->touch.surface_kind
               hasTouch |-> TRUE,          \* seat->wl_touch != NULL
               hasPointer |-> TRUE,        \* seat->wl_pointer != NULL
               menu |-> FALSE,             \* tab_bar.ctx_menu_visible
               move |-> "off",             \* csd.move_timeout_fd: "stale" is a closed one
               ongoing |-> [u \in Tabs |-> FALSE],  \* selection.ongoing
               scroll |-> [u \in Tabs |-> FALSE],   \* selection.auto_scroll.fd >= 0
               tracking |-> [u \in Tabs |-> FALSE], \* term->mouse_tracking
               override |-> FALSE,         \* the modifiers of selection_override
               told |-> [u \in Tabs |-> {}]]        \* the presses reported, and not released
       /\ inside = FALSE /\ held = {} /\ given = FALSE

TouchIsActive(v) == v.hasTouch /\ v.touch \in {"held", "dragging", "scrolling"}

\* term_mouse_grabbed()
Grabbed(v, t) == ~v.tracking[t] \/ v.override

Tracked(v) == {v.buttons[k].button : k \in DOMAIN v.buttons}
Place(v, button) == CHOOSE k \in DOMAIN v.buttons : v.buttons[k].button = button
Untracked(v, button) ==
    IF button \in Tracked(v) THEN RemoveAt(v.buttons, Place(v, button)) ELSE v.buttons

\* selection_finalize(), selection_cancel()
SelectionEnds(v, t) == [v EXCEPT !.ongoing[t] = FALSE, !.scroll[t] = FALSE]

\* mouse_button_state_reset()
ButtonsReset(v) == [v EXCEPT !.buttons = <<>>]

\* do_tab_switch()
SwitchTo(v, t) ==
    [v EXCEPT !.term = t, !.surface[t] = v.surface[v.term],
              !.focus = IF @ = v.term THEN t ELSE @]

(***************************************************************************)
(* wl_pointer_button(), of the terminal in focus                           *)
(***************************************************************************)

\* A press over the grid: a binding may take it when foot has the mouse; it goes to the
\* application when nothing did and the application has the mouse.
PressGrid(v, button, binding) ==
    LET t == v.focus
        consumed == Grabbed(v, t) /\ binding # "none"
        selecting == IF consumed /\ binding = "select"
                     THEN [SelectionEnds(v, t) EXCEPT !.ongoing[t] = TRUE] ELSE v
    IN [selecting EXCEPT !.buttons[Len(v.buttons)].send = ~consumed,
                         !.told[t] = IF ~consumed /\ ~Grabbed(v, t) THEN @ \cup {button} ELSE @]

Pressed(v, button, binding) ==
    LET surface == v.surface[v.focus]
        tracked == [v EXCEPT
           !.touch = IF v.hasTouch /\ @ = "idle" THEN "inhibited" ELSE @,
           !.buttons = Append(Untracked(v, button),
                              [button |-> button, surface |-> surface, send |-> FALSE])]
    IN IF v.menu THEN [v EXCEPT !.menu = FALSE]
       ELSE CASE surface = "title" /\ button = "left" /\ v.move = "off" ->
                   [tracked EXCEPT !.move = "armed"]
              [] surface = "bar" /\ button # "left" -> [tracked EXCEPT !.menu = TRUE]
              [] surface = "grid" -> PressGrid(tracked, button, binding)
              [] OTHER -> tracked

\* The surface that the button was pressed on gets its release; tab is the one under
\* the pointer in the tab bar.
ReleasedOn(v, b, tab) ==
    LET t == v.focus
        finalized == SelectionEnds(v, t)
    IN CASE b.surface = "title" -> [v EXCEPT !.move = "off"]
         [] b.surface = "bar" /\ b.button = "left" -> SwitchTo(v, tab)
         [] b.surface = "grid" ->
              IF b.send /\ ~Grabbed(v, t) THEN [finalized EXCEPT !.told[t] = @ \ {b.button}]
              ELSE finalized
         [] OTHER -> v

\* The menu takes releases too; one that nobody knows the press of is ignored.
Released(v, button, tab) ==
    LET b == v.buttons[Place(v, button)]
        left == [v EXCEPT !.buttons = Untracked(v, button)]
        freed == [left EXCEPT !.touch = IF v.hasTouch /\ @ = "inhibited" /\ left.buttons = <<>>
                                        THEN "idle" ELSE @]
    IN IF v.menu THEN v
       ELSE IF button \in Tracked(v) THEN ReleasedOn(freed, b, tab) ELSE freed

\* wl_pointer_motion(): the first button that is held says where the motion goes.  outside
\* is whether the pointer is above or below the cells.
Moved(v, outside) ==
    LET t == v.focus
        to == IF v.buttons = <<>> THEN v.surface[t] ELSE Head(v.buttons).surface
    IN IF v.menu THEN v
       ELSE CASE to = "title" /\ v.buttons # <<>> /\ Head(v.buttons).button = "left" /\ v.move # "off" ->
                   [v EXCEPT !.move = "off"]
              [] to = "grid" -> [v EXCEPT !.scroll[t] = outside /\ (@ \/ v.ongoing[t])]
              [] OTHER -> v

(***************************************************************************)
(* The compositor's events                                                 *)
(***************************************************************************)

\* wl_pointer_enter(); while a finger is down it only says where the pointer is.
WlPointerEnter(surface) ==
    /\ s.hasPointer /\ ~inside
    /\ inside' = TRUE
    /\ s' = [s EXCEPT !.focus = s.term, !.surface[s.term] = surface]
    /\ UNCHANGED <<held, given>>

\* Mutant of WlPointerLeave: the buttons are kept.
WlPointerLeaveKeeps ==
    /\ s.hasPointer /\ inside
    /\ held = {} \/ given \/ "grab broken" \in Admitted
    /\ inside' = FALSE /\ held' = {} /\ given' = FALSE
    /\ LET t == s.focus
           idle == [s EXCEPT !.touch = IF s.hasTouch /\ @ = "inhibited" THEN "idle" ELSE @]
           left == [idle EXCEPT !.focus = None, !.surface[t] = None]
       IN s' = IF TouchIsActive(s) THEN s
               ELSE IF t = None THEN idle
               ELSE IF s.surface[t] = "grid" THEN SelectionEnds(left, t) ELSE left

\* wl_pointer_leave(), which a touch makes foot ignore
WlPointerLeave ==
    /\ s.hasPointer /\ inside
    /\ held = {} \/ given \/ "grab broken" \in Admitted
    /\ inside' = FALSE /\ held' = {} /\ given' = FALSE
    /\ LET t == s.focus
           idle == [s EXCEPT !.touch = IF s.hasTouch /\ @ = "inhibited" THEN "idle" ELSE @]
           left == [ButtonsReset(idle) EXCEPT !.focus = None, !.surface[t] = None]
       IN s' = IF TouchIsActive(s) THEN s
               ELSE IF t = None THEN ButtonsReset(idle)
               ELSE IF s.surface[t] = "grid" THEN SelectionEnds(left, t) ELSE left

\* The compositor moves or resizes the window, and may not say so: the release of the
\* button is not sent (the comment in wl_pointer_button()).
CompositorTakesPointer ==
    /\ given /\ held # {}
    /\ held' = {} /\ given' = FALSE
    /\ UNCHANGED <<s, inside>>

\* wl_pointer_button()
WlPointerButtonPress(button, binding) ==
    /\ inside /\ s.focus # None /\ button \notin held
    /\ held' = held \cup {button}
    /\ s' = IF TouchIsActive(s) THEN s ELSE Pressed(s, button, binding)
    /\ given' = (given \/ (s.surface[s.focus] = "border" /\ button = "left" /\ ~s.menu))
    /\ UNCHANGED inside

WlPointerButtonRelease(button, tab) ==
    /\ inside /\ s.focus # None /\ button \in held
    /\ held' = held \ {button}
    /\ s' = IF TouchIsActive(s) THEN s ELSE Released(s, button, tab)
    /\ given' = (given /\ button # "left")
    /\ UNCHANGED inside

\* wl_pointer_motion(), in which xdg_toplevel_move() may be called
WlPointerMotion(outside) ==
    /\ inside /\ s.focus # None /\ ~TouchIsActive(s)
    /\ s' = Moved(s, outside)
    /\ given' = (given \/ (s'.move # s.move /\ "left" \in held))
    /\ UNCHANGED <<inside, held>>

\* fdm_csd_move()
FdmCsdMove ==
    /\ s.move = "armed"
    /\ s' = [s EXCEPT !.move = IF s.focus = None THEN "stale" ELSE "off"]
    /\ given' = (s.focus # None /\ "left" \in held)
    /\ UNCHANGED <<inside, held>>

(***************************************************************************)
(* Touch                                                                   *)
(***************************************************************************)

\* wl_touch_down()
WlTouchDown(surface) ==
    /\ s.hasTouch /\ s.touch = "idle"
    /\ s' = [s EXCEPT !.touch = "held", !.touched = surface]
    /\ UNCHANGED <<inside, held, given>>

\* A handler is called while the pointer's place is the finger's.
AsTouched(v) == [v EXCEPT !.focus = v.term, !.surface[v.term] = v.touched]
Restored(v, old) ==
    [v EXCEPT !.focus = old.focus, !.surface[old.term] = old.surface[old.term]]

\* wl_touch_motion(): a finger on the grid that moves early on scrolls, or did not move
\* far enough.
WlTouchMotion(late, far, outside, binding) ==
    /\ TouchIsActive(s)
    /\ LET here == AsTouched(s)
           dragged == [Pressed(here, "left", binding) EXCEPT !.touch = "dragging"]
       IN s' = CASE s.touch = "held" /\ ~late /\ s.touched = "grid" ->
                      [s EXCEPT !.touch = IF far THEN "scrolling" ELSE @]
                 [] s.touch = "held" /\ (late \/ s.touched # "grid") ->
                      Restored(Moved(dragged, outside), s)
                 [] s.touch = "dragging" -> Restored(Moved(here, outside), s)
                 [] s.touch = "scrolling" -> s
    /\ UNCHANGED <<inside, held, given>>

\* wl_touch_up()
WlTouchUp(binding, tab) ==
    /\ TouchIsActive(s)
    /\ LET here == AsTouched(s)
           up == CASE s.touch = "held" -> Released(Pressed(here, "left", binding), "left", tab)
                   [] s.touch = "dragging" -> Released(here, "left", tab)
                   [] s.touch = "scrolling" -> here
       IN s' = [Restored(up, s) EXCEPT !.touch = "idle"]
    /\ UNCHANGED <<inside, held, given>>

\* wl_touch_cancel()
WlTouchCancel ==
    /\ s.hasTouch /\ s.touch # "inhibited"
    /\ s.touch = "dragging" => "touch cancelled" \in Admitted
    /\ s' = [s EXCEPT !.touch = "idle"]
    /\ UNCHANGED <<inside, held, given>>

\* seat_handle_capabilities()
SeatHandleCapabilities(pointer, touch) ==
    /\ \/ "devices change" \in Admitted
       \/ ~inside /\ s.buttons = <<>> /\ ~TouchIsActive(s)
    /\ s' = [s EXCEPT !.hasPointer = pointer, !.hasTouch = touch,
                      !.touch = IF ~touch THEN "inhibited"
                                ELSE IF ~s.hasTouch \/ (s.hasPointer /\ ~pointer /\ @ = "inhibited")
                                     THEN "idle" ELSE @]
    /\ inside' = (inside /\ pointer)
    /\ held' = IF pointer THEN held ELSE {}
    /\ UNCHANGED given

(***************************************************************************)
(* What else happens                                                       *)
(***************************************************************************)

InUse == s.buttons # <<>> \/ TouchIsActive(s)

\* A key switches to another tab (tab_next(), tab_prev()).
TabSwitch(t) ==
    /\ t # s.term
    /\ "tab switched" \in Admitted \/ ~InUse
    /\ s' = SwitchTo(s, t)
    /\ UNCHANGED <<inside, held, given>>

\* The application asks for reports, or no longer (DECSET 1000 and others).
Track(t, on) ==
    /\ "reports change" \in Admitted \/ ~InUse
    /\ s' = [s EXCEPT !.tracking[t] = on, !.told[t] = {}]
    /\ UNCHANGED <<inside, held, given>>

\* The modifiers of selection_override
Override ==
    /\ "reports change" \in Admitted \/ ~InUse
    /\ s' = [s EXCEPT !.override = ~@]
    /\ UNCHANGED <<inside, held, given>>

\* The selection is cancelled by the terminal's output (selection_cancel()).
SelectionCancel(t) ==
    /\ s.ongoing[t]
    /\ s' = SelectionEnds(s, t)
    /\ UNCHANGED <<inside, held, given>>

Next ==
    \/ \E surface \in Surfaces : WlPointerEnter(surface) \/ WlTouchDown(surface)
    \/ WlPointerLeave
    \/ CompositorTakesPointer
    \/ \E button \in Buttons, binding \in Bindings : WlPointerButtonPress(button, binding)
    \/ \E button \in Buttons, tab \in Tabs : WlPointerButtonRelease(button, tab)
    \/ \E outside \in BOOLEAN : WlPointerMotion(outside)
    \/ FdmCsdMove
    \/ \E late, far, outside \in BOOLEAN, binding \in Bindings :
          WlTouchMotion(late, far, outside, binding)
    \/ \E binding \in Bindings, tab \in Tabs : WlTouchUp(binding, tab)
    \/ WlTouchCancel
    \/ \E pointer, touch \in BOOLEAN : SeatHandleCapabilities(pointer, touch)
    \/ \E t \in Tabs : TabSwitch(t) \/ SelectionCancel(t)
    \/ \E t \in Tabs, on \in BOOLEAN : Track(t, on)
    \/ Override

Spec == Init /\ [][Next]_pointerVars

(***************************************************************************)
(* Properties                                                              *)
(***************************************************************************)

\* A drag goes on only while a button is held over the grid: a selection, its scrolling,
\* and what the application believes to be pressed.
DragsAreHeld ==
    LET onGrid == {s.buttons[k].button : k \in {k \in DOMAIN s.buttons : s.buttons[k].surface = "grid"}}
        sent == {s.buttons[k].button : k \in {k \in DOMAIN s.buttons : s.buttons[k].send}}
    IN \A t \in Tabs : /\ s.ongoing[t] => onGrid # {}
                       /\ s.scroll[t] => s.ongoing[t]
                       /\ s.told[t] \subseteq sent

\* The assertion of wl_pointer_enter(), and the timer of a drag of the title bar: while
\* the pointer is elsewhere no button is held but by a finger, and the window's
\* timer is one that is polled.
NothingIsLeftBehind ==
    /\ (~inside /\ ~TouchIsActive(s)) => s.buttons = <<>>
    /\ s.move # "stale"

\* Pointer and touch leave nothing behind when a drag is over.
DragsEnd == DragsAreHeld /\ NothingIsLeftBehind
===============================================================================
