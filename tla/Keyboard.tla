------------------------------- MODULE Keyboard -------------------------------
(***************************************************************************)
(* The keys of a seat (input.c, wayland.c fdm_repeat(), unicode-mode.c):   *)
(* the timer that repeats one of them, the state of dead keys, the modes   *)
(* and shortcuts that take presses, and the presses and releases that an   *)
(* application is told of, which asked for both (the kitty protocol).      *)
(*                                                                         *)
(* A key has one keysym; modifiers are not modelled.                       *)
(***************************************************************************)
EXTENDS Integers, FiniteSets

CONSTANTS
    Tabs,     \* the window's terminals
    Keys,     \* those that repeat; "dead" is a dead key
    Admitted  \* see below

\* What is known to leave a key down or to report a release whose press was not, unless
\* it is left out: a press that a mode takes is not remembered; of two
\* shortcuts only the last one is; dead keys swallow releases; keys that are
\* down when the window gets the keyboard; another tab is shown while a key is
\* down; a modifier turns a key that repeats into a shortcut, or back; and the
\* keyboard is unplugged while a key repeats.
Defects == {"mode", "modifier", "two shortcuts", "composing", "held at enter", "tab switched", "unplugged"}

VARIABLES
    kbd,   \* the seat's keyboard: focus, repeat.key while the timer is armed, compose, last_shortcut_sym
    win,   \* the tab that is shown, whether its context menu is, and each terminal's mode and flags
    down,  \* the keys that are down, and what took the press of each
    told,  \* the presses each application was told of, and not the releases
    stray  \* whether a release was reported that had no press

keyboardVars == <<kbd, win, down, told, stray>>

None == "none"

\* Modes: "search" is scrollback search and URL mode, which repeat keys; "unicode" input
\* does not, nor does the overlay of shortcuts, which every key hides.
Modes == {"normal", "search", "unicode", "help"}

\* What a shortcut does; without another tab there is none that switches to it.
Shortcuts == Modes \cup IF \E t, u \in Tabs : t # u THEN {"switch"} ELSE {}

Init ==
    \E shown \in Tabs, reports \in [Tabs -> BOOLEAN] :
       /\ kbd = [focus |-> None, repeat |-> None, compose |-> "nothing", shortcut |-> None,
                 plugged |-> TRUE]
       /\ win = [term |-> shown, menu |-> FALSE, reports |-> reports,
                 mode |-> [t \in Tabs |-> "normal"]]
       /\ down = <<>> /\ told = [t \in Tabs |-> {}] /\ stray = FALSE

HeldKeys == DOMAIN down

\* xkb_compose_state_feed()
Fed(compose, k) ==
    IF compose = "composing" THEN IF k = "dead" THEN "cancelled" ELSE "composed"
    ELSE IF k = "dead" THEN "composing" ELSE "nothing"

\* start_repeater(): a press that is itself a repetition does not start over.
StartRepeater(s, k, repeating) == IF repeating THEN s ELSE [s EXCEPT !.kbd.repeat = k]

\* Mutant of StopRepeater: the timer goes on while the terminal is in a mode.
StopRepeaterNormally(s, k) ==
    IF s.kbd.repeat = k /\ s.win.mode[s.win.term] = "normal" THEN [s EXCEPT !.kbd.repeat = None] ELSE s

\* stop_repeater()
StopRepeater(s, k) == IF s.kbd.repeat = k THEN [s EXCEPT !.kbd.repeat = None] ELSE s

\* do_tab_switch()
SwitchTo(s, t) ==
    [s EXCEPT !.win.term = t, !.kbd.focus = IF @ = s.win.term THEN t ELSE @]

\* kitty_kbd_protocol() and legacy_kbd_protocol() of a press: nothing is sent while keys
\* are composed.
Sent(s, k) ==
    IF s.kbd.compose = "composing" THEN [s EXCEPT !.down[k] = "composing"]
    ELSE IF s.win.reports[s.kbd.focus]
         THEN [s EXCEPT !.told[s.kbd.focus] = @ \cup {k}, !.down[k] = "application"]
         ELSE [s EXCEPT !.down[k] = "application"]

Executed(s, k, shortcut) ==
    LET t == s.kbd.focus
        taken == [s EXCEPT !.kbd.shortcut = k, !.down[k] = "shortcut"]
    IN CASE shortcut = "switch" -> SwitchTo(taken, CHOOSE u \in Tabs : u # t)
         [] OTHER -> [taken EXCEPT !.win.mode[t] = shortcut]

\* key_press_release() of a press: a menu, an overlay or a mode may take it, and may be left;
\* then a shortcut.
Pressed(s, k, shortcut, leaves, repeating) ==
    LET t == s.kbd.focus
        fed == [s EXCEPT !.kbd.shortcut = None, !.kbd.compose = Fed(@, k),
                         !.down = [j \in DOMAIN @ \cup {k} |->
                             IF j = k /\ ~(repeating /\ @[j] = "application") THEN "mode" ELSE @[j]]]
        mode == s.win.mode[t]
        left == [fed EXCEPT !.win.mode[t] = IF leaves \/ mode = "help" THEN "normal" ELSE @]
        started(x) == StartRepeater(x, k, repeating)
    IN IF s.win.menu THEN [fed EXCEPT !.win.menu = FALSE]
       ELSE CASE mode \in {"help", "unicode"} -> left
              [] mode = "search" -> started(left)
              [] mode = "normal" ->
                   started(IF shortcut # "none" THEN Executed(fed, k, shortcut)
                           ELSE IF fed.kbd.compose = "cancelled"
                                THEN [fed EXCEPT !.down[k] = "composing"]
                           ELSE Sent(fed, k))

\* Whether an application is told of a release: not of the last shortcut's.
Reports(s, k) ==
    /\ s.kbd.shortcut # k
    /\ s.kbd.compose \notin {"composing", "cancelled"}
    /\ s.win.reports[s.kbd.focus]

\* key_press_release() of a release
Released(s, k) ==
    LET stopped == StopRepeater(s, k)
        up == [stopped EXCEPT !.down = [j \in DOMAIN @ \ {k} |-> @[j]]]
        t == s.kbd.focus
        reported == [up EXCEPT !.told[t] = @ \ {k}, !.stray = @ \/ k \notin s.told[t]]
        reset(x) == IF x.kbd.compose = "composed" /\ s.kbd.shortcut # k
                    THEN [x EXCEPT !.kbd.compose = "nothing"] ELSE x
    IN reset(IF Reports(s, k) THEN reported ELSE up)

Here == [kbd |-> kbd, win |-> win, down |-> down, told |-> told, stray |-> stray]
Becomes(s) ==
    /\ kbd' = s.kbd /\ win' = s.win /\ down' = s.down /\ told' = s.told /\ stray' = s.stray

\* Another tab is shown only while no key is down that an application got.
MaySwitch == "tab switched" \in Admitted \/ \A k \in HeldKeys : down[k] # "application"

MayPress(k, shortcut) ==
    /\ shortcut = "switch" => MaySwitch
    /\ "two shortcuts" \in Admitted
       \/ \A j \in HeldKeys \ {k} : down[j] # "shortcut"
    /\ "composing" \in Admitted
       \/ /\ "dead" \in HeldKeys => k = "dead"
          /\ k = "dead" => told[kbd.focus] = {}

\* keyboard_key(): the compositor sends keys to the surface that has its keyboard only.
KeyboardKeyPress(k, shortcut, leaves) ==
    /\ kbd.plugged /\ kbd.focus # None
    /\ k \notin HeldKeys
    /\ MayPress(k, shortcut)
    /\ Becomes(Pressed(Here, k, shortcut, leaves, FALSE))

KeyboardKeyRelease(k) ==
    /\ kbd.plugged /\ kbd.focus # None
    /\ k \in HeldKeys
    /\ "mode" \in Admitted \/ down[k] # "mode" \/ ~Reports(Here, k)
    /\ Becomes(Released(Here, k))

\* fdm_repeat() and input_repeat()
FdmRepeat(shortcut, leaves) ==
    /\ kbd.repeat # None /\ kbd.focus # None
    /\ MayPress(kbd.repeat, shortcut)
    /\ "modifier" \in Admitted \/ (shortcut # "none" <=> down[kbd.repeat] = "shortcut")
    /\ Becomes(Pressed(Here, kbd.repeat, shortcut, leaves, TRUE))

\* keyboard_enter()
KeyboardEnter(held) ==
    /\ kbd.plugged /\ kbd.focus = None
    /\ held = {} \/ "held at enter" \in Admitted
    /\ Becomes([Here EXCEPT !.kbd.focus = win.term, !.down = [k \in held |-> "elsewhere"]])

\* keyboard_leave(): an application that follows the focus knows that its keys are up.
KeyboardLeave ==
    /\ kbd.plugged /\ kbd.focus # None
    /\ Becomes([Here EXCEPT !.kbd.focus = None, !.kbd.repeat = None, !.kbd.compose = "nothing",
                            !.down = <<>>, !.told[kbd.focus] = {}])

\* seat_handle_capabilities(): a keyboard that is unplugged sends no leave event.
SeatHandleCapabilities ==
    /\ kbd.plugged /\ ("unplugged" \in Admitted \/ kbd.focus = None)
    /\ Becomes([Here EXCEPT !.kbd.plugged = FALSE, !.down = <<>>])

SeatPlugged ==
    /\ ~kbd.plugged
    /\ Becomes([Here EXCEPT !.kbd.plugged = TRUE])

\* A click in the tab bar
TabSwitch(t) ==
    /\ t # win.term /\ MaySwitch
    /\ Becomes(SwitchTo(Here, t))

\* A right click in the tab bar, and a click that ends search and URL mode
TabCtxMenuShow == ~win.menu /\ Becomes([Here EXCEPT !.win.menu = TRUE])
SearchCancel(t) ==
    /\ win.mode[t] = "search"
    /\ Becomes([Here EXCEPT !.win.mode[t] = "normal"])

Next ==
    \/ \E k \in Keys, shortcut \in Shortcuts \cup {"none"}, leaves \in BOOLEAN :
          KeyboardKeyPress(k, shortcut, leaves)
    \/ \E k \in Keys : KeyboardKeyRelease(k)
    \/ \E shortcut \in Shortcuts \cup {"none"}, leaves \in BOOLEAN : FdmRepeat(shortcut, leaves)
    \/ \E held \in SUBSET Keys : KeyboardEnter(held)
    \/ KeyboardLeave \/ SeatHandleCapabilities \/ SeatPlugged \/ TabCtxMenuShow
    \/ \E t \in Tabs : TabSwitch(t) \/ SearchCancel(t)

Spec == Init /\ [][Next]_keyboardVars

\* A key repeats only while it is down in a window that has the keyboard, whatever modes and
\* shortcuts took presses in between (the assertion of input_repeat()); no release is
\* reported whose press was not ("If we consumed a key (press) event, we shouldn't
\* emit an escape for its release event"); and no application believes a key to be
\* down that is up.
KeysAreLetGo ==
    /\ kbd.repeat # None => kbd.repeat \in HeldKeys /\ kbd.focus # None
    /\ ~stray
    /\ \A t \in Tabs : told[t] \subseteq HeldKeys /\ (told[t] # {} => kbd.focus = t)
===============================================================================
