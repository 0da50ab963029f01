------------------------------- MODULE TabBar --------------------------------
(***************************************************************************)
(* The tab list of one window (tab.c, tab-close.c, tab-pin.c): its order,  *)
(* the active tab, the pinned group, and the indices into the list that    *)
(* are kept between events: the pane under the pointer and the tab a       *)
(* context menu was opened on.  The code counts tabs from 0, this module   *)
(* from 1; no index is 0 here, -1 in the code.                             *)
(***************************************************************************)
EXTENDS Integers, Sequences, FiniteSets, SequencesExt, FiniteSetsExt

CONSTANTS
    Terms,
    MaxWidth   \* bound on the widths in pixels that BarIsShared looks at

VARIABLES
    tabs,     \* win->tab_bar.tabs
    active,   \* win->tab_bar.active->term
    pinned,   \* the tabs that are
    split,    \* win->tab_bar.split_mode
    hover,    \* win->tab_bar.split_hovered
    menu,     \* win->tab_bar.ctx_menu_target_tab, while the menu is visible
    gone,     \* terminals that were detached
    pane,     \* whose pane the pointer entered ...
    target    \* ... and the tab the menu was opened on (history)

vars == <<tabs, active, pinned, split, hover, menu, gone, pane, target>>

IndexOf(t) == SelectInSeq(tabs, LAMBDA u : u = t)
PinnedCount == Cardinality(pinned)

(***************************************************************************)
(* tab-close.c and tab-pin.c                                               *)
(***************************************************************************)

\* tab_close_focus_target()
FocusTarget(count, closing, current) ==
    IF closing # current THEN current
    ELSE IF closing + 1 <= count THEN closing + 1 ELSE closing - 1

\* tab_pin_toggle_target()
PinTarget(count, wasPinned) == IF wasPinned THEN count ELSE count + 1

\* tab_pin_widths()
Widths(bar, count, pins, pinWidth) ==
    LET share == bar \div count
        w     == IF pinWidth > share THEN share ELSE pinWidth
        rest  == count - pins
        left  == bar - pins * w
    IN [i \in 1 .. count |->
          IF i <= pins THEN w
          ELSE (left \div rest) + (IF i - pins <= left % rest THEN 1 ELSE 0)]

(***************************************************************************)
(* Operations                                                              *)
(***************************************************************************)

\* Keys and clicks do nothing else while the menu is shown: a key dismisses
\* it, and a click is a click in the menu.
NoMenu == menu = 0

\* tab_attach(): a new tab comes last, is not pinned, and ends split mode.
TabAttach(t) ==
    /\ t \notin gone /\ \A i \in DOMAIN tabs : tabs[i] # t
    /\ tabs' = Append(tabs, t)
    /\ active' = t
    /\ split' = FALSE
    /\ hover' = IF split THEN 0 ELSE hover
    /\ UNCHANGED <<pinned, menu, gone, pane, target>>

TabDetachKeepsHover(t) ==
    /\ Len(tabs) > 1
    /\ active' = tabs[FocusTarget(Len(tabs), IndexOf(t), IndexOf(active))]
    /\ tabs' = RemoveAt(tabs, IndexOf(t))
    /\ pinned' = pinned \ {t}
    /\ gone' = gone \cup {t}
    /\ split' = (split /\ Len(tabs) > 2)
    /\ UNCHANGED <<hover, menu, pane, target>>

\* tab_detach(), by term_shutdown()
TabDetach(t) ==
    /\ Len(tabs) > 1
    /\ active' = tabs[FocusTarget(Len(tabs), IndexOf(t), IndexOf(active))]
    /\ tabs' = RemoveAt(tabs, IndexOf(t))
    /\ pinned' = pinned \ {t}
    /\ gone' = gone \cup {t}
    /\ split' = (split /\ Len(tabs) > 2)
    /\ hover' = 0
    /\ UNCHANGED <<menu, pane, target>>

\* The slave of a tab that is not the last ends, or its client hangs up.
TabEnds(t) ==
    /\ \E i \in DOMAIN tabs : tabs[i] = t
    /\ TabDetach(t)

\* BIND_ACTION_TAB_CLOSE
TabCloseActive == NoMenu /\ TabDetach(active)

SwitchTo(i) ==
    /\ active' = tabs[i]
    /\ UNCHANGED <<tabs, pinned, split, hover, menu, gone, pane, target>>

\* tab_next() and tab_prev(), which wrap
NextIndex(i) == IF i = Len(tabs) THEN 1 ELSE i + 1
PrevIndex(i) == IF i = 1 THEN Len(tabs) ELSE i - 1

TabNext == NoMenu /\ SwitchTo(NextIndex(IndexOf(active)))
TabPrev == NoMenu /\ SwitchTo(PrevIndex(IndexOf(active)))

\* A click on the tab bar: tab_switch_to()
TabClick(i) == NoMenu /\ ~split /\ Len(tabs) > 1 /\ SwitchTo(i)

\* tab_toggle_pin(): the active tab moves to the end of the pinned group, or
\* to the front of the others.
TabTogglePin ==
    /\ NoMenu /\ ~split
    /\ LET others == RemoveAt(tabs, IndexOf(active))
           to == PinTarget(PinnedCount, active \in pinned)
       IN tabs' = IF to <= Len(others) THEN InsertAt(others, to, active)
                                       ELSE Append(others, active)
    /\ pinned' = IF active \in pinned THEN pinned \ {active} ELSE pinned \cup {active}
    /\ UNCHANGED <<active, split, hover, menu, gone, pane, target>>

\* BIND_ACTION_TAB_EXPOSE: tab_split_enter(), tab_split_exit()
TabSplit ==
    /\ NoMenu /\ Len(tabs) > 1
    /\ split' = ~split
    /\ hover' = 0
    /\ UNCHANGED <<tabs, active, pinned, menu, gone, pane, target>>

\* wl_pointer_enter() on a pane, and a click there: tab_split_focus()
PointerEnter(i) ==
    /\ split
    /\ hover' = i /\ pane' = tabs[i]
    /\ UNCHANGED <<tabs, active, pinned, split, menu, gone, target>>

TabSplitFocus ==
    /\ NoMenu /\ split /\ hover # 0
    /\ SwitchTo(hover)

\* tab_ctx_menu_show(), on a right click on tab i
MenuShow(i) ==
    /\ NoMenu /\ ~split /\ Len(tabs) > 1
    /\ menu' = i /\ target' = tabs[i]
    /\ UNCHANGED <<tabs, active, pinned, split, hover, gone, pane>>

\* tab_ctx_menu_dismiss(), on a key or a click elsewhere
MenuDismiss ==
    /\ ~NoMenu
    /\ menu' = 0
    /\ UNCHANGED <<tabs, active, pinned, split, hover, gone, pane, target>>

\* tab_ctx_menu_handle_click() on "Close Tab": tab_close_at_index() of an
\* index that may no longer exist, or only in a list of one.
MenuClose ==
    /\ ~NoMenu
    /\ menu' = 0
    /\ IF menu \in DOMAIN tabs /\ Len(tabs) > 1
       THEN LET t == tabs[menu] IN
            /\ active' = tabs[FocusTarget(Len(tabs), menu, IndexOf(active))]
            /\ tabs' = RemoveAt(tabs, menu)
            /\ pinned' = pinned \ {t}
            /\ gone' = gone \cup {t}
            /\ split' = (split /\ Len(tabs) > 2)
            /\ hover' = 0
       ELSE UNCHANGED <<tabs, active, pinned, split, hover, gone>>
    /\ UNCHANGED <<pane, target>>

\* tab_bar_init() and tab_bar_add_initial()
Init ==
    /\ \E t \in Terms :
         tabs = <<t>> /\ active = t /\ pane = t /\ target = t
    /\ pinned = {} /\ gone = {}
    /\ split = FALSE /\ hover = 0 /\ menu = 0

Next ==
    \/ TabCloseActive \/ TabNext \/ TabPrev \/ TabTogglePin \/ TabSplit
    \/ TabSplitFocus \/ MenuDismiss \/ MenuClose
    \/ \E i \in DOMAIN tabs : TabClick(i) \/ PointerEnter(i) \/ MenuShow(i)
    \/ \E t \in Terms : TabAttach(t) \/ TabEnds(t)

Spec == Init /\ [][Next]_vars

(***************************************************************************)
(* Properties                                                              *)
(***************************************************************************)

TypeOK ==
    /\ tabs \in BoundedSeq(Terms, Cardinality(Terms)) /\ IsInjective(tabs)
    /\ active \in Range(tabs) /\ pinned \subseteq Range(tabs)
    /\ gone \cap Range(tabs) = {}
    /\ {split} \subseteq BOOLEAN
    /\ {hover, menu} \subseteq 0 .. Cardinality(Terms)

\* "Pinned tabs form a contiguous group at the front of the tab list": the
\* indices of tab_pin_toggle_target() and tab_pin_widths() rest on it.
PinnedFirst == \A i \in DOMAIN tabs : tabs[i] \in pinned <=> i <= PinnedCount

\* A click in split mode focuses the pane the pointer is over, though tabs have
\* come and gone since it entered.
HoverIsPane == split /\ hover # 0 => hover \in DOMAIN tabs /\ tabs[hover] = pane

\* "Close Tab" closes the tab the menu was opened on ("tab index the menu was
\* opened on"), or nothing.
MenuClosesItsTab == [][menu # 0 /\ menu' = 0 => gone' \subseteq gone \cup {target}]_vars

\* The bar is shared out: no tab has a negative width, they fit the bar, and
\* when one is not pinned they fill it to the last pixel.
BarIsShared ==
    \A bar, pinWidth \in 0 .. MaxWidth :
        LET w == Widths(bar, Len(tabs), PinnedCount, pinWidth)
            sum == FoldSeq(LAMBDA x, y : x + y, 0, w)
        IN /\ \A i \in DOMAIN tabs : w[i] >= 0
           /\ sum <= bar
           /\ PinnedCount < Len(tabs) => sum = bar

\* A tab that goes takes no other tab's focus: it moves only from the tab that
\* closes, and then to a neighbour that stays.
FocusStaysPut ==
    [][gone' # gone =>
         /\ active \notin gone' => active' = active
         /\ active' \notin gone']_vars

\* Pinning moves one tab: the others keep their order, and the focus stays.
PinMovesOneTab ==
    [][pinned' # pinned /\ gone' = gone =>
         /\ active' = active
         /\ RemoveAt(tabs, IndexOf(active))
              = SelectSeq(tabs', LAMBDA t : t # active)]_vars
==============================================================================
