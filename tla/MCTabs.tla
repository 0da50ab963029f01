-------------------------------- MODULE MCTabs --------------------------------
(***************************************************************************)
(* Small instances of TabActivity and TabBar for TLC.  Nothing but drawing *)
(* connects the two, so that each is checked by itself: part says which,   *)
(* and the other stays as it is at first.                                  *)
(***************************************************************************)
EXTENDS TabActivity, TLC

CONSTANTS Terms, MaxWidth

VARIABLES part, tabs, current, pinned, exposed, hover, menu, gone, pane, target

Bar == INSTANCE TabBar WITH active <- current, split <- exposed

barVars == <<tabs, current, pinned, exposed, hover, menu, gone, pane, target>>

MCInit ==
    /\ Init /\ Bar!Init
    /\ part \in {"bar", "activity"}
    /\ part = "bar" => finish = "steady"
MCNext ==
    \/ part = "bar" /\ Bar!Next /\ UNCHANGED <<part, vars>>
    \/ part = "activity" /\ Next /\ UNCHANGED <<part, barVars>>
MCSpec == MCInit /\ [][MCNext]_<<part, vars, barVars>>

Symmetry == Permutations(Terms) \cup Permutations(Tabs)

\* A click in split mode focuses the pane that the pointer entered, though tabs came and
\* went since (wl_pointer_enter(), tab_split_focus()).
HoverIsPane == Bar!HoverIsPane
===============================================================================
