----------------------------- MODULE TabActivity ------------------------------
(***************************************************************************)
(* The activity marks of a window's tabs (tab-activity.c, and what drives  *)
(* them in tab.c).  Output of certain programs in a hidden tab marks it as *)
(* working, and once the output stops as finished and then done, until the *)
(* tab is shown.  Whether a tab is visible is looked up when its output is *)
(* recorded, when the bar is drawn and when the pulse timer fires, and     *)
(* never on the switch itself.  The timer ticks while a mark changes,      *)
(* sleeps until the next repeated flash, and is stopped otherwise.         *)
(*                                                                         *)
(* Time is counted in ticks of the timer.                                  *)
(***************************************************************************)
EXTENDS Integers, FiniteSets, FiniteSetsExt

CONSTANTS
    Tabs,
    MinRun,    \* TAB_ACTIVITY_MIN_RUN_MS
    Quiet,     \* activity-pulse-quiet-ms
    Flash,     \* TAB_ACTIVITY_FLASH_MS
    Reflash,   \* TAB_ACTIVITY_REFLASH_MS
    Repeat,    \* activity-pulse-repeat-ms, at least Flash
    MaxTime,   \* bound on the time
    Admitted   \* what the properties do not hold for: see the actions

ASSUME ActivityAssumption ==
    /\ {MinRun, Repeat} \subseteq Nat \ {0}
    /\ {Quiet, Flash, Reflash} \subseteq Nat

VARIABLES
    run,      \* tab->activity of each tab
    active,   \* tab_bar.active
    split,    \* tab_bar.split_mode
    now,      \* the monotonic clock
    timer,    \* ticks until the pulse timer fires; Off when there is none
    ticking,  \* pulse_timer_ticking
    dirty,    \* tab_bar.dirty
    drawn,    \* the mark of each tab in the bar that was drawn last
    finish,   \* activity-pulse-finish
    seen      \* when each tab could last be seen (history)

vars == <<run, active, split, now, timer, ticking, dirty, drawn, finish, seen>>

Off == -1
Visible(tab) == split \/ tab = active

(***************************************************************************)
(* tab-activity.c                                                          *)
(***************************************************************************)

\* run_finished_hidden() and in_run()
FinishedHidden(r) == r.last - r.start >= MinRun /\ r.last > r.hiddenSince
InRun(r) == r.last > 0 /\ now - r.last < Quiet

\* tab_activity_set_visible()
SetVisible(r, visible) ==
    IF visible = r.visible THEN r
    ELSE IF visible THEN [r EXCEPT !.visible = TRUE, !.done = FALSE]
    ELSE [r EXCEPT !.visible = FALSE, !.hiddenSince = now]

\* Mutant of RecordOutput: a run that was watched to its end marks the tab too.
RecordOutputWatched(r) ==
    LET earned == ~r.visible /\ r.last - r.start >= MinRun
        s == IF earned THEN [r EXCEPT !.done = TRUE, !.doneAt = r.last + Quiet] ELSE r
    IN IF InRun(r) THEN [r EXCEPT !.last = now] ELSE [s EXCEPT !.start = now, !.last = now]

\* tab_activity_record_output(): a new run keeps the mark the last one earned.
RecordOutput(r) ==
    LET earned == ~r.visible /\ FinishedHidden(r)
        s == IF earned THEN [r EXCEPT !.done = TRUE, !.doneAt = r.last + Quiet] ELSE r
    IN IF InRun(r) THEN [r EXCEPT !.last = now] ELSE [s EXCEPT !.start = now, !.last = now]

\* tab_activity_done_age(); -1 for a tab without a mark
DoneAge(r) ==
    IF r.visible THEN -1
    ELSE IF ~InRun(r) /\ FinishedHidden(r) THEN now - (r.last + Quiet)
    ELSE IF r.done THEN now - r.doneAt ELSE -1

\* tab_activity_state()
State(r) ==
    IF r.visible THEN "none"
    ELSE IF InRun(r) /\ now - r.start >= MinRun THEN "working"
    ELSE IF DoneAge(r) < 0 THEN "none"
    ELSE IF DoneAge(r) < Flash THEN "finished" ELSE "done"

\* reflash_time() >= 0
Reflashes(age) == age >= Repeat /\ age % Repeat < Reflash

\* tab_activity_next_change(): 0 while the mark changes, -1 when it will not.
NextChange(r) ==
    LET age == DoneAge(r)
    IN IF r.visible THEN -1
       ELSE IF InRun(r) THEN 0
       ELSE IF age < 0 \/ finish = "steady" THEN -1
       ELSE IF finish = "pulse" \/ age < Flash THEN 0
       ELSE IF finish = "flash" THEN -1
       ELSE IF Reflashes(age) THEN 0 ELSE Repeat - (age % Repeat)

(***************************************************************************)
(* tab.c                                                                   *)
(***************************************************************************)

\* update_activity_visibility() of every tab
Updated(runs) == [tab \in Tabs |-> SetVisible(runs[tab], Visible(tab))]

\* pulse_timer_arm()
Arm(delay) == timer' = (IF delay = 0 THEN 1 ELSE delay) /\ ticking' = (delay = 0)

\* tab_on_output(), for output of one of activity-pulse-processes.
TabOnOutput(tab) ==
    /\ run' = [run EXCEPT ![tab] = RecordOutput(SetVisible(@, Visible(tab)))]
    /\ IF ~Visible(tab) /\ ~ticking
       THEN dirty' = TRUE /\ Arm(0)
       ELSE UNCHANGED <<dirty, timer, ticking>>
    /\ UNCHANGED <<active, split, now, drawn, finish, seen>>

\* Mutant of FdmPulseTimer: the timer stops with the last run of output.
FdmPulseTimerForgets ==
    /\ timer = 0
    /\ run' = Updated(run)
    /\ dirty' = TRUE
    /\ IF \E tab \in Tabs : NextChange(run'[tab]) = 0
       THEN Arm(0) ELSE timer' = Off /\ ticking' = FALSE
    /\ UNCHANGED <<active, split, now, drawn, finish, seen>>

\* fdm_pulse_timer()
FdmPulseTimer ==
    /\ timer = 0
    /\ run' = Updated(run)
    /\ dirty' = TRUE
    /\ LET changes == {NextChange(run'[tab]) : tab \in Tabs} \ {-1}
       IN IF changes = {} THEN timer' = Off /\ ticking' = FALSE ELSE Arm(Min(changes))
    /\ UNCHANGED <<active, split, now, drawn, finish, seen>>

\* A tab that is left while its program is at work is drawn as working, and
\* nothing draws the bar again unless there is more output.
Leaves(tabs) ==
    "left at work" \in Admitted \/ ticking
    \/ \A tab \in tabs : NextChange(SetVisible(run[tab], FALSE)) < 0

\* do_tab_switch()
DoTabSwitch(tab) ==
    /\ tab # active /\ now < MaxTime
    /\ split \/ Leaves({active})
    /\ active' = tab
    /\ dirty' = TRUE
    /\ UNCHANGED <<run, split, now, timer, ticking, drawn, finish, seen>>

\* tab_split_enter() and tab_split_exit(): the bar is not drawn in split mode,
\* so that a tab is not found to be visible unless it has output, or the timer
\* fires.
TabSplit ==
    /\ now < MaxTime
    /\ IF split THEN Leaves(Tabs \ {active})
       ELSE "seen in split mode" \in Admitted
            \/ \A tab \in Tabs : ~InRun(run[tab]) /\ DoneAge(run[tab]) < 0
    /\ split' = ~split
    /\ dirty' = TRUE
    /\ UNCHANGED <<run, active, now, timer, ticking, drawn, finish, seen>>

\* render_tab_bar() with tab_bar_activity_state(), called by the hook.
RenderTabBar ==
    /\ dirty /\ ~split
    /\ run' = Updated(run)
    /\ drawn' = [tab \in Tabs |-> State(run'[tab])]
    /\ dirty' = FALSE
    /\ UNCHANGED <<active, split, now, timer, ticking, finish, seen>>

\* Time passes when the loop has nothing left to do.
Tick ==
    /\ timer # 0 /\ (split \/ ~dirty)
    /\ now < MaxTime
    /\ now' = now + 1
    /\ timer' = IF timer = Off THEN Off ELSE timer - 1
    /\ seen' = [tab \in Tabs |-> IF Visible(tab) THEN now' ELSE seen[tab]]
    /\ UNCHANGED <<run, active, split, ticking, dirty, drawn, finish>>

Init ==
    /\ run = [tab \in Tabs |-> [start |-> 0, last |-> 0, hiddenSince |-> 0, doneAt |-> 0,
                                visible |-> FALSE, done |-> FALSE]]
    /\ active \in Tabs
    /\ split = FALSE /\ now = 1 /\ timer = Off /\ ticking = FALSE /\ dirty = TRUE
    /\ drawn = [tab \in Tabs |-> "none"]
    /\ finish \in {"flash", "repeat", "pulse", "steady"}
    /\ seen = [tab \in Tabs |-> 0]

Next ==
    \/ \E tab \in Tabs : TabOnOutput(tab) \/ DoTabSwitch(tab)
    \/ FdmPulseTimer \/ TabSplit \/ RenderTabBar \/ Tick

Spec == Init /\ [][Next]_vars

(***************************************************************************)
(* Properties                                                              *)
(***************************************************************************)

\* Once the loop is idle the bar shows each tab's mark as it is at that time,
\* and the timer will fire before one changes, though it is armed by output and
\* by itself only ("stop once no indicator can change").  A steady mark looks the same all along.
MarksAreCurrent ==
    timer # 0 /\ ~dirty /\ ~split =>
        \A tab \in Tabs :
            LET r == SetVisible(run[tab], Visible(tab))
                next == NextChange(r)
            IN /\ \/ drawn[tab] = State(r)
                  \/ finish = "steady" /\ drawn[tab] = "finished" /\ State(r) = "done"
               /\ next = 0 => ticking
               /\ next > 0 => timer # Off /\ timer <= next

\* A mark says that a tab finished what it did while nobody watched: the output
\* that earned it came after the tab was last seen.
MarkIsNews ==
    \A tab \in Tabs :
        ~Visible(tab) /\ ~dirty /\ DoneAge(run[tab]) >= 0
        => now - DoneAge(run[tab]) - Quiet >= seen[tab]

\* What earned a tab its mark is output that nobody saw (tab-activity.c); and when the
\* loop is idle the bar shows every tab's mark as it is then, and the pulse timer fires
\* before one of them changes (fdm_pulse_timer()).
MarksAreTrue == MarkIsNews /\ MarksAreCurrent
===============================================================================
