------------------------------ MODULE Lifecycle ------------------------------
(***************************************************************************)
(* The life of terminals in a foot process: how terminals (tabs) and the   *)
(* windows they share come to be, and the asynchronous shutdown that tears *)
(* them down (terminal.c "Shutdown logic").  The process is one thread     *)
(* that runs fdm_poll() in a loop.  One iteration either reaps children,   *)
(* when epoll_pwait() was interrupted by SIGCHLD, or runs the handlers of  *)
(* one batch of ready file descriptors, in any order.  Two handlers        *)
(* dispatch Wayland events while they run: fdm_ptmx(), which peeks for     *)
(* input, and fdm_shutdown(), which waits for the compositor.              *)
(***************************************************************************)
EXTENDS Integers, FiniteSets

CONSTANTS
    Terms,             \* struct terminal, one name per term_init() call
    Windows,           \* struct wl_window, one name per wayl_win_init() call
    NoTerm, NoWin,     \* the NULL pointers
    ServerMode,        \* main(): foot --server, or a stand-alone foot
    Holding,           \* terminals whose configuration has hold-at-exit
    NoChild,           \* terminals on an existing PTY (--pty): no slave process
    TabsOntoDying,     \* may a tab be opened on a window being shut down?
    TabsOntoUnconfigured, \* ... on one the compositor has not configured yet?
    DestroyEarly       \* may term_destroy() overtake a pending fdm_shutdown()?

ASSUME NullAssumption == NoTerm \notin Terms /\ NoWin \notin Windows
ASSUME ModeAssumption ==
    /\ ServerMode \in BOOLEAN
    /\ TabsOntoDying \in BOOLEAN
    /\ TabsOntoUnconfigured \in BOOLEAN
    /\ DestroyEarly \in BOOLEAN

VARIABLES
    heap,     \* "none": never allocated, "live", "freed"
    closing,  \* term->shutdown.in_progress
    reaped,   \* term->shutdown.client_has_terminated
    child,    \* the slave process: none, running, killed, zombie, gone
    ptmx,     \* the PTY: none, idle (open, not polled), polled, closed
    evfd,     \* terminals whose fdm_shutdown() event fd is registered
    timer,    \* shutdown.terminate_timeout_fd and next_signal
    win,      \* term->window
    wst,      \* each window: none, new, configured, destroyed
    tabs,     \* win->tab_bar.tabs, as a set: TabBar models their order
    active,   \* win->tab_bar.active, always equal to win->term
    kbd,      \* seat->kbd_focus (one seat)
    at,       \* where the loop is: poll, dispatch, signal, wayland, pty, unmap
    cur,      \* the terminal whose handler is running, in "pty" and "unmap"
    batch     \* the events epoll_pwait() returned and not handled yet

termVars == <<heap, closing, reaped, child, ptmx, evfd, timer>>
winVars  == <<win, wst, tabs, active, kbd>>
loopVars == <<at, cur, batch>>
vars     == <<termVars, winVars, loopVars>>

Kinds    == {"event", "pty", "timer"}
Handlers == (Kinds \X Terms) \cup ({"wayland", "server"} \X {NoTerm})

TypeOK ==
    /\ heap    \in [Terms -> {"none", "live", "freed"}]
    /\ closing \in [Terms -> BOOLEAN]
    /\ reaped  \in [Terms -> BOOLEAN]
    /\ child   \in [Terms -> {"none", "running", "killed", "zombie", "gone"}]
    /\ ptmx    \in [Terms -> {"none", "idle", "polled", "closed"}]
    /\ evfd    \in SUBSET Terms
    /\ timer   \in [Terms -> {"off", "term", "kill", "disarmed"}]
    /\ win     \in [Terms -> Windows \cup {NoWin}]
    /\ wst     \in [Windows -> {"none", "new", "configured", "destroyed"}]
    /\ tabs    \in [Windows -> SUBSET Terms]
    /\ active  \in [Windows -> Terms \cup {NoTerm}]
    /\ kbd     \in Terms \cup {NoTerm}
    /\ at      \in {"poll", "dispatch", "signal", "wayland", "pty", "unmap"}
    /\ cur     \in Terms \cup {NoTerm}
    /\ batch   \in SUBSET Handlers

(***************************************************************************)
(* Opening                                                                 *)
(***************************************************************************)

\* term_init(), up to the window: the PTY is opened and the slave started.
StartTerm(t) ==
    /\ heap[t] = "none"
    /\ heap' = [heap EXCEPT ![t] = "live"]
    /\ child' = [child EXCEPT ![t] = IF t \in NoChild THEN "none" ELSE "running"]
    /\ UNCHANGED <<closing, reaped, evfd, timer>>

\* term_init() with a window of its own, as its first tab.  The PTY is not
\* polled before the window is configured.
OpenWindow(t, w) ==
    /\ wst[w] = "none"
    /\ StartTerm(t)
    /\ ptmx' = [ptmx EXCEPT ![t] = "idle"]
    /\ win' = [win EXCEPT ![t] = w]
    /\ wst' = [wst EXCEPT ![w] = "new"]
    /\ tabs' = [tabs EXCEPT ![w] = {t}]
    /\ active' = [active EXCEPT ![w] = t]
    /\ UNCHANGED kbd

\* term_init() with an existing window, then tab_attach(): the PTY is polled
\* at once, and do_tab_switch() activates the tab and moves the focus to it.
OpenTab(t, w) ==
    /\ wst[w] \in {"new", "configured"}
    /\ TabsOntoUnconfigured \/ wst[w] = "configured"
    /\ TabsOntoDying \/ \A u \in tabs[w] : ~closing[u]
    /\ StartTerm(t)
    /\ t \notin NoChild
    /\ ptmx' = [ptmx EXCEPT ![t] = "polled"]
    /\ win' = [win EXCEPT ![t] = w]
    /\ tabs' = [tabs EXCEPT ![w] = @ \cup {t}]
    /\ active' = [active EXCEPT ![w] = t]
    /\ kbd' = IF kbd = active[w] THEN t ELSE kbd
    /\ UNCHANGED wst

\* Mutant of Configure: only the focused terminal is configured.
ConfigureFocused(w) ==
    /\ wst[w] = "new"
    /\ wst' = [wst EXCEPT ![w] = "configured"]
    /\ ptmx' = [t \in Terms |->
                  IF t = kbd /\ ~closing[t] THEN "polled" ELSE ptmx[t]]
    /\ UNCHANGED <<heap, closing, reaped, child, evfd, timer,
                   win, tabs, active, kbd>>

\* The first xdg_surface.configure, which calls
\* term_window_configured(win->term).
Configure(w) ==
    /\ wst[w] = "new"
    /\ wst' = [wst EXCEPT ![w] = "configured"]
    /\ ptmx' = [t \in Terms |->
                  IF t = active[w] /\ ~closing[t] THEN "polled" ELSE ptmx[t]]
    /\ UNCHANGED <<heap, closing, reaped, child, evfd, timer,
                   win, tabs, active, kbd>>

(***************************************************************************)
(* Shutting down                                                           *)
(***************************************************************************)

\* Mutants of Detached: the active tab keeps the window though others remain;
\* no tab is ever detached.
DetachedButActive(w, S) == S \ {active[w]}
\* term_shutdown() of the terminals S of window w, the active one last: the
\* PTYs are closed, every terminal that shares the window with another tab is
\* detached from it (tab_detach(), which first moves the focus away from an
\* active tab), and fdm_shutdown() is left to run from an event fd.
Detached(w, S) == IF tabs[w] \subseteq S THEN S \ {active[w]} ELSE S

BeginShutdown(w, S) ==
    LET D == Detached(w, S) IN
    /\ closing' = [t \in Terms |-> closing[t] \/ t \in S]
    /\ ptmx' = [t \in Terms |-> IF t \in S THEN "closed" ELSE ptmx[t]]
    /\ evfd' = evfd \cup S
    /\ win' = [t \in Terms |-> IF t \in D THEN NoWin ELSE win[t]]
    /\ tabs' = [tabs EXCEPT ![w] = @ \ D]
    /\ \E a \in tabs[w] :
         /\ IF active[w] \in D THEN a \notin D ELSE a = active[w]
         /\ active' = [active EXCEPT ![w] = a]
         /\ kbd' = IF kbd = active[w] THEN a ELSE kbd
    /\ UNCHANGED <<heap, wst>>

\* Mutant of TerminateSlaves: the escalation timer is not armed.
TerminateWithoutTimer(S) ==
    /\ reaped' = [t \in Terms |-> reaped[t] \/ (t \in S /\ child[t] = "none")]
    /\ UNCHANGED <<timer, child>>

\* ... and, in term_shutdown(), the slaves that still run are sent SIGHUP and
\* given a timer; a terminal without a slave counts as reaped.
TerminateSlaves(S) ==
    /\ reaped' = [t \in Terms |-> reaped[t] \/ (t \in S /\ child[t] = "none")]
    /\ timer' = [t \in Terms |->
                   IF t \in S /\ ~reaped[t] /\ child[t] # "none"
                   THEN "term" ELSE timer[t]]
    /\ UNCHANGED child

\* term_shutdown() returns early for a terminal already shutting down.
ShutDown(w, S) ==
    LET new == {t \in S : ~closing[t]} IN
    /\ new # {}
    /\ BeginShutdown(w, new)
    /\ TerminateSlaves(new)

\* Mutant of MaybeDone: either of the two is enough.
MaybeDoneEither(t, gone) ==
    IF gone \/ reaped'[t]
    THEN /\ heap' = [heap EXCEPT ![t] = "freed"]
         /\ timer' = [timer EXCEPT ![t] = "off"]
    ELSE UNCHANGED <<heap, timer>>

\* shutdown_maybe_done() and term_destroy(), once the window (the one given,
\* term->window being set to NULL) and the slave are both gone.
MaybeDone(t, gone) ==
    IF gone /\ reaped'[t]
    THEN /\ heap' = [heap EXCEPT ![t] = "freed"]
         /\ timer' = [timer EXCEPT ![t] = "off"]
    ELSE UNCHANGED <<heap, timer>>

\* term_destroy() called directly by instance_destroy() on a terminal that is
\* shutting down: it destroys the window that is still there, kills the slave
\* and waits for it.  It does not know of an event fd that is still pending.
DestroyNow(t) ==
    /\ heap[t] = "live" /\ closing[t]
    /\ DestroyEarly \/ t \notin evfd
    /\ heap' = [heap EXCEPT ![t] = "freed"]
    /\ timer' = [timer EXCEPT ![t] = "off"]
    /\ child' = [child EXCEPT ![t] = IF @ = "none" THEN @ ELSE "gone"]
    /\ reaped' = [reaped EXCEPT ![t] = TRUE]
    /\ wst' = [w \in Windows |-> IF w = win[t] THEN "destroyed" ELSE wst[w]]
    /\ tabs' = [w \in Windows |-> IF w = win[t] THEN {} ELSE tabs[w]]
    /\ win' = [win EXCEPT ![t] = NoWin]
    /\ UNCHANGED <<closing, ptmx, evfd, active, kbd>>

(***************************************************************************)
(* The event loop                                                          *)
(***************************************************************************)

Registered(h) ==
    \/ h[1] = "event" /\ h[2] \in evfd
    \/ h[1] = "pty"   /\ h[2] \in Terms /\ ptmx[h[2]] = "polled"
    \/ h[1] = "timer" /\ h[2] \in Terms /\ timer[h[2]] # "off"
    \/ h[1] = "wayland"
    \/ h[1] = "server" /\ ServerMode

\* main(): the loop ends with the last terminal, except in a server.
LoopRuns == ServerMode \/ \E t \in Terms : heap[t] = "live"

\* epoll_pwait() returns all that is ready: every event fd is (it was written
\* to when it was registered), anything else may be.  A timer that was
\* disarmed never is.
Poll ==
    /\ at = "poll" /\ LoopRuns
    /\ \E ready \in SUBSET {h \in Handlers : Registered(h)} :
         /\ ready # {}
         /\ \A t \in evfd : <<"event", t>> \in ready
         /\ \A t \in Terms : <<"timer", t>> \in ready => timer[t] # "disarmed"
         /\ batch' = ready
    /\ at' = "dispatch"
    /\ UNCHANGED <<termVars, winVars, cur>>

\* Mutant of DeliverSIGCHLD: signals come before events that are ready.
DeliverSIGCHLDFirst ==
    /\ at = "poll" /\ LoopRuns
    /\ \E t \in Terms : child[t] = "zombie"
    /\ at' = "signal"
    /\ UNCHANGED <<termVars, winVars, cur, batch>>

\* Only when nothing is ready does epoll_pwait() unblock the signals, so that
\* fdm_poll() reaps before anything else happens.
DeliverSIGCHLD ==
    /\ at = "poll" /\ LoopRuns
    /\ evfd = {}
    /\ \E t \in Terms : child[t] = "zombie"
    /\ at' = "signal"
    /\ UNCHANGED <<termVars, winVars, cur, batch>>

\* One turn of fdm_reap()'s loop, which calls fdm_client_terminated().
Reap(t) ==
    /\ at = "signal"
    /\ child[t] = "zombie"
    /\ child' = [child EXCEPT ![t] = "gone"]
    /\ reaped' = [reaped EXCEPT ![t] = TRUE]
    /\ IF closing[t]
       THEN /\ IF win[t] = NoWin
               THEN heap' = [heap EXCEPT ![t] = "freed"]
               ELSE UNCHANGED heap
            /\ UNCHANGED <<closing, ptmx, evfd, winVars>>
       ELSE IF t \in Holding
            THEN UNCHANGED <<heap, closing, ptmx, evfd, winVars>>
            ELSE BeginShutdown(win[t], {t})
    /\ timer' = [timer EXCEPT ![t] = "off"]
    /\ UNCHANGED loopVars

\* waitpid() has no more children to report.
ReapDone ==
    /\ at = "signal"
    /\ \A t \in Terms : child[t] # "zombie"
    /\ at' = "poll"
    /\ UNCHANGED <<termVars, winVars, cur, batch>>

BatchDone ==
    /\ at = "dispatch"
    /\ batch = {}
    /\ at' = "poll"
    /\ UNCHANGED <<termVars, winVars, cur, batch>>

\* fdm_poll() takes the next event h of the batch.
Take(h) ==
    /\ at = "dispatch"
    /\ h \in batch
    /\ batch' = batch \ {h}

\* fdm_poll() skips a handler that was deleted earlier in the batch.
SkipDeleted ==
    /\ \E h \in batch : ~Registered(h) /\ Take(h)
    /\ UNCHANGED <<termVars, winVars, at, cur>>

(***************************************************************************)
(* The handlers                                                            *)
(***************************************************************************)

\* fdm_shutdown(), for a terminal that was detached: there is no window.
FdmShutdownDetached(t) ==
    /\ Take(<<"event", t>>) /\ t \in evfd
    /\ win[t] = NoWin
    /\ evfd' = evfd \ {t}
    /\ kbd' = IF kbd = t THEN NoTerm ELSE kbd
    /\ UNCHANGED reaped
    /\ MaybeDone(t, TRUE)
    /\ UNCHANGED <<closing, child, ptmx, win, wst, tabs, active, at, cur>>

\* fdm_shutdown(), for the last tab: wayl_win_destroy() first unmaps the
\* window, and waits for the compositor with wayl_roundtrip() ...
FdmShutdownUnmap(t) ==
    /\ Take(<<"event", t>>) /\ t \in evfd
    /\ win[t] # NoWin
    /\ evfd' = evfd \ {t}
    /\ at' = "unmap" /\ cur' = t
    /\ UNCHANGED <<heap, closing, reaped, child, ptmx, timer, winVars>>

\* Mutant of FdmShutdownDestroy: the seat keeps its focus.
FdmShutdownKeepsFocus(t) ==
    /\ at = "unmap" /\ cur = t
    /\ wst' = [wst EXCEPT ![win[t]] = "destroyed"]
    /\ tabs' = [tabs EXCEPT ![win[t]] = {}]
    /\ win' = [win EXCEPT ![t] = NoWin]
    /\ UNCHANGED <<reaped, kbd>>
    /\ MaybeDone(t, TRUE)
    /\ at' = "dispatch" /\ cur' = NoTerm
    /\ UNCHANGED <<closing, child, ptmx, evfd, active, batch>>

\* ... then destroys it.
FdmShutdownDestroy(t) ==
    /\ at = "unmap" /\ cur = t
    /\ wst' = [wst EXCEPT ![win[t]] = "destroyed"]
    /\ tabs' = [tabs EXCEPT ![win[t]] = {}]
    /\ win' = [win EXCEPT ![t] = NoWin]
    /\ kbd' = IF kbd = t THEN NoTerm ELSE kbd
    /\ UNCHANGED reaped
    /\ MaybeDone(t, TRUE)
    /\ at' = "dispatch" /\ cur' = NoTerm
    /\ UNCHANGED <<closing, child, ptmx, evfd, active, batch>>

\* Mutant of TerminateTimeout: next_signal stays SIGTERM.
TerminateTimeoutOnlyTerm(t) ==
    /\ Take(<<"timer", t>>) /\ timer[t] # "off"
    /\ UNCHANGED <<heap, closing, reaped, child, ptmx, evfd, timer, winVars, at, cur>>

\* fdm_terminate_timeout(): SIGTERM, thirty seconds later SIGKILL.
TerminateTimeout(t) ==
    /\ Take(<<"timer", t>>) /\ timer[t] # "off"
    /\ \/ /\ timer[t] = "term"
          /\ timer' = [timer EXCEPT ![t] = "kill"]
          /\ UNCHANGED child
       \/ /\ timer[t] = "kill"
          /\ timer' = [timer EXCEPT ![t] = "disarmed"]
          /\ child' = [child EXCEPT ![t] = IF @ = "running" THEN "killed" ELSE @]
    /\ UNCHANGED <<heap, closing, reaped, ptmx, evfd, winVars, at, cur>>

\* fdm_ptmx() reads and parses, then lets pending Wayland input run.
FdmPtmx(t) ==
    /\ Take(<<"pty", t>>) /\ ptmx[t] = "polled"
    /\ at' = "pty" /\ cur' = t
    /\ UNCHANGED <<termVars, winVars>>

\* It returns at once if that input closed the PTY, and otherwise leaves or
\* finds that the PTY was hung up.  Without a slave, that is the end.
FdmPtmxReturn(t) ==
    /\ at = "pty" /\ cur = t
    /\ at' = "dispatch" /\ cur' = NoTerm
    /\ UNCHANGED <<termVars, winVars, batch>>

FdmPtmxHup(t) ==
    /\ at = "pty" /\ cur = t
    /\ ptmx[t] = "polled"
    /\ IF t \in NoChild /\ t \notin Holding
       THEN ShutDown(win[t], {t})
       ELSE /\ ptmx' = [ptmx EXCEPT ![t] = "closed"]
            /\ UNCHANGED <<heap, closing, reaped, child, evfd, timer, winVars>>
    /\ at' = "dispatch" /\ cur' = NoTerm
    /\ UNCHANGED batch

\* fdm_wayl() dispatches the events that are queued.
FdmWayl ==
    /\ Take(<<"wayland", NoTerm>>)
    /\ at' = "wayland"
    /\ UNCHANGED <<termVars, winVars, cur>>

FdmWaylReturn ==
    /\ at = "wayland"
    /\ at' = "dispatch"
    /\ UNCHANGED <<termVars, winVars, cur, batch>>

\* fdm_server() and fdm_client(): a footclient asks for a window, or for a tab
\* in the focused window, or else in the one of some terminal; one hangs up,
\* and its terminal is shut down, or destroyed when it already was; or neither
\* (Server has the details).
FdmClient ==
    /\ Take(<<"server", NoTerm>>)
    /\ \/ \E t \in Terms \ NoChild, w \in Windows :
            \/ OpenWindow(t, w)
            \/ OpenTab(t, w) /\ (kbd # NoTerm => win[kbd] \in {w, NoWin})
       \/ \E w \in Windows : \E t \in tabs[w] : ShutDown(w, {t})
       \/ \E t \in Terms : DestroyNow(t)
       \/ UNCHANGED <<termVars, winVars>>
    /\ UNCHANGED <<at, cur>>

(***************************************************************************)
(* What the user and the compositor do, wherever Wayland events run        *)
(***************************************************************************)

Dispatching == at \in {"wayland", "pty", "unmap"}

\* BIND_ACTION_TAB_NEW, a key binding of the focused terminal
TabNew(w) ==
    /\ Dispatching
    /\ kbd # NoTerm /\ win[kbd] = w
    /\ \E t \in Terms : OpenTab(t, w)
    /\ UNCHANGED loopVars

FirstConfigure(w) == Dispatching /\ Configure(w) /\ UNCHANGED loopVars

\* xdg_toplevel.close: tab_shutdown_window()
CloseWindow(w) ==
    /\ Dispatching
    /\ wst[w] \in {"new", "configured"}
    /\ ShutDown(w, tabs[w])
    /\ UNCHANGED loopVars

\* BIND_ACTION_TAB_CLOSE and BIND_ACTION_QUIT, the tab bar's and the title
\* bar's close buttons: one terminal is shut down.
CloseTab(w, t) ==
    /\ Dispatching
    /\ wst[w] = "configured" /\ t \in tabs[w]
    /\ ShutDown(w, {t})
    /\ UNCHANGED loopVars

\* keyboard_enter() and keyboard_leave()
KeyboardEnter(w) ==
    /\ Dispatching
    /\ wst[w] = "configured" /\ kbd = NoTerm
    /\ kbd' = active[w]
    /\ UNCHANGED <<termVars, win, wst, tabs, active, loopVars>>

KeyboardLeave ==
    /\ Dispatching
    /\ kbd # NoTerm
    /\ kbd' = NoTerm
    /\ UNCHANGED <<termVars, win, wst, tabs, active, loopVars>>

\* do_tab_switch()
TabSwitch(w, t) ==
    /\ Dispatching
    /\ wst[w] = "configured" /\ t \in tabs[w] \ {active[w]}
    /\ active' = [active EXCEPT ![w] = t]
    /\ kbd' = IF kbd = active[w] THEN t ELSE kbd
    /\ UNCHANGED <<termVars, win, wst, tabs, loopVars>>

\* A slave may end at any time, and does once it was sent SIGKILL.
ChildExits(t) ==
    /\ child[t] \in {"running", "killed"}
    /\ child' = [child EXCEPT ![t] = "zombie"]
    /\ UNCHANGED <<heap, closing, reaped, ptmx, evfd, timer, winVars, loopVars>>

(***************************************************************************)
(* The specification                                                       *)
(***************************************************************************)

\* main(): a stand-alone foot starts with a window, a server with none.
Init ==
    /\ closing = [t \in Terms |-> FALSE]
    /\ reaped = [t \in Terms |-> FALSE]
    /\ evfd = {}
    /\ timer = [t \in Terms |-> "off"]
    /\ kbd = NoTerm
    /\ at = "poll" /\ cur = NoTerm /\ batch = {}
    /\ \/ /\ ServerMode
          /\ heap = [t \in Terms |-> "none"]
          /\ child = [t \in Terms |-> "none"]
          /\ ptmx = [t \in Terms |-> "none"]
          /\ win = [t \in Terms |-> NoWin]
          /\ wst = [w \in Windows |-> "none"]
          /\ tabs = [w \in Windows |-> {}]
          /\ active = [w \in Windows |-> NoTerm]
       \/ /\ ~ServerMode
          /\ \E t \in Terms, w \in Windows :
               /\ heap = [u \in Terms |-> IF u = t THEN "live" ELSE "none"]
               /\ child = [u \in Terms |->
                             IF u = t /\ t \notin NoChild THEN "running" ELSE "none"]
               /\ ptmx = [u \in Terms |-> IF u = t THEN "idle" ELSE "none"]
               /\ win = [u \in Terms |-> IF u = t THEN w ELSE NoWin]
               /\ wst = [v \in Windows |-> IF v = w THEN "new" ELSE "none"]
               /\ tabs = [v \in Windows |-> IF v = w THEN {t} ELSE {}]
               /\ active = [v \in Windows |-> IF v = w THEN t ELSE NoTerm]

FdmShutdown(t) ==
    FdmShutdownDetached(t) \/ FdmShutdownUnmap(t) \/ FdmShutdownDestroy(t)
Ptmx(t) == FdmPtmx(t) \/ FdmPtmxReturn(t) \/ FdmPtmxHup(t)
Loop == Poll \/ DeliverSIGCHLD \/ ReapDone \/ BatchDone \/ SkipDeleted
Compositor(w) ==
    \/ TabNew(w) \/ FirstConfigure(w) \/ CloseWindow(w) \/ KeyboardEnter(w)
    \/ \E t \in Terms : CloseTab(w, t) \/ TabSwitch(w, t)

\* Everything but the handlers of footclient connections (see Server).
Core ==
    \/ Loop \/ FdmWayl \/ FdmWaylReturn \/ KeyboardLeave
    \/ \E t \in Terms : \/ Reap(t) \/ FdmShutdown(t) \/ TerminateTimeout(t)
                        \/ Ptmx(t) \/ ChildExits(t)
    \/ \E w \in Windows : Compositor(w)

Next == Core \/ FdmClient

Spec == Init /\ [][Next]_vars

(***************************************************************************)
(* Safety                                                                  *)
(***************************************************************************)

\* The callback of a terminal: an fd handler, or the reaper's.
HasCallback(t) ==
    \/ t \in evfd \/ timer[t] # "off" \/ ptmx[t] = "polled"
    \/ child[t] \in {"running", "killed", "zombie"}
    \/ at \in {"pty", "unmap"} /\ cur = t

\* No callback is left behind for a terminal that term_destroy() has freed,
\* and none runs on one: shutdown_maybe_done() may only be reached when the
\* event fd of fdm_shutdown() has been consumed.
CallbacksHaveTerminal == \A t \in Terms : HasCallback(t) => heap[t] = "live"

\* A terminal's window exists as long as the terminal points to it, and the
\* tab list of a window is exactly the terminals that point to it, whichever
\* way and in whichever order tabs were opened, detached and shut down.
WindowsAndTabsAgree ==
    \A w \in Windows :
        /\ tabs[w] = {t \in Terms : win[t] = w}
        /\ wst[w] \in {"none", "destroyed"} <=> tabs[w] = {}
        /\ tabs[w] # {} => active[w] \in tabs[w]

\* The seat's keyboard focus is NULL or the active tab of a window that
\* exists: key events are never delivered to a detached or freed terminal.
FocusIsActiveTab ==
    kbd # NoTerm =>
        /\ heap[kbd] = "live"
        /\ win[kbd] # NoWin /\ wst[win[kbd]] = "configured"
        /\ active[win[kbd]] = kbd

\* A terminal being shut down always has something left to finish it: the
\* event fd or the running fdm_shutdown(), or, its window being gone, a slave
\* that is still to be reaped and whose escalation timer is still there.
\* Nothing is forgotten half way, and no window is left to a dead terminal.
ShutdownIsDriven ==
    \A t \in Terms :
        closing[t] /\ heap[t] = "live" =>
            \/ t \in evfd
            \/ at = "unmap" /\ cur = t
            \/ win[t] = NoWin /\ ~reaped[t] /\ timer[t] # "off"

\* fdm_terminate_timeout() never signals a process that was reaped, whose PID
\* may by then belong to someone else.
NoSignalAfterReap == \A t \in Terms : timer[t] # "off" => child[t] # "gone"

\* Every tab of a configured window that is not shutting down has its PTY
\* polled, unless the PTY was hung up: no tab is deaf to its shell.
TabsArePolled ==
    \A t \in Terms :
        (heap[t] = "live" /\ ~closing[t] /\ wst[win[t]] = "configured")
            => ptmx[t] # "idle"

\* A window is only destroyed by fdm_shutdown(), and takes no terminal with
\* it that was not being shut down.
WindowTakesOnlyDyingTabs ==
    [][\A w \in Windows :
         wst'[w] = "destroyed" /\ wst[w] # "destroyed" =>
             \A t \in Terms : win[t] = w => closing[t]]_vars

(***************************************************************************)
(* The inductive invariant behind the safety properties                    *)
(***************************************************************************)

\* What is known of a terminal in each stage of its life ...
StageInv(t) ==
    /\ heap[t] = "none" =>
         /\ ~closing[t] /\ ~reaped[t]
         /\ child[t] = "none" /\ ptmx[t] = "none"
    /\ heap[t] = "live" /\ ~closing[t] => win[t] # NoWin
    /\ heap[t] = "freed" => closing[t] /\ reaped[t]
    /\ closing[t] => heap[t] # "none" /\ ptmx[t] = "closed"
    /\ win[t] # NoWin => heap[t] = "live"

\* ... how its slave, the timer and the event fd go together ...
SlaveInv(t) ==
    /\ reaped[t] => child[t] \in {"gone", "none"}
    /\ child[t] = "gone" => reaped[t]
    /\ child[t] = "none" /\ closing[t] => reaped[t]
    /\ timer[t] # "off" => closing[t] /\ heap[t] = "live" /\ ~reaped[t]
    /\ closing[t] /\ heap[t] = "live" /\ ~reaped[t] => timer[t] # "off"
    /\ child[t] \in {"running", "killed", "zombie"} => heap[t] = "live"

\* ... and who will finish its shutdown.  The third conjunct is why
\* shutdown_maybe_done() cannot come too early: while children are reaped no
\* event fd is outstanding, but those of terminals just reaped.
EventInv(t) ==
    /\ t \in evfd => closing[t] /\ heap[t] = "live"
    /\ closing[t] /\ heap[t] = "live" =>
         t \in evfd \/ (at = "unmap" /\ cur = t) \/ (win[t] = NoWin /\ ~reaped[t])
    /\ at = "signal" /\ t \in evfd => reaped[t]
    /\ closing[t] /\ win[t] # NoWin => tabs[win[t]] = {t}

WindowInv(w) ==
    /\ tabs[w] = {t \in Terms : win[t] = w}
    /\ wst[w] \in {"none", "destroyed"} <=> tabs[w] = {}
    /\ tabs[w] # {} => active[w] \in tabs[w]

LoopInv ==
    /\ at \in {"pty", "unmap"} => cur \in Terms /\ heap[cur] = "live"
    /\ at = "unmap" => closing[cur] /\ win[cur] # NoWin /\ cur \notin evfd

IInv ==
    /\ TypeOK
    /\ \A t \in Terms : StageInv(t) /\ SlaveInv(t) /\ EventInv(t)
    /\ \A w \in Windows : WindowInv(w)
    /\ LoopInv
    /\ FocusIsActiveTab

\* The terminals as TerminalLife sees them.
Stage(t) == IF heap[t] # "live" THEN heap[t]
            ELSE IF closing[t] THEN "closing" ELSE "running"

Life == INSTANCE TerminalLife WITH
    stage     <- [t \in Terms |-> Stage(t)],
    hasWindow <- [t \in Terms |-> win[t] # NoWin],
    hasClient <- [t \in Terms |-> heap[t] # "none" /\ ~reaped[t]]

\* The event loop, handlers, signals and timers implement TerminalLife.
ImplementsTerminalLife == Life!Spec

(***************************************************************************)
(* Liveness                                                                *)
(***************************************************************************)

Returns == FdmWaylReturn \/ \E t \in Terms :
              FdmPtmxReturn(t) \/ FdmPtmxHup(t) \/ FdmShutdownDestroy(t)
Handle == BatchDone \/ SkipDeleted \/ FdmWayl \/ FdmClient
          \/ \E t \in Terms : \/ FdmShutdownDetached(t) \/ FdmShutdownUnmap(t)
                              \/ TerminateTimeout(t) \/ FdmPtmx(t)
Kill(t) == child[t] = "killed" /\ ChildExits(t)
TimerFires(t) == Poll /\ <<"timer", t>> \in batch'

\* The loop runs, handlers return, and a process that was sent SIGKILL ends.
\* A timer that is armed is eventually reported, and the loop eventually finds
\* nothing else to do, so that SIGCHLD gets through (epoll_pwait() prefers
\* events to signals).
Fairness ==
    /\ WF_vars(Poll) /\ WF_vars(Handle) /\ WF_vars(Returns) /\ WF_vars(ReapDone)
    /\ SF_vars(DeliverSIGCHLD)
    /\ \A t \in Terms : /\ WF_vars(Reap(t)) /\ WF_vars(Kill(t))
                        /\ SF_vars(TimerFires(t))

FairSpec == Spec /\ Fairness

\* A shutdown that was begun, by the user or by the slave's end, completes:
\* the terminal is destroyed even when its slave ignores SIGHUP and SIGTERM.
ShutdownCompletes == \A t \in Terms : closing[t] ~> heap[t] = "freed"

==============================================================================
