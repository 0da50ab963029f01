----------------------------- MODULE RenderTimers -----------------------------
(***************************************************************************)
(* When a terminal draws: output from the shell is delayed by two timers   *)
(* (fdm_ptmx() and fdm_delayed_render() in terminal.c), held back while    *)
(* the application updates the screen (synchronized updates, mode 2026),   *)
(* and drawn by the event loop's hook or by the frame callback (render.c). *)
(* The window title is limited to one change per 8.3 ms in the same way.   *)
(*                                                                         *)
(* The event loop polls a batch of events, handles each, and runs the      *)
(* hook: an event whose timer a handler before it stopped or armed again   *)
(* finds nothing to read (EAGAIN).  Time passes between two batches, when  *)
(* no timer has expired.                                                   *)
(***************************************************************************)
EXTENDS Integers

CONSTANTS
    Lower,     \* ticks of tweak.delayed-render-lower ...
    Upper,     \* ... of tweak.delayed-render-upper, one frame ...
    SyncTime,  \* ... of the time-out of a synchronized update (1 s) ...
    Throttle,  \* ... and between two titles
    Overlays,  \* what is drawn besides the grid: "csd", "search", "urls"
    MaxSyncs   \* bound on how often the application begins an update; 0 for none

ASSUME RenderTimersAssumption ==
    /\ {Lower, Upper, SyncTime, Throttle, MaxSyncs} \subseteq Nat
    /\ Lower > 0 /\ Upper > 0 => Lower < Upper    \* 0 for no delay
    /\ SyncTime > 0 /\ Throttle > 0
    /\ Overlays \subseteq {"csd", "search", "urls"}

VARIABLES
    t,        \* the terminal, see Fresh
    batch,    \* events of this turn of the loop that are still to be handled
    hook,     \* the loop's hook is still to run in this turn
    waited,   \* ticks that output waited though the compositor was ready for it
    syncs     \* updates that the application began, up to MaxSyncs

vars == <<t, batch, hook, waited, syncs>>

Off == -1     \* a timer that is not armed; 0 is one that has expired
Fresh ==
    [stale    |-> FALSE,  \* the grid is not what was drawn last
     refresh  |-> {},     \* render.refresh: what the hook is to draw
     pending  |-> {},     \* render.pending: what the frame callback is to draw
     inFlight |-> FALSE,  \* window->frame_callback
     lower    |-> Off, upper |-> Off, armed |-> FALSE,   \* delayed_render_timer
     sync     |-> FALSE, syncTimer |-> Off,              \* app_sync_updates
     title    |-> TRUE, titleTimer |-> Off, titleAge |-> Throttle]

TimersOf == {"lower", "upper", "syncTimer", "titleTimer"}

\* read() of a timer: an expiration, or EAGAIN.
Expired(name) == t[name] = 0
Fired(name) == [t EXCEPT ![name] = Off]

\* render_refresh() and its variants
Refresh(s, what) == [s EXCEPT !.refresh = @ \cup what]

(***************************************************************************)
(* Synchronized updates                                                    *)
(***************************************************************************)

\* term_enable_app_sync_updates(): a frame that is due is dropped, unless the
\* decorations or the search box are to be drawn with it.
EnableAppSync(s) ==
    LET quiet == {"csd", "search"} \cap (s.refresh \cup s.pending) = {}
    IN [s EXCEPT !.sync = TRUE, !.syncTimer = SyncTime,
                 !.refresh = IF quiet THEN @ \ {"grid"} ELSE @,
                 !.pending = IF quiet THEN @ \ {"grid"} ELSE @,
                 !.lower = Off, !.upper = Off, !.armed = FALSE]

\* term_disable_app_sync_updates()
DisableAppSync(s) ==
    IF s.sync THEN [Refresh(s, {"grid"}) EXCEPT !.sync = FALSE, !.syncTimer = Off] ELSE s

(***************************************************************************)
(* The title                                                               *)
(***************************************************************************)

\* render_refresh_title(): sets it at once, or arms the timer for the rest of
\* the 8.3 ms.  The decorations show it too.
RefreshTitle(s) ==
    LET u == IF s.titleAge < Throttle
             THEN [s EXCEPT !.titleTimer = Throttle - s.titleAge]
             ELSE [s EXCEPT !.title = TRUE, !.titleAge = 0]
    IN Refresh(u, {"csd"} \cap Overlays)

(***************************************************************************)
(* Output of the shell                                                     *)
(***************************************************************************)

\* What one read gives the parser: two items of those that matter here, in order.
Parsed(s, item) ==
    CASE item = "none"  -> s
      [] item = "text"  -> [s EXCEPT !.stale = TRUE]
      [] item = "begin" -> EnableAppSync(s)
      [] item = "end"   -> DisableAppSync(s)
      [] item = "title" -> RefreshTitle([s EXCEPT !.title = FALSE])
Reads == ({"none", "text", "begin", "end", "title"} \X {"none"})
         \cup ({"text", "begin", "end"} \X {"text", "begin", "end"})

\* Mutant of ArmDelayed: the second timer, too, starts again with every read.
ArmBothDelayed(s) ==
    IF s.sync THEN s
    ELSE IF Lower > 0 /\ Upper > 0
         THEN [s EXCEPT !.lower = Lower, !.upper = Upper, !.armed = TRUE]
         ELSE Refresh(s, {"grid"})

\* The end of fdm_ptmx(): the first timer starts again with every read, the
\* second one only if it is not armed.  Without delays the hook draws at once.
ArmDelayed(s) ==
    IF s.sync THEN s
    ELSE IF Lower > 0 /\ Upper > 0
         THEN [s EXCEPT !.lower = Lower, !.upper = IF s.armed THEN @ ELSE Upper, !.armed = TRUE]
         ELSE Refresh(s, {"grid"})

FdmPtmx(items) ==
    LET begins == "begin" \in {items[1], items[2]} IN
    /\ "pty" \in batch
    /\ begins => MaxSyncs = 0 \/ syncs < MaxSyncs
    /\ t' = ArmDelayed(Parsed(Parsed(t, items[1]), items[2]))
    /\ syncs' = IF MaxSyncs > 0 /\ begins THEN syncs + 1 ELSE syncs
    /\ waited' = IF t'.sync THEN 0 ELSE waited
    /\ batch' = batch \ {"pty"}
    /\ UNCHANGED hook

(***************************************************************************)
(* Timers                                                                  *)
(***************************************************************************)

\* fdm_delayed_render(), for either timer
FdmDelayedRender(name) ==
    /\ name \in batch \cap {"lower", "upper"}
    /\ batch' = batch \ {name}
    /\ t' = IF Expired(name)
            THEN Refresh([t EXCEPT !.lower = Off, !.upper = Off, !.armed = FALSE], {"grid"})
            ELSE t
    /\ UNCHANGED <<hook, waited, syncs>>

\* Mutant of FdmAppSyncTimeout: the timer is periodic, and only reported.
FdmAppSyncTimeoutAgain ==
    /\ "syncTimer" \in batch
    /\ batch' = batch \ {"syncTimer"}
    /\ t' = IF Expired("syncTimer") THEN [t EXCEPT !.syncTimer = SyncTime] ELSE t
    /\ UNCHANGED <<hook, waited, syncs>>

\* fdm_app_sync_updates_timeout()
FdmAppSyncTimeout ==
    /\ "syncTimer" \in batch
    /\ batch' = batch \ {"syncTimer"}
    /\ t' = IF Expired("syncTimer") THEN DisableAppSync(Fired("syncTimer")) ELSE t
    /\ UNCHANGED <<hook, waited, syncs>>

\* fdm_title_update_timeout()
FdmTitleTimeout ==
    /\ "titleTimer" \in batch
    /\ batch' = batch \ {"titleTimer"}
    /\ t' = IF Expired("titleTimer") THEN RefreshTitle(Fired("titleTimer")) ELSE t
    /\ UNCHANGED <<hook, waited, syncs>>

(***************************************************************************)
(* Drawing                                                                 *)
(***************************************************************************)

\* grid_render() up to the commit, which asks for a frame callback.
Drawn(s) == [s EXCEPT !.stale = FALSE, !.inFlight = TRUE]

\* frame_callback(): a frame of the grid alone waits for the output that is
\* still coming in.
FrameCallback ==
    /\ "frame" \in batch
    /\ batch' = batch \ {"frame"}
    /\ LET s == [t EXCEPT !.inFlight = FALSE, !.pending = {}]
           draws == \/ "grid" \in t.pending /\ ~t.armed
                    \/ t.pending \cap Overlays # {}
       IN /\ t' = IF draws THEN Drawn(s) ELSE s
          /\ waited' = IF draws THEN 0 ELSE waited
    /\ UNCHANGED <<hook, syncs>>

\* fdm_hook_refresh_pending_terminals(), for a terminal that is shown.
FdmHook ==
    /\ batch = {} /\ hook
    /\ hook' = FALSE
    /\ LET held == t.refresh = {} \/ (t.sync /\ t.refresh \cap Overlays = {})
           s == [t EXCEPT !.refresh = {}]
       IN /\ t' = IF held THEN t
                  ELSE IF t.inFlight THEN [s EXCEPT !.pending = @ \cup t.refresh]
                  ELSE Drawn(s)
          /\ waited' = IF held \/ t.inFlight THEN waited ELSE 0
    /\ UNCHANGED <<batch, syncs>>

\* What else asks for a frame: the cursor and cells that blink, focus and
\* selections change the grid; the pointer, searching and URL mode the rest.
Other ==
    /\ "other" \in batch
    /\ batch' = batch \ {"other"}
    /\ \/ t' = Refresh([t EXCEPT !.stale = TRUE], {"grid"})
       \/ \E o \in Overlays : t' = Refresh(t, {o})
    /\ UNCHANGED <<hook, waited, syncs>>

\* render_resize(): ends a synchronized update, and redraws everything.
RenderResize ==
    /\ "resize" \in batch
    /\ batch' = batch \ {"resize"}
    /\ t' = Refresh([DisableAppSync(t) EXCEPT !.stale = TRUE],
                    {"grid"} \cup ({"csd"} \cap Overlays))
    /\ UNCHANGED <<hook, waited, syncs>>

(***************************************************************************)
(* The event loop                                                          *)
(***************************************************************************)

\* fdm_poll(): the timers that have expired, and whatever else is ready.
Poll ==
    /\ batch = {} /\ ~hook
    /\ \E events \in SUBSET ({"pty", "other", "resize"} \cup
                             (IF t.inFlight THEN {"frame"} ELSE {})) :
          batch' = events \cup {name \in TimersOf : Expired(name)}
    /\ batch' # {}
    /\ hook' = TRUE
    /\ UNCHANGED <<t, waited, syncs>>

Tick ==
    /\ batch = {} /\ ~hook
    /\ \A name \in TimersOf : ~Expired(name)
    /\ LET Later(ticks) == IF ticks = Off THEN Off ELSE ticks - 1
       IN t' = [t EXCEPT !.lower = Later(@), !.upper = Later(@), !.syncTimer = Later(@),
                         !.titleTimer = Later(@),
                         !.titleAge = IF @ < Throttle THEN @ + 1 ELSE @]
    /\ waited' = IF t.stale /\ ~t.inFlight /\ ~t.sync /\ waited <= Upper THEN waited + 1 ELSE waited
    /\ UNCHANGED <<batch, hook, syncs>>

Init ==
    /\ t = Fresh
    /\ batch = {} /\ hook = FALSE
    /\ waited = 0 /\ syncs = 0

Handle ==
    \/ \E items \in Reads : FdmPtmx(items)
    \/ \E name \in {"lower", "upper"} : FdmDelayedRender(name)
    \/ FdmAppSyncTimeout \/ FdmTitleTimeout
    \/ FrameCallback \/ Other \/ RenderResize

Next == Handle \/ FdmHook \/ Poll \/ Tick

\* The loop goes on and time passes; the compositor returns a frame of a window
\* that can be seen.
Fairness ==
    /\ WF_vars(Handle) /\ WF_vars(FdmHook)
    /\ WF_vars(Poll) /\ SF_vars(Tick)
    /\ SF_vars(Poll /\ "frame" \in batch')

Spec == Init /\ [][Next]_vars /\ Fairness

(***************************************************************************)
(* Properties                                                              *)
(***************************************************************************)

\* What is still to be shown always has something that will show it: a refresh
\* or a pending frame, one of the delay timers, or the time-out of the update.
\* Frames, timers and updates are dropped and disarmed on each other's account
\* in term_enable_app_sync_updates(), frame_callback() and fdm_delayed_render().
StaleIsDriven ==
    /\ t.stale =>
        \/ "grid" \in t.refresh
        \/ "grid" \in t.pending /\ t.inFlight
        \/ t.armed /\ t.upper # Off
        \/ t.sync /\ t.syncTimer # Off
    /\ ~t.title => t.titleTimer # Off

\* Output is not delayed for longer than the second timer takes, however often
\* more output starts the first one again (the comment in fdm_ptmx()).
DelayIsBounded == waited <= Upper

\* While the application updates the screen a frame is drawn only if something
\* other than the grid has to be (and for a read that ends the update).
UpdatesAreHeld ==
    [][ t.sync /\ t'.sync /\ t.stale /\ ~t'.stale
        => (t.refresh \cup t.pending) \cap Overlays # {} ]_vars

\* Whatever changes is drawn in the end, if the application does not begin
\* updates again and again.
OutputIsDrawn == t.stale ~> ~t.stale
===============================================================================
