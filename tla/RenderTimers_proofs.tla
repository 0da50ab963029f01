------------------------ MODULE RenderTimers_proofs --------------------------
(***************************************************************************)
(* Proofs about RenderTimers, for delays of any length and any number of   *)
(* synchronized updates: output is drawn no later than the second timer    *)
(* allows, nothing that is to be drawn is left to nobody, and a frame is   *)
(* held back while the application updates the screen.                     *)
(***************************************************************************)
EXTENDS RenderTimers, TLAPS

Kinds == {"grid"} \cup Overlays

Terminal ==
    [stale : BOOLEAN, refresh : SUBSET Kinds, pending : SUBSET Kinds, inFlight : BOOLEAN,
     lower : Off .. Lower, upper : Off .. Upper, armed : BOOLEAN,
     sync : BOOLEAN, syncTimer : Off .. SyncTime,
     title : BOOLEAN, titleTimer : Off .. Throttle, titleAge : 0 .. Throttle]

TypeOK ==
    /\ t \in Terminal
    /\ batch \subseteq TimersOf \cup {"pty", "other", "resize", "frame"}
    /\ hook \in BOOLEAN /\ waited \in Nat /\ syncs \in Nat

\* The flags say which timers are armed, and the title has its own.
Flags(s) ==
    /\ s.armed <=> s.upper # Off
    /\ s.sync <=> s.syncTimer # Off
    /\ ~s.title => s.titleTimer # Off

Driven(s) ==
    s.stale => \/ "grid" \in s.refresh
               \/ "grid" \in s.pending /\ s.inFlight
               \/ s.armed
               \/ s.sync

\* A frame that was put off while the application updates the screen shows more
\* than the grid.
Held(s) == s.sync /\ "grid" \in s.pending => (s.refresh \cup s.pending) \cap Overlays # {}

\* The hook runs after each batch, and leaves a refresh only to an update's end.
Loop ==
    /\ batch # {} => hook
    /\ ~hook /\ ~t.sync => t.refresh = {}
    /\ ~t.inFlight => t.pending = {}

\* Output that waits, waits for the second timer, which has not more than the
\* rest of its time left; or the hook is about to draw it.
Waits ==
    /\ t.inFlight \/ t.sync => waited = 0
    /\ waited <= Upper
    /\ waited > 0 => \/ "grid" \in t.refresh /\ hook
                     \/ t.armed /\ waited + t.upper <= Upper

TInv == TypeOK /\ Flags(t) /\ Driven(t) /\ Held(t) /\ Loop /\ Waits

LEMMA Constants ==
  /\ Lower \in Nat /\ Upper \in Nat /\ SyncTime \in Nat /\ Throttle \in Nat
  /\ 0 < SyncTime /\ 0 < Throttle
  /\ "grid" \notin Overlays /\ {"csd"} \cap Overlays \subseteq Kinds
BY RenderTimersAssumption DEF Kinds

LEMMA Ranges ==
  /\ Off \in Off .. Lower /\ Off \in Off .. Upper /\ Off \in Off .. SyncTime
  /\ Off \in Off .. Throttle /\ 0 \in 0 .. Throttle /\ Throttle \in 0 .. Throttle
  /\ Lower \in Off .. Lower /\ Upper \in Off .. Upper /\ SyncTime \in Off .. SyncTime
  /\ Lower # Off /\ Upper # Off /\ SyncTime # Off
BY Constants DEF Off

(***************************************************************************)
(* The operators on a terminal                                             *)
(***************************************************************************)

LEMMA RefreshKeeps ==
  ASSUME NEW s \in Terminal, NEW what \in SUBSET Kinds
  PROVE  /\ Refresh(s, what) \in Terminal
         /\ Refresh(s, what) = [s EXCEPT !.refresh = s.refresh \cup what]
BY DEF Refresh, Terminal

\* An update begins: no timer draws until it ends, or its own expires.
LEMMA BeginKeeps ==
  ASSUME NEW s \in Terminal, Flags(s)
  PROVE  LET u == EnableAppSync(s) IN
         /\ u \in Terminal /\ Flags(u) /\ Held(u) /\ u.sync
         /\ u.inFlight = s.inFlight /\ u.pending \subseteq s.pending
<1>. DEFINE quiet == {"csd", "search"} \cap (s.refresh \cup s.pending) = {}
            u == EnableAppSync(s)
<1>1. u = [s EXCEPT !.sync = TRUE, !.syncTimer = SyncTime,
                    !.refresh = IF quiet THEN s.refresh \ {"grid"} ELSE s.refresh,
                    !.pending = IF quiet THEN s.pending \ {"grid"} ELSE s.pending,
                    !.lower = Off, !.upper = Off, !.armed = FALSE]
  BY DEF EnableAppSync
<1>. HIDE DEF u, quiet
<1>2. /\ u.sync = TRUE /\ u.syncTimer = SyncTime
      /\ u.refresh = IF quiet THEN s.refresh \ {"grid"} ELSE s.refresh
      /\ u.pending = IF quiet THEN s.pending \ {"grid"} ELSE s.pending
      /\ u.upper = Off /\ u.armed = FALSE
      /\ u.title = s.title /\ u.titleTimer = s.titleTimer /\ u.inFlight = s.inFlight
  BY <1>1 DEF Terminal
<1>3. u \in Terminal
  <2>. DEFINE rf == IF quiet THEN s.refresh \ {"grid"} ELSE s.refresh
              pn == IF quiet THEN s.pending \ {"grid"} ELSE s.pending
  <2>1. rf \in SUBSET Kinds /\ pn \in SUBSET Kinds
    BY DEF Terminal
  <2>2. u = [s EXCEPT !.sync = TRUE, !.syncTimer = SyncTime, !.refresh = rf, !.pending = pn,
                      !.lower = Off, !.upper = Off, !.armed = FALSE]
    BY <1>1
  <2>. HIDE DEF rf, pn
  <2>. QED
    BY <2>1, <2>2, Ranges DEF Terminal
<1>4. Held(u)
  <2>1. CASE quiet
    BY <1>2, <2>1 DEF Held
  <2>2. CASE ~quiet
    BY <1>2, <2>2 DEF Held, quiet, Terminal, Kinds
  <2>. QED BY <2>1, <2>2
<1>5. Flags(u)
  BY <1>2, Constants DEF Flags, Off
<1>6. u.pending \subseteq s.pending
  BY <1>2
<1>. QED
  BY <1>2, <1>3, <1>4, <1>5, <1>6 DEF u

\* An update ends: the grid is refreshed.
LEMMA EndKeeps ==
  ASSUME NEW s \in Terminal
  PROVE  LET u == DisableAppSync(s) IN
         /\ u = IF s.sync THEN [s EXCEPT !.refresh = s.refresh \cup {"grid"},
                                         !.sync = FALSE, !.syncTimer = Off]
                          ELSE s
         /\ u \in Terminal
<1>. DEFINE u == DisableAppSync(s)
<1>1. u = IF s.sync THEN [s EXCEPT !.refresh = s.refresh \cup {"grid"},
                                   !.sync = FALSE, !.syncTimer = Off]
                    ELSE s
  BY DEF DisableAppSync, Refresh, Terminal
<1>2. s.refresh \cup {"grid"} \in SUBSET Kinds
  BY DEF Terminal, Kinds
<1>. HIDE DEF u
<1>3. u \in Terminal
  BY <1>1, <1>2, Ranges DEF Terminal
<1>. QED
  BY <1>1, <1>3 DEF u

LEMMA EndFlags ==
  ASSUME NEW s \in Terminal, Flags(s)
  PROVE  Flags(DisableAppSync(s)) /\ ~DisableAppSync(s).sync
<1>. DEFINE u == DisableAppSync(s)
<1>1. /\ u = IF s.sync THEN [s EXCEPT !.refresh = s.refresh \cup {"grid"},
                                      !.sync = FALSE, !.syncTimer = Off]
                       ELSE s
      /\ u \in Terminal
  BY EndKeeps
<1>. HIDE DEF u
<1>2. /\ u.sync = FALSE /\ u.armed = s.armed /\ u.upper = s.upper /\ u.title = s.title
      /\ u.titleTimer = s.titleTimer /\ u.syncTimer = IF s.sync THEN Off ELSE s.syncTimer
  BY <1>1 DEF Terminal
<1>3. Flags(u)
  BY <1>2 DEF Flags
<1>. QED
  BY <1>2, <1>3 DEF u

LEMMA TitleKeeps ==
  ASSUME NEW s \in Terminal
  PROVE  LET u == RefreshTitle(s) IN
         /\ u \in Terminal
         /\ ~u.title => u.titleTimer # Off
         /\ u.refresh = s.refresh \cup ({"csd"} \cap Overlays)
         /\ u.stale = s.stale /\ u.pending = s.pending /\ u.inFlight = s.inFlight
         /\ u.armed = s.armed /\ u.upper = s.upper
         /\ u.sync = s.sync /\ u.syncTimer = s.syncTimer
<1>. DEFINE w == IF s.titleAge < Throttle
                 THEN [s EXCEPT !.titleTimer = Throttle - s.titleAge]
                 ELSE [s EXCEPT !.title = TRUE, !.titleAge = 0]
            u == RefreshTitle(s)
<1>1. u = Refresh(w, {"csd"} \cap Overlays)
  BY DEF RefreshTitle
<1>2. /\ w \in Terminal
      /\ ~w.title => w.titleTimer # Off
      /\ w.refresh = s.refresh
      /\ w.stale = s.stale /\ w.pending = s.pending /\ w.inFlight = s.inFlight
      /\ w.armed = s.armed /\ w.upper = s.upper
      /\ w.sync = s.sync /\ w.syncTimer = s.syncTimer
  <2>1. CASE s.titleAge < Throttle
    <3>1. Throttle - s.titleAge \in 1 .. Throttle
      BY <2>1, Constants DEF Terminal
    <3>. DEFINE left == Throttle - s.titleAge
    <3>. HIDE DEF left
    <3>2. w = [s EXCEPT !.titleTimer = left] /\ left \in 1 .. Throttle
      BY <2>1, <3>1 DEF left
    <3>3. left \in Off .. Throttle /\ left # Off
      BY <3>2, Constants DEF Off
    <3>. HIDE DEF w
    <3>. QED
      BY <3>2, <3>3 DEF Terminal
  <2>2. CASE ~(s.titleAge < Throttle)
    <3>1. w = [s EXCEPT !.title = TRUE, !.titleAge = 0]
      BY <2>2
    <3>2. 0 \in 0 .. Throttle
      BY Constants
    <3>. HIDE DEF w
    <3>. QED
      BY <3>1, <3>2 DEF Terminal
  <2>. QED BY <2>1, <2>2
<1>. HIDE DEF w, u
<1>3. u \in Terminal /\ u = [w EXCEPT !.refresh = w.refresh \cup ({"csd"} \cap Overlays)]
  BY <1>1, <1>2, RefreshKeeps, Constants
<1>4. /\ u.refresh = w.refresh \cup ({"csd"} \cap Overlays)
      /\ u.title = w.title /\ u.titleTimer = w.titleTimer
      /\ u.stale = w.stale /\ u.pending = w.pending /\ u.inFlight = w.inFlight
      /\ u.armed = w.armed /\ u.upper = w.upper
      /\ u.sync = w.sync /\ u.syncTimer = w.syncTimer
  BY <1>2, <1>3 DEF Terminal
<1>5. u \in Terminal /\ (~u.title => u.titleTimer # Off)
  BY <1>2, <1>3, <1>4
<1>. QED
  BY <1>2, <1>4, <1>5 DEF u

Items == {"none", "text", "begin", "end", "title"}

\* What is parsed leaves what is to be drawn to the hook, to the end of an
\* update, or to the timers, which it does not touch otherwise.
Leaves(s, u) ==
    /\ u \in Terminal /\ Flags(u)
    /\ u.inFlight = s.inFlight /\ u.pending \subseteq s.pending
    /\ Held(s) => Held(u)
    /\ \/ u.sync
       \/ "grid" \in u.refresh
       \/ /\ "grid" \notin s.refresh /\ ~s.sync
          /\ u.armed = s.armed /\ u.upper = s.upper

LEMMA ParsedKeeps ==
  ASSUME NEW s \in Terminal, Flags(s), NEW item \in Items
  PROVE  Leaves(s, Parsed(s, item))
<1>1. CASE item = "none"
  <2>1. Parsed(s, item) = s
    BY <1>1 DEF Parsed
  <2>. QED
    BY <2>1 DEF Leaves
<1>2. CASE item = "text"
  <2>. DEFINE u == [s EXCEPT !.stale = TRUE]
  <2>1. Parsed(s, item) = u
    BY <1>2 DEF Parsed
  <2>2. u \in Terminal
    BY DEF Terminal
  <2>3. /\ u.refresh = s.refresh /\ u.pending = s.pending /\ u.inFlight = s.inFlight
        /\ u.armed = s.armed /\ u.upper = s.upper /\ u.sync = s.sync
        /\ u.syncTimer = s.syncTimer /\ u.title = s.title /\ u.titleTimer = s.titleTimer
    BY DEF Terminal
  <2>. HIDE DEF u
  <2>. QED
    BY <2>1, <2>2, <2>3 DEF Leaves, Flags, Held
<1>3. CASE item = "begin"
  <2>. DEFINE u == EnableAppSync(s)
  <2>1. Parsed(s, item) = u
    BY <1>3 DEF Parsed
  <2>2. /\ u \in Terminal /\ Flags(u) /\ Held(u) /\ u.sync
        /\ u.inFlight = s.inFlight /\ u.pending \subseteq s.pending
    BY BeginKeeps
  <2>. HIDE DEF u
  <2>. QED
    BY <2>1, <2>2 DEF Leaves
<1>4. CASE item = "end"
  <2>. DEFINE u == DisableAppSync(s)
  <2>1. Parsed(s, item) = u
    BY <1>4 DEF Parsed
  <2>2. /\ u = IF s.sync THEN [s EXCEPT !.refresh = s.refresh \cup {"grid"},
                                        !.sync = FALSE, !.syncTimer = Off]
                         ELSE s
        /\ u \in Terminal
    BY EndKeeps
  <2>3. Flags(u) /\ ~u.sync
    BY EndFlags
  <2>. HIDE DEF u
  <2>4. /\ u.inFlight = s.inFlight /\ u.pending = s.pending
        /\ s.sync => "grid" \in u.refresh
        /\ ~s.sync => u = s
    BY <2>2 DEF Terminal
  <2>. QED
    BY <2>1, <2>2, <2>3, <2>4 DEF Leaves, Held
<1>5. CASE item = "title"
  <2>. DEFINE w == [s EXCEPT !.title = FALSE]  u == RefreshTitle(w)
  <2>1. Parsed(s, item) = u
    BY <1>5 DEF Parsed
  <2>2. w \in Terminal
    BY DEF Terminal
  <2>3. /\ w.refresh = s.refresh /\ w.pending = s.pending /\ w.inFlight = s.inFlight
        /\ w.armed = s.armed /\ w.upper = s.upper /\ w.sync = s.sync
        /\ w.syncTimer = s.syncTimer
    BY DEF Terminal
  <2>. HIDE DEF w
  <2>4. /\ u \in Terminal
        /\ ~u.title => u.titleTimer # Off
        /\ u.refresh = w.refresh \cup ({"csd"} \cap Overlays)
        /\ u.stale = w.stale /\ u.pending = w.pending /\ u.inFlight = w.inFlight
        /\ u.armed = w.armed /\ u.upper = w.upper
        /\ u.sync = w.sync /\ u.syncTimer = w.syncTimer
    BY <2>2, TitleKeeps
  <2>. HIDE DEF u
  <2>. QED
    BY <2>1, <2>3, <2>4 DEF Leaves, Flags, Held
<1>. QED
  BY <1>1, <1>2, <1>3, <1>4, <1>5 DEF Items

LEMMA LeavesTwice ==
  ASSUME NEW s, NEW u, NEW w, Leaves(s, u), Leaves(u, w)
  PROVE  Leaves(s, w)
BY DEF Leaves

\* The timers that a read starts, or the frame that it asks for, unless the application
\* updates the screen.
LEMMA ArmKeeps ==
  ASSUME NEW s \in Terminal, Flags(s)
  PROVE  LET u == ArmDelayed(s) IN
         /\ u \in Terminal /\ Flags(u) /\ Driven(u)
         /\ u.sync = s.sync /\ u.inFlight = s.inFlight
         /\ u.pending = s.pending /\ s.refresh \subseteq u.refresh
         /\ ~s.sync => "grid" \in u.refresh \/ (u.armed /\ (s.armed => u.upper = s.upper))
<1>. DEFINE u == ArmDelayed(s)
<1>1. CASE s.sync
  <2>1. u = s
    BY <1>1 DEF ArmDelayed
  <2>. HIDE DEF u
  <2>. QED
    BY <1>1, <2>1 DEF Driven, u
<1>2. CASE ~s.sync /\ Lower > 0 /\ Upper > 0
  <2>. DEFINE up == IF s.armed THEN s.upper ELSE Upper
  <2>1. u = [s EXCEPT !.lower = Lower, !.upper = up, !.armed = TRUE]
    BY <1>2 DEF ArmDelayed
  <2>2. up \in Off .. Upper /\ up # Off
    BY Ranges DEF Terminal, Flags
  <2>3. s.armed => up = s.upper
    OBVIOUS
  <2>. HIDE DEF up, u
  <2>4. u \in Terminal
    BY <2>1, <2>2, Ranges DEF Terminal
  <2>5. /\ u.armed = TRUE /\ u.upper = up /\ u.sync = s.sync /\ u.syncTimer = s.syncTimer
        /\ u.inFlight = s.inFlight /\ u.pending = s.pending /\ u.refresh = s.refresh
        /\ u.title = s.title /\ u.titleTimer = s.titleTimer
    BY <2>1 DEF Terminal
  <2>6. Flags(u) /\ Driven(u)
    BY <2>2, <2>5 DEF Flags, Driven
  <2>. QED
    BY <2>3, <2>4, <2>5, <2>6 DEF u
<1>3. CASE ~s.sync /\ ~(Lower > 0 /\ Upper > 0)
  <2>1. u = Refresh(s, {"grid"})
    BY <1>3 DEF ArmDelayed
  <2>2. {"grid"} \in SUBSET Kinds
    BY DEF Kinds
  <2>3. u \in Terminal /\ u = [s EXCEPT !.refresh = s.refresh \cup {"grid"}]
    BY <2>1, <2>2, RefreshKeeps
  <2>. HIDE DEF u
  <2>4. /\ u.refresh = s.refresh \cup {"grid"} /\ u.pending = s.pending
        /\ u.inFlight = s.inFlight /\ u.armed = s.armed /\ u.upper = s.upper
        /\ u.sync = s.sync /\ u.syncTimer = s.syncTimer
        /\ u.title = s.title /\ u.titleTimer = s.titleTimer
    BY <2>3 DEF Terminal
  <2>5. Flags(u) /\ Driven(u)
    BY <2>4 DEF Flags, Driven
  <2>. QED
    BY <2>3, <2>4, <2>5 DEF u
<1>. QED
  BY <1>1, <1>2, <1>3

(***************************************************************************)
(* Every step keeps the invariant                                          *)
(***************************************************************************)

LEMMA TimersInit == Init => TInv
<1>. SUFFICES ASSUME Init PROVE TInv
  OBVIOUS
<1>1. t = Fresh /\ batch = {} /\ hook = FALSE /\ waited = 0 /\ syncs = 0
  BY DEF Init
<1>2. Fresh \in Terminal
  BY Ranges DEF Fresh, Terminal
<1>3. Flags(Fresh) /\ Driven(Fresh) /\ Held(Fresh)
  BY DEF Fresh, Flags, Driven, Held
<1>4. Loop
  BY <1>1 DEF Fresh, Loop
<1>5. Waits
  BY <1>1, Constants DEF Waits
<1>6. TypeOK
  BY <1>1, <1>2 DEF TypeOK
<1>. QED
  BY <1>1, <1>3, <1>4, <1>5, <1>6 DEF TInv

LEMMA PtmxStep ==
  ASSUME TInv, NEW items \in Reads, FdmPtmx(items)
  PROVE  TInv'
<1>. DEFINE u == Parsed(t, items[1])  v == Parsed(u, items[2])  w == ArmDelayed(v)
<1>1. /\ "pty" \in batch /\ hook' = hook /\ batch' = batch \ {"pty"}
      /\ t' = w /\ waited' = IF t'.sync THEN 0 ELSE waited
      /\ syncs' \in {syncs, syncs + 1}
  BY DEF FdmPtmx
<1>2. items[1] \in Items /\ items[2] \in Items
  BY DEF Reads, Items
<1>3. t \in Terminal /\ Flags(t) /\ Held(t) /\ hook /\ hook = TRUE
  BY <1>1 DEF TInv, TypeOK, Loop
<1>4. Leaves(t, u)
  BY <1>2, <1>3, ParsedKeeps
<1>. HIDE DEF u
<1>5. Leaves(u, v)
  BY <1>2, <1>4, ParsedKeeps DEF Leaves
<1>. HIDE DEF v
<1>6. Leaves(t, v)
  BY <1>4, <1>5, LeavesTwice
<1>7. /\ w \in Terminal /\ Flags(w) /\ Driven(w)
      /\ w.sync = v.sync /\ w.inFlight = v.inFlight
      /\ w.pending = v.pending /\ v.refresh \subseteq w.refresh
      /\ ~v.sync => "grid" \in w.refresh \/ (w.armed /\ (v.armed => w.upper = v.upper))
  BY <1>6, ArmKeeps DEF Leaves
<1>. HIDE DEF w
<1>8. Held(w)
  BY <1>3, <1>6, <1>7 DEF Leaves, Held
<1>9. Loop'
  <2>1. ~w.inFlight => w.pending = {}
    BY <1>6, <1>7 DEF TInv, Loop, Leaves
  <2>. QED
    BY <1>1, <1>3, <2>1 DEF Loop
<1>10. waited \in Nat /\ waited <= Upper /\ waited' \in Nat
  BY <1>1 DEF TInv, TypeOK, Waits
<1>11. Waits'
  <2>1. CASE w.sync
    BY <1>1, <2>1, Constants DEF Waits
  <2>2. CASE ~w.sync
    <3>1. waited' = waited
      BY <1>1, <2>2
    <3>2. w.inFlight => waited = 0
      BY <1>6, <1>7 DEF TInv, Waits, Leaves
    <3>3. ASSUME waited > 0
          PROVE  "grid" \in w.refresh \/ (w.armed /\ waited + w.upper <= Upper)
      <4>1. \/ "grid" \in t.refresh
            \/ t.armed /\ waited + t.upper <= Upper
        BY <3>3 DEF TInv, Waits
      <4>2. \/ "grid" \in v.refresh
            \/ "grid" \notin t.refresh /\ v.armed = t.armed /\ v.upper = t.upper
        BY <1>6, <1>7, <2>2 DEF Leaves
      <4>. QED
        BY <1>7, <2>2, <4>1, <4>2
    <3>. QED
      BY <1>1, <1>3, <1>10, <2>2, <3>1, <3>2, <3>3 DEF Waits
  <2>. QED
    BY <2>1, <2>2
<1>12. TypeOK'
  BY <1>1, <1>7, <1>10 DEF TInv, TypeOK
<1>. QED
  BY <1>1, <1>7, <1>8, <1>9, <1>11, <1>12 DEF TInv

\* A handler in a batch that only adds to what is refreshed, and stops or starts
\* no timer that output waits for, and leaves updates and frames alone.
LEMMA RefreshStep ==
  ASSUME TInv, NEW b \in batch, batch' = batch \ {b}, hook' = hook,
         waited' = waited, syncs' = syncs,
         t' \in Terminal, Flags(t'),
         t'.stale => t.stale \/ "grid" \in t'.refresh,
         t.refresh \subseteq t'.refresh,
         t'.pending = t.pending, t'.inFlight = t.inFlight,
         (t'.armed = t.armed /\ t'.upper = t.upper) \/ "grid" \in t'.refresh,
         t'.sync = t.sync \/ (~t'.sync /\ "grid" \in t'.refresh)
  PROVE  TInv'
<1>1. hook = TRUE
  BY DEF TInv, Loop, TypeOK
<1>2. Driven(t') /\ Held(t')
  BY DEF TInv, Driven, Held
<1>3. Loop'
  BY <1>1 DEF TInv, Loop
<1>4. Waits'
  BY <1>1 DEF TInv, Waits
<1>5. TypeOK'
  BY <1>1 DEF TInv, TypeOK
<1>. QED
  BY <1>2, <1>3, <1>4, <1>5 DEF TInv

LEMMA DelayedStep ==
  ASSUME TInv, NEW name \in {"lower", "upper"}, FdmDelayedRender(name)
  PROVE  TInv'
<1>. DEFINE u == [t EXCEPT !.lower = Off, !.upper = Off, !.armed = FALSE]
<1>1. /\ name \in batch /\ batch' = batch \ {name} /\ hook' = hook
      /\ waited' = waited /\ syncs' = syncs
      /\ t' = IF Expired(name) THEN Refresh(u, {"grid"}) ELSE t
  BY DEF FdmDelayedRender
<1>2. t \in Terminal /\ Flags(t) /\ {"grid"} \in SUBSET Kinds
  BY DEF TInv, TypeOK, Kinds
<1>3. CASE ~Expired(name)
  <2>1. t' = t
    BY <1>1, <1>3
  <2>. QED
    BY <1>1, <1>2, <2>1, RefreshStep DEF Terminal
<1>4. CASE Expired(name)
  <2>1. u \in Terminal
    BY <1>2, Ranges DEF Terminal
  <2>2. /\ u.armed = FALSE /\ u.upper = Off /\ u.sync = t.sync /\ u.syncTimer = t.syncTimer
        /\ u.stale = t.stale /\ u.refresh = t.refresh /\ u.pending = t.pending
        /\ u.inFlight = t.inFlight /\ u.title = t.title /\ u.titleTimer = t.titleTimer
    BY <1>2 DEF Terminal
  <2>. HIDE DEF u
  <2>3. t' \in Terminal /\ t' = [u EXCEPT !.refresh = u.refresh \cup {"grid"}]
    BY <1>1, <1>2, <1>4, <2>1, RefreshKeeps
  <2>4. /\ t'.armed = FALSE /\ t'.upper = Off /\ t'.sync = t.sync
        /\ t'.syncTimer = t.syncTimer
        /\ t'.stale = t.stale /\ t'.refresh = t.refresh \cup {"grid"} /\ t'.pending = t.pending
        /\ t'.inFlight = t.inFlight /\ t'.title = t.title /\ t'.titleTimer = t.titleTimer
    BY <2>1, <2>2, <2>3 DEF Terminal
  <2>5. Flags(t')
    BY <1>2, <2>4 DEF Flags
  <2>. QED
    BY <1>1, <2>3, <2>4, <2>5, RefreshStep
<1>. QED
  BY <1>3, <1>4

LEMMA SyncTimeoutStep ==
  ASSUME TInv, FdmAppSyncTimeout
  PROVE  TInv'
<1>. DEFINE u == [t EXCEPT !.syncTimer = Off]
<1>1. /\ "syncTimer" \in batch /\ batch' = batch \ {"syncTimer"} /\ hook' = hook
      /\ waited' = waited /\ syncs' = syncs
      /\ t' = IF Expired("syncTimer") THEN DisableAppSync(u) ELSE t
  BY DEF FdmAppSyncTimeout, Fired
<1>2. t \in Terminal /\ Flags(t)
  BY DEF TInv, TypeOK
<1>3. CASE ~Expired("syncTimer")
  <2>1. t' = t
    BY <1>1, <1>3
  <2>. QED
    BY <1>1, <1>2, <2>1, RefreshStep DEF Terminal
<1>4. CASE Expired("syncTimer")
  <2>1. t.syncTimer # Off /\ t.sync
    BY <1>2, <1>4 DEF Expired, Flags, Off
  <2>2. u \in Terminal
    BY <1>2, Ranges DEF Terminal
  <2>3. /\ u.armed = t.armed /\ u.upper = t.upper /\ u.sync = t.sync
        /\ u.stale = t.stale /\ u.refresh = t.refresh /\ u.pending = t.pending
        /\ u.inFlight = t.inFlight /\ u.title = t.title /\ u.titleTimer = t.titleTimer
    BY <1>2 DEF Terminal
  <2>. HIDE DEF u
  <2>4. t' \in Terminal /\ t' = [u EXCEPT !.refresh = u.refresh \cup {"grid"},
                                          !.sync = FALSE, !.syncTimer = Off]
    BY <1>1, <1>4, <2>1, <2>2, <2>3, EndKeeps
  <2>5. /\ t'.armed = t.armed /\ t'.upper = t.upper /\ t'.sync = FALSE
        /\ t'.syncTimer = Off
        /\ t'.stale = t.stale /\ t'.refresh = t.refresh \cup {"grid"} /\ t'.pending = t.pending
        /\ t'.inFlight = t.inFlight /\ t'.title = t.title /\ t'.titleTimer = t.titleTimer
    BY <2>2, <2>3, <2>4 DEF Terminal
  <2>6. Flags(t')
    BY <1>2, <2>5 DEF Flags
  <2>. QED
    BY <1>1, <2>4, <2>5, <2>6, RefreshStep
<1>. QED
  BY <1>3, <1>4

LEMMA TitleTimeoutStep ==
  ASSUME TInv, FdmTitleTimeout
  PROVE  TInv'
<1>. DEFINE u == [t EXCEPT !.titleTimer = Off]
<1>1. /\ "titleTimer" \in batch /\ batch' = batch \ {"titleTimer"} /\ hook' = hook
      /\ waited' = waited /\ syncs' = syncs
      /\ t' = IF Expired("titleTimer") THEN RefreshTitle(u) ELSE t
  BY DEF FdmTitleTimeout, Fired
<1>2. t \in Terminal /\ Flags(t)
  BY DEF TInv, TypeOK
<1>3. CASE ~Expired("titleTimer")
  <2>1. t' = t
    BY <1>1, <1>3
  <2>. QED
    BY <1>1, <1>2, <2>1, RefreshStep DEF Terminal
<1>4. CASE Expired("titleTimer")
  <2>2. u \in Terminal
    BY <1>2, Ranges DEF Terminal
  <2>3. /\ u.armed = t.armed /\ u.upper = t.upper /\ u.sync = t.sync
        /\ u.syncTimer = t.syncTimer
        /\ u.stale = t.stale /\ u.refresh = t.refresh /\ u.pending = t.pending
        /\ u.inFlight = t.inFlight
    BY <1>2 DEF Terminal
  <2>. HIDE DEF u
  <2>4. /\ t' \in Terminal
        /\ ~t'.title => t'.titleTimer # Off
        /\ t'.refresh = u.refresh \cup ({"csd"} \cap Overlays)
        /\ t'.stale = u.stale /\ t'.pending = u.pending /\ t'.inFlight = u.inFlight
        /\ t'.armed = u.armed /\ t'.upper = u.upper
        /\ t'.sync = u.sync /\ t'.syncTimer = u.syncTimer
    BY <1>1, <1>4, <2>2, TitleKeeps
  <2>6. Flags(t')
    BY <1>2, <2>3, <2>4 DEF Flags
  <2>. QED
    BY <1>1, <2>3, <2>4, <2>6, RefreshStep
<1>. QED
  BY <1>3, <1>4

LEMMA OtherStep ==
  ASSUME TInv, Other
  PROVE  TInv'
<1>1. /\ "other" \in batch /\ batch' = batch \ {"other"} /\ hook' = hook
      /\ waited' = waited /\ syncs' = syncs
  BY DEF Other
<1>2. t \in Terminal /\ Flags(t) /\ {"grid"} \in SUBSET Kinds
  BY DEF TInv, TypeOK, Kinds
<1>3. CASE t' = Refresh([t EXCEPT !.stale = TRUE], {"grid"})
  <2>. DEFINE u == [t EXCEPT !.stale = TRUE]
  <2>1. u \in Terminal /\ u.refresh = t.refresh
    BY <1>2 DEF Terminal
  <2>2. t' \in Terminal /\ t' = [u EXCEPT !.refresh = u.refresh \cup {"grid"}]
    <3>. HIDE DEF u
    <3>1. t' = Refresh(u, {"grid"})
      BY <1>3 DEF u
    <3>. QED
      BY <1>2, <2>1, <3>1, RefreshKeeps
  <2>3. /\ t'.armed = t.armed /\ t'.upper = t.upper /\ t'.sync = t.sync
        /\ t'.syncTimer = t.syncTimer
        /\ t'.refresh = t.refresh \cup {"grid"} /\ t'.pending = t.pending
        /\ t'.inFlight = t.inFlight /\ t'.title = t.title /\ t'.titleTimer = t.titleTimer
    BY <1>2, <2>1, <2>2 DEF Terminal
  <2>4. Flags(t')
    BY <1>2, <2>3 DEF Flags
  <2>. HIDE DEF u
  <2>. QED
    BY <1>1, <2>2, <2>3, <2>4, RefreshStep
<1>4. ASSUME NEW o \in Overlays, t' = Refresh(t, {o}) PROVE TInv'
  <2>1. {o} \in SUBSET Kinds
    BY DEF Kinds
  <2>2. t' \in Terminal /\ t' = [t EXCEPT !.refresh = t.refresh \cup {o}]
    BY <1>2, <1>4, <2>1, RefreshKeeps
  <2>3. /\ t'.armed = t.armed /\ t'.upper = t.upper /\ t'.sync = t.sync
        /\ t'.syncTimer = t.syncTimer /\ t'.stale = t.stale
        /\ t'.refresh = t.refresh \cup {o} /\ t'.pending = t.pending
        /\ t'.inFlight = t.inFlight /\ t'.title = t.title /\ t'.titleTimer = t.titleTimer
    BY <1>2, <2>2 DEF Terminal
  <2>4. Flags(t')
    BY <1>2, <2>3 DEF Flags
  <2>. QED
    BY <1>1, <2>2, <2>3, <2>4, RefreshStep
<1>. QED
  BY <1>3, <1>4 DEF Other

LEMMA ResizeStep ==
  ASSUME TInv, RenderResize
  PROVE  TInv'
<1>. DEFINE v == DisableAppSync(t)  u == [v EXCEPT !.stale = TRUE]
            all == {"grid"} \cup ({"csd"} \cap Overlays)
<1>1. /\ "resize" \in batch /\ batch' = batch \ {"resize"} /\ hook' = hook
      /\ waited' = waited /\ syncs' = syncs
      /\ t' = Refresh(u, all)
  BY DEF RenderResize
<1>2. t \in Terminal /\ Flags(t) /\ all \in SUBSET Kinds /\ "grid" \in all
  BY Constants DEF TInv, TypeOK, Kinds
<1>3. /\ v = IF t.sync THEN [t EXCEPT !.refresh = t.refresh \cup {"grid"},
                                      !.sync = FALSE, !.syncTimer = Off]
                       ELSE t
      /\ v \in Terminal
  BY <1>2, EndKeeps
<1>4. Flags(v) /\ ~v.sync
  BY <1>2, EndFlags
<1>. HIDE DEF v, all
<1>5. /\ v.armed = t.armed /\ v.upper = t.upper /\ t.refresh \subseteq v.refresh
      /\ v.pending = t.pending /\ v.inFlight = t.inFlight
  BY <1>2, <1>3 DEF Terminal
<1>6. u \in Terminal
  BY <1>3 DEF Terminal
<1>7. /\ u.armed = v.armed /\ u.upper = v.upper /\ u.refresh = v.refresh
      /\ u.pending = v.pending /\ u.inFlight = v.inFlight /\ u.sync = v.sync
      /\ u.syncTimer = v.syncTimer /\ u.title = v.title /\ u.titleTimer = v.titleTimer
  BY <1>3 DEF Terminal
<1>. HIDE DEF u
<1>8. t' \in Terminal /\ t' = [u EXCEPT !.refresh = u.refresh \cup all]
  BY <1>1, <1>2, <1>6, RefreshKeeps
<1>9. /\ t'.armed = u.armed /\ t'.upper = u.upper /\ t'.refresh = u.refresh \cup all
      /\ t'.pending = u.pending /\ t'.inFlight = u.inFlight /\ t'.sync = u.sync
      /\ t'.syncTimer = u.syncTimer /\ t'.title = u.title /\ t'.titleTimer = u.titleTimer
  BY <1>6, <1>8 DEF Terminal
<1>10. Flags(t')
  BY <1>4, <1>7, <1>9 DEF Flags
<1>11. "grid" \in t'.refresh /\ t.refresh \subseteq t'.refresh
  BY <1>2, <1>5, <1>7, <1>9
<1>12. ~t'.sync /\ t'.armed = t.armed /\ t'.upper = t.upper /\ t'.pending = t.pending
       /\ t'.inFlight = t.inFlight
  BY <1>4, <1>5, <1>7, <1>9
<1>. QED
  BY <1>1, <1>8, <1>10, <1>11, <1>12, RefreshStep

\* A frame that is drawn ends the wait.
LEMMA DrawnKeeps ==
  ASSUME NEW s \in Terminal, Flags(s)
  PROVE  LET u == Drawn(s) IN
         /\ u \in Terminal /\ Flags(u) /\ Driven(u)
         /\ u.refresh = s.refresh /\ u.pending = s.pending /\ u.sync = s.sync
         /\ u.inFlight = TRUE /\ u.stale = FALSE
<1>. DEFINE u == [s EXCEPT !.stale = FALSE, !.inFlight = TRUE]
<1>1. Drawn(s) = u
  BY DEF Drawn
<1>2. u \in Terminal
  BY DEF Terminal
<1>3. /\ u.refresh = s.refresh /\ u.pending = s.pending /\ u.sync = s.sync
      /\ u.inFlight = TRUE /\ u.stale = FALSE /\ u.armed = s.armed /\ u.upper = s.upper
      /\ u.syncTimer = s.syncTimer /\ u.title = s.title /\ u.titleTimer = s.titleTimer
  BY DEF Terminal
<1>. HIDE DEF u
<1>4. Flags(u) /\ Driven(u)
  BY <1>3 DEF Flags, Driven
<1>. QED
  BY <1>1, <1>2, <1>3, <1>4

LEMMA FrameStep ==
  ASSUME TInv, FrameCallback
  PROVE  TInv'
<1>. DEFINE s == [t EXCEPT !.inFlight = FALSE, !.pending = {}]
            draws == \/ "grid" \in t.pending /\ ~t.armed
                     \/ t.pending \cap Overlays # {}
<1>1. /\ "frame" \in batch /\ batch' = batch \ {"frame"} /\ hook' = hook /\ syncs' = syncs
      /\ t' = (IF draws THEN Drawn(s) ELSE s)
      /\ waited' = (IF draws THEN 0 ELSE waited)
  BY DEF FrameCallback
<1>2. t \in Terminal /\ Flags(t) /\ Driven(t) /\ hook = TRUE /\ waited \in Nat
  BY <1>1 DEF TInv, TypeOK, Loop
<1>3. s \in Terminal
  BY <1>2 DEF Terminal
<1>4. /\ s.stale = t.stale /\ s.refresh = t.refresh /\ s.pending = {} /\ s.sync = t.sync
      /\ s.inFlight = FALSE /\ s.armed = t.armed /\ s.upper = t.upper
      /\ s.syncTimer = t.syncTimer /\ s.title = t.title /\ s.titleTimer = t.titleTimer
  BY <1>2 DEF Terminal
<1>. HIDE DEF s
<1>5. Flags(s)
  BY <1>2, <1>4 DEF Flags
<1>6. CASE draws
  <2>1. /\ t' \in Terminal /\ Flags(t') /\ Driven(t')
        /\ t'.refresh = s.refresh /\ t'.pending = s.pending /\ t'.sync = s.sync
        /\ t'.inFlight = TRUE
    BY <1>1, <1>3, <1>5, <1>6, DrawnKeeps
  <2>2. Held(t') /\ Loop' /\ Waits' /\ TypeOK'
    BY <1>1, <1>2, <1>4, <1>6, <2>1, Constants DEF TInv, Held, Loop, Waits, TypeOK
  <2>. QED
    BY <2>1, <2>2 DEF TInv
<1>7. CASE ~draws
  <2>1. t' = s /\ waited' = waited
    BY <1>1, <1>7
  <2>2. Driven(s)
    BY <1>2, <1>4, <1>7 DEF Driven
  <2>3. Held(t') /\ Loop' /\ TypeOK'
    BY <1>1, <1>2, <1>3, <1>4, <2>1 DEF TInv, Held, Loop, TypeOK
  <2>4. Waits'
    BY <1>1, <1>2, <1>4, <2>1 DEF TInv, Waits
  <2>. QED
    BY <1>3, <1>5, <2>1, <2>2, <2>3, <2>4 DEF TInv
<1>. QED
  BY <1>6, <1>7

LEMMA HookStep ==
  ASSUME TInv, FdmHook
  PROVE  TInv'
<1>. DEFINE held == t.refresh = {} \/ (t.sync /\ t.refresh \cap Overlays = {})
            s == [t EXCEPT !.refresh = {}]
            p == [s EXCEPT !.pending = s.pending \cup t.refresh]
<1>1. /\ batch = {} /\ hook /\ hook' = FALSE /\ batch' = batch /\ syncs' = syncs
      /\ t' = IF held THEN t ELSE IF t.inFlight THEN p ELSE Drawn(s)
      /\ waited' = IF held \/ t.inFlight THEN waited ELSE 0
  BY DEF FdmHook
<1>2. t \in Terminal /\ Flags(t) /\ Driven(t) /\ waited \in Nat
  BY DEF TInv, TypeOK
<1>3. s \in Terminal
  BY <1>2 DEF Terminal
<1>4. /\ s.stale = t.stale /\ s.refresh = {} /\ s.pending = t.pending /\ s.sync = t.sync
      /\ s.inFlight = t.inFlight /\ s.armed = t.armed /\ s.upper = t.upper
      /\ s.syncTimer = t.syncTimer /\ s.title = t.title /\ s.titleTimer = t.titleTimer
  BY <1>2 DEF Terminal
<1>5. p \in Terminal
  <2>1. s.pending \cup t.refresh \in SUBSET Kinds
    BY <1>2, <1>4 DEF Terminal
  <2>. DEFINE np == s.pending \cup t.refresh
  <2>2. np \in SUBSET Kinds
    BY <2>1
  <2>. HIDE DEF np, s
  <2>3. p = [s EXCEPT !.pending = np]
    BY DEF np
  <2>. HIDE DEF p
  <2>. QED
    BY <1>3, <2>2, <2>3 DEF Terminal
<1>6. /\ p.stale = t.stale /\ p.refresh = {} /\ p.pending = t.pending \cup t.refresh
      /\ p.sync = t.sync /\ p.inFlight = t.inFlight /\ p.armed = t.armed
      /\ p.upper = t.upper /\ p.syncTimer = t.syncTimer /\ p.title = t.title
      /\ p.titleTimer = t.titleTimer
  <2>. HIDE DEF s
  <2>. QED
    BY <1>3, <1>4 DEF Terminal
<1>. HIDE DEF s, p
<1>7. CASE held
  <2>1. t' = t /\ waited' = waited
    BY <1>1, <1>7
  <2>2. Loop'
    BY <1>1, <1>7, <2>1 DEF TInv, Loop
  <2>3. Waits'
    BY <1>1, <1>2, <1>7, <2>1 DEF TInv, Waits
  <2>4. TypeOK'
    BY <1>1, <2>1 DEF TInv, TypeOK
  <2>. QED
    BY <2>1, <2>2, <2>3, <2>4 DEF TInv
<1>8. CASE ~held /\ t.inFlight
  <2>1. t' = p /\ waited' = waited /\ waited = 0
    BY <1>1, <1>8 DEF TInv, Waits
  <2>2. Flags(p) /\ Driven(p)
    BY <1>2, <1>6, <1>8 DEF Flags, Driven
  <2>3. Held(p)
    BY <1>6, <1>8 DEF Held
  <2>4. Loop' /\ Waits' /\ TypeOK'
    <3>1. Loop'
      BY <1>1, <1>6, <1>8, <2>1 DEF Loop
    <3>2. Waits'
      BY <2>1, Constants DEF Waits
    <3>3. TypeOK'
      BY <1>1, <1>2, <1>5, <2>1 DEF TInv, TypeOK
    <3>. QED
      BY <3>1, <3>2, <3>3
  <2>. QED
    BY <2>1, <2>2, <2>3, <2>4 DEF TInv
<1>9. CASE ~held /\ ~t.inFlight
  <2>1. Flags(s)
    BY <1>2, <1>4 DEF Flags
  <2>2. /\ t' \in Terminal /\ Flags(t') /\ Driven(t')
        /\ t'.refresh = s.refresh /\ t'.pending = s.pending /\ t'.sync = s.sync
        /\ t'.inFlight = TRUE
    BY <1>1, <1>3, <1>9, <2>1, DrawnKeeps
  <2>3. waited' = 0 /\ t.pending = {}
    BY <1>1, <1>9 DEF TInv, Loop
  <2>4. Held(t') /\ Loop' /\ Waits' /\ TypeOK'
    <3>1. Loop'
      BY <1>1, <1>4, <2>2 DEF Loop
    <3>2. Held(t')
      BY <1>4, <2>2, <2>3 DEF Held
    <3>3. Waits'
      BY <2>3, Constants DEF Waits
    <3>4. TypeOK'
      <4>1. /\ batch' = {} /\ hook' = FALSE /\ waited' = 0 /\ syncs' = syncs
            /\ t' \in Terminal
        BY <1>1, <2>2, <2>3
      <4>2. syncs \in Nat
        BY DEF TInv, TypeOK
      <4>. QED
        BY <4>1, <4>2 DEF TypeOK
    <3>. QED
      BY <3>1, <3>2, <3>3, <3>4
  <2>. QED
    BY <2>2, <2>4 DEF TInv
<1>. QED
  BY <1>7, <1>8, <1>9

LEMMA PollStep ==
  ASSUME TInv, Poll
  PROVE  TInv'
<1>1. t' = t /\ waited' = waited /\ syncs' = syncs /\ hook' = TRUE /\ ~hook
  BY DEF Poll
<1>2. batch' \subseteq TimersOf \cup {"pty", "other", "resize", "frame"}
  BY DEF Poll
<1>. QED
  BY <1>1, <1>2 DEF TInv, TypeOK, Loop, Waits

\* Time passes only when nothing is left to the hook; the wait and the rest of
\* the second timer's time change by one tick each.
LEMMA TickStep ==
  ASSUME TInv, Tick
  PROVE  TInv'
<1>. DEFINE Later(ticks) == IF ticks = Off THEN Off ELSE ticks - 1
            age == IF t.titleAge < Throttle THEN t.titleAge + 1 ELSE t.titleAge
<1>1. /\ batch = {} /\ ~hook /\ batch' = batch /\ hook' = hook /\ syncs' = syncs
      /\ \A name \in TimersOf : t[name] # 0
      /\ t' = [t EXCEPT !.lower = Later(t.lower), !.upper = Later(t.upper),
                        !.syncTimer = Later(t.syncTimer), !.titleTimer = Later(t.titleTimer),
                        !.titleAge = age]
      /\ waited' = IF t.stale /\ ~t.inFlight /\ ~t.sync /\ waited <= Upper
                   THEN waited + 1 ELSE waited
  BY DEF Tick, Expired
<1>2. t \in Terminal /\ Flags(t) /\ Driven(t) /\ waited \in Nat
  BY DEF TInv, TypeOK
<1>3. t.lower # 0 /\ t.upper # 0 /\ t.syncTimer # 0 /\ t.titleTimer # 0
  BY <1>1 DEF TimersOf
<1>4. /\ Later(t.lower) \in Off .. Lower /\ Later(t.upper) \in Off .. Upper
      /\ Later(t.syncTimer) \in Off .. SyncTime /\ Later(t.titleTimer) \in Off .. Throttle
      /\ Later(t.upper) = Off <=> t.upper = Off
      /\ Later(t.syncTimer) = Off <=> t.syncTimer = Off
      /\ Later(t.titleTimer) = Off <=> t.titleTimer = Off
  <2>1. /\ t.lower \in Off .. Lower /\ t.upper \in Off .. Upper
        /\ t.syncTimer \in Off .. SyncTime /\ t.titleTimer \in Off .. Throttle
    BY <1>2 DEF Terminal
  <2>. QED
    BY <1>3, <2>1, Constants DEF Off
<1>5. age \in 0 .. Throttle
  BY <1>2, Constants DEF Terminal
<1>6. t.armed => Later(t.upper) = t.upper - 1 /\ t.upper \in 1 .. Upper
  BY <1>2, <1>3, Constants DEF Flags, Terminal, Off
<1>. HIDE DEF Later, age
<1>7. t' \in Terminal
  BY <1>1, <1>2, <1>4, <1>5 DEF Terminal
<1>8. /\ t'.upper = Later(t.upper) /\ t'.syncTimer = Later(t.syncTimer)
      /\ t'.titleTimer = Later(t.titleTimer)
      /\ t'.stale = t.stale /\ t'.refresh = t.refresh /\ t'.pending = t.pending
      /\ t'.sync = t.sync /\ t'.inFlight = t.inFlight /\ t'.armed = t.armed
      /\ t'.title = t.title
  BY <1>1, <1>2 DEF Terminal
<1>9. Flags(t') /\ Driven(t') /\ Held(t')
  BY <1>2, <1>4, <1>8 DEF TInv, Flags, Driven, Held
<1>10. Loop'
  BY <1>1, <1>8 DEF TInv, Loop
<1>11. waited' \in Nat
  BY <1>1, <1>2
<1>12. Waits'
  <2>1. CASE t.stale /\ ~t.inFlight /\ ~t.sync
    <3>1. t.armed
      BY <1>1, <1>2, <2>1 DEF TInv, Driven, Loop
    <3>2. waited + t.upper <= Upper
      BY <1>1, <1>2, <1>6, <3>1, Constants DEF TInv, Waits
    <3>3. waited' = waited + 1
      BY <1>1, <1>2, <2>1 DEF TInv, Waits
    <3>4. t'.armed /\ waited' + t'.upper <= Upper /\ waited' <= Upper
      BY <1>2, <1>6, <1>8, <3>1, <3>2, <3>3, Constants
    <3>. QED
      BY <1>8, <2>1, <3>4 DEF Waits
  <2>2. CASE ~(t.stale /\ ~t.inFlight /\ ~t.sync)
    <3>1. waited' = waited
      BY <1>1, <2>2
    <3>2. waited > 0 => t.armed /\ waited + t.upper <= Upper
      BY <1>1 DEF TInv, Waits
    <3>3. waited > 0 => t'.armed /\ waited + t'.upper <= Upper
      BY <1>2, <1>6, <1>8, <3>2, Constants
    <3>. QED
      BY <1>1, <1>8, <3>1, <3>3 DEF TInv, Waits
  <2>. QED
    BY <2>1, <2>2
<1>13. TypeOK'
  BY <1>1, <1>7, <1>11 DEF TInv, TypeOK
<1>. QED
  BY <1>9, <1>10, <1>12, <1>13 DEF TInv

LEMMA TimersStep == TInv /\ [Next]_vars => TInv'
<1>. SUFFICES ASSUME TInv, [Next]_vars PROVE TInv'
  OBVIOUS
<1>1. CASE UNCHANGED vars
  BY <1>1 DEF vars, TInv, TypeOK, Loop, Waits
<1>. QED
  BY <1>1, PtmxStep, DelayedStep, SyncTimeoutStep, TitleTimeoutStep, OtherStep, ResizeStep,
     FrameStep, HookStep, PollStep, TickStep DEF Next, Handle

\* Reading from the PTY never takes back that the grid has changed.
LEMMA PtmxStale ==
  ASSUME t \in Terminal, Flags(t), t.stale, NEW items \in Reads, FdmPtmx(items)
  PROVE  t'.stale
<1>1. ASSUME NEW s \in Terminal, s.stale, NEW item \in Items
      PROVE  Parsed(s, item).stale
  <2>1. item = "begin" => Parsed(s, item).stale
    BY <1>1 DEF Parsed, EnableAppSync, Terminal
  <2>2. item = "end" => Parsed(s, item).stale
    BY <1>1 DEF Parsed, DisableAppSync, Refresh, Terminal
  <2>3. item = "title" => Parsed(s, item).stale
    <3>. DEFINE w == [s EXCEPT !.title = FALSE]
    <3>1. w \in Terminal /\ w.stale
      BY <1>1 DEF Terminal
    <3>. HIDE DEF w
    <3>2. item = "title" => Parsed(s, item) = RefreshTitle(w)
      BY DEF Parsed, w
    <3>. QED
      BY <3>1, <3>2, TitleKeeps
  <2>4. item \in {"none", "text"} => Parsed(s, item).stale
    BY <1>1 DEF Parsed, Terminal
  <2>. QED
    BY <2>1, <2>2, <2>3, <2>4 DEF Items
<1>. DEFINE u == Parsed(t, items[1])  v == Parsed(u, items[2])
<1>2. items[1] \in Items /\ items[2] \in Items
  BY DEF Reads, Items
<1>3. u \in Terminal /\ Flags(u) /\ u.stale
  BY <1>1, <1>2, ParsedKeeps DEF Leaves
<1>. HIDE DEF u
<1>4. v \in Terminal /\ v.stale
  BY <1>1, <1>2, <1>3, ParsedKeeps DEF Leaves
<1>5. t' = ArmDelayed(v)
  BY DEF FdmPtmx, u
<1>. HIDE DEF v
<1>. QED
  BY <1>4, <1>5 DEF ArmDelayed, Refresh, Terminal

(***************************************************************************)
(* Theorems                                                                *)
(***************************************************************************)

\* TInv is an invariant, for any delays, kinds of overlays and updates.
THEOREM Invariance == Spec => []TInv
<1>. QED
  BY TimersInit, TimersStep, PTL DEF Spec

\* However often output starts the first timer again, and whatever updates and
\* frames come in between, output that could be drawn waits no longer than the
\* second timer takes.
THEOREM DelayBounded == Spec => []DelayIsBounded
<1>1. TInv => DelayIsBounded
  BY DEF TInv, Waits, DelayIsBounded
<1>. QED
  BY <1>1, Invariance, PTL

\* What is still to be shown always has something that will show it.
THEOREM NothingIsForgotten == Spec => []StaleIsDriven
<1>1. TInv => StaleIsDriven
  BY DEF TInv, Flags, Driven, StaleIsDriven
<1>. QED
  BY <1>1, Invariance, PTL

\* While the application updates the screen nothing draws the grid that does not
\* have to draw something else.
THEOREM UpdatesHeld == Spec => UpdatesAreHeld
<1>1. ASSUME TInv, [Next]_vars, t.sync, t'.sync, t.stale, ~t'.stale
      PROVE  (t.refresh \cup t.pending) \cap Overlays # {}
  <2>1. t \in Terminal /\ Held(t)
    BY <1>1 DEF TInv, TypeOK
  <2>2. CASE FrameCallback
    <3>1. "grid" \in t.pending \/ t.pending \cap Overlays # {}
      <4>1. CASE ~("grid" \in t.pending \/ t.pending \cap Overlays # {})
        <5>1. t' = [t EXCEPT !.inFlight = FALSE, !.pending = {}]
          BY <2>2, <4>1 DEF FrameCallback
        <5>. QED
          BY <1>1, <2>1, <5>1 DEF Terminal
      <4>. QED BY <4>1
    <3>. QED
      BY <1>1, <2>1, <3>1 DEF Held
  <2>3. CASE FdmHook
    <3>1. t' # t
      BY <1>1
    <3>. QED
      BY <1>1, <2>3, <3>1 DEF FdmHook
  <2>4. ASSUME NEW items \in Reads, FdmPtmx(items) PROVE FALSE
    BY <1>1, <2>1, <2>4, PtmxStale DEF TInv
  <2>5. ASSUME NEW name \in {"lower", "upper"}, FdmDelayedRender(name) PROVE FALSE
    BY <1>1, <2>1, <2>5 DEF FdmDelayedRender, Refresh, Terminal
  <2>6. CASE FdmAppSyncTimeout
    BY <1>1, <2>1, <2>6 DEF FdmAppSyncTimeout, DisableAppSync, Refresh, Fired, Terminal
  <2>7. CASE FdmTitleTimeout
    BY <1>1, <2>1, <2>7 DEF FdmTitleTimeout, RefreshTitle, Refresh, Fired, Terminal
  <2>8. CASE Other
    BY <1>1, <2>1, <2>8 DEF Other, Refresh, Terminal
  <2>9. CASE RenderResize
    <3>1. DisableAppSync(t) \in Terminal
      BY <2>1, EndKeeps
    <3>2. t'.stale = TRUE
      BY <2>9, <3>1 DEF RenderResize, Refresh, Terminal
    <3>. QED
      BY <1>1, <3>2
  <2>10. CASE Poll \/ UNCHANGED vars
    BY <1>1, <2>10 DEF Poll, vars
  <2>11. CASE Tick
    BY <1>1, <2>1, <2>11 DEF Tick, Terminal
  <2>. QED
    BY <1>1, <2>2, <2>3, <2>4, <2>5, <2>6, <2>7, <2>8, <2>9, <2>10, <2>11 DEF Next, Handle
<1>2. TInv /\ [Next]_vars
      => [t.sync /\ t'.sync /\ t.stale /\ ~t'.stale
          => (t.refresh \cup t.pending) \cap Overlays # {}]_vars
  BY <1>1
<1>. QED
  BY <1>2, Invariance, PTL DEF Spec, UpdatesAreHeld

=============================================================================
