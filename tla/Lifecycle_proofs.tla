--------------------------- MODULE Lifecycle_proofs --------------------------
(***************************************************************************)
(* Proofs about Lifecycle, for any number of terminals and windows; and,   *)
(* in the second half, about Server, for any clients as well: what the     *)
(* server does with its terminals is Lifecycle, so the invariant that is   *)
(* shown first holds there too; with it, that an instance lives exactly as *)
(* long as its terminal, from which the rest follows.                      *)
(***************************************************************************)
EXTENDS Server, TLAPS

(***************************************************************************)
(* Lifecycle                                                               *)
(***************************************************************************)

\* A step that starts a terminal in a window of its own keeps the invariant.
LEMMA OpenWindowKeeps ==
    ASSUME IInv, NEW t0 \in Terms, NEW w0 \in Windows,
           OpenWindow(t0, w0), UNCHANGED <<at, cur>>, batch' \in SUBSET Handlers
    PROVE  IInv'
<1> USE NullAssumption DEF IInv, TypeOK, OpenWindow, StartTerm
<1>1. TypeOK'
  OBVIOUS
<1>2. ASSUME NEW t \in Terms PROVE StageInv(t)' /\ SlaveInv(t)' /\ EventInv(t)'
  BY DEF StageInv, SlaveInv, EventInv, WindowInv
<1>3. ASSUME NEW w \in Windows PROVE WindowInv(w)'
  BY DEF WindowInv, StageInv
<1>4. LoopInv'
  BY DEF LoopInv
<1>5. FocusIsActiveTab'
  BY DEF FocusIsActiveTab, WindowInv
<1> QED BY <1>1, <1>2, <1>3, <1>4, <1>5

LEMMA OpenTabKeeps ==
    ASSUME ~TabsOntoDying, IInv, NEW t0 \in Terms, NEW w0 \in Windows,
           OpenTab(t0, w0), UNCHANGED <<at, cur>>, batch' \in SUBSET Handlers
    PROVE  IInv'
<1> USE NullAssumption DEF IInv, TypeOK, OpenTab, StartTerm
<1>1. TypeOK'
  OBVIOUS
<1>2. ASSUME NEW t \in Terms PROVE StageInv(t)' /\ SlaveInv(t)' /\ EventInv(t)'
  BY DEF StageInv, SlaveInv, EventInv, WindowInv
<1>3. ASSUME NEW w \in Windows PROVE WindowInv(w)'
  BY DEF WindowInv, StageInv
<1>4. LoopInv'
  BY DEF LoopInv
<1>5. FocusIsActiveTab'
  BY DEF FocusIsActiveTab, WindowInv
<1> QED BY <1>1, <1>2, <1>3, <1>4, <1>5

\* term_shutdown() of some or all tabs of a window keeps it.
LEMMA ShutDownKeeps ==
    ASSUME IInv, NEW w0 \in Windows, NEW S \in SUBSET tabs[w0],
           ShutDown(w0, S), at # "signal", at' # "unmap" \/ UNCHANGED <<at, cur>>,
           at' \in {"dispatch", "wayland", "pty", "unmap"},
           at' = "pty" => UNCHANGED <<at, cur>>,
           at = "unmap" => UNCHANGED <<at, cur>>,
           cur' \in Terms \cup {NoTerm}, batch' \in SUBSET Handlers
    PROVE  IInv'
<1> DEFINE new == {t \in S : ~closing[t]}
           D == Detached(w0, new)
<1> USE NullAssumption DEF IInv, TypeOK
<1>0. /\ BeginShutdown(w0, new) /\ TerminateSlaves(new)
      /\ new \subseteq tabs[w0] /\ new \subseteq Terms
      /\ \A t \in new : heap[t] = "live" /\ win[t] = w0 /\ ~closing[t]
  BY DEF ShutDown, WindowInv, StageInv
<1>a. /\ D \subseteq new
      /\ tabs[w0] \ D # {}
      /\ \A t \in new \ D : tabs[w0] \ D = {t}
  BY <1>0 DEF WindowInv, Detached, ShutDown
<1>1. TypeOK'
  BY <1>0, <1>a DEF BeginShutdown, TerminateSlaves
<1> HIDE DEF D, new
<1>b. PICK a \in tabs[w0] :
        /\ IF active[w0] \in D THEN a \notin D ELSE a = active[w0]
        /\ active' = [active EXCEPT ![w0] = a]
        /\ kbd' = IF kbd = active[w0] THEN a ELSE kbd
  BY <1>0 DEF BeginShutdown, D
<1>c. /\ closing' = [t \in Terms |-> closing[t] \/ t \in new]
      /\ ptmx' = [t \in Terms |-> IF t \in new THEN "closed" ELSE ptmx[t]]
      /\ evfd' = evfd \cup new
      /\ win' = [t \in Terms |-> IF t \in D THEN NoWin ELSE win[t]]
      /\ tabs' = [tabs EXCEPT ![w0] = @ \ D]
      /\ UNCHANGED <<heap, wst>>
  BY <1>0 DEF BeginShutdown, D
<1>2. ASSUME NEW t \in Terms PROVE StageInv(t)' /\ SlaveInv(t)' /\ EventInv(t)'
  <2>1. StageInv(t)'
    BY <1>0, <1>a, <1>c DEF StageInv, TerminateSlaves
  <2>2. SlaveInv(t)'
    BY <1>0, <1>a, <1>c DEF StageInv, SlaveInv, TerminateSlaves
  <2>3. EventInv(t)'
    <3>1. EventInv(t)!1'
      BY <1>0, <1>a, <1>c DEF EventInv, StageInv
    <3>2. EventInv(t)!2'
      BY <1>0, <1>a, <1>c DEF EventInv, TerminateSlaves
    <3>3. EventInv(t)!3'
      OBVIOUS
    <3>4. EventInv(t)!4'
      <4>1. CASE t \in new
        BY <4>1, <1>0, <1>a, <1>c
      <4>2. CASE t \notin new
        BY <4>2, <1>0, <1>a, <1>c DEF EventInv, WindowInv
      <4> QED BY <4>1, <4>2
    <3> QED BY <3>1, <3>2, <3>3, <3>4 DEF EventInv
  <2> QED BY <2>1, <2>2, <2>3
<1>3. ASSUME NEW w \in Windows PROVE WindowInv(w)'
  BY <1>0, <1>a, <1>b, <1>c DEF WindowInv
<1>4. LoopInv'
  BY <1>0, <1>a, <1>c DEF LoopInv
<1>5. FocusIsActiveTab'
  <2>1. a \notin D /\ win[a] = w0 /\ heap[a] = "live"
    BY <1>a, <1>b DEF WindowInv, StageInv
  <2>2. CASE kbd = active[w0]
    BY <1>a, <1>b, <1>c, <2>1, <2>2 DEF FocusIsActiveTab, WindowInv
  <2>3. CASE kbd # active[w0]
    BY <1>0, <1>a, <1>b, <1>c, <2>3 DEF FocusIsActiveTab, WindowInv
  <2> QED BY <2>2, <2>3
<1> QED BY <1>1, <1>2, <1>3, <1>4, <1>5

\* fdm_client_terminated() on a terminal that was not shutting down, which
\* then begins its shutdown from within fdm_reap().
LEMMA ReapBeginsKeeps ==
    ASSUME IInv, NEW t0 \in Terms, Reap(t0), ~closing[t0], t0 \notin Holding
    PROVE  IInv'
<1> DEFINE w0 == win[t0]
           D == Detached(w0, {t0})
<1> USE NullAssumption DEF IInv, TypeOK
<1>0. /\ w0 \in Windows /\ heap[t0] = "live" /\ t0 \in tabs[w0]
      /\ at = "signal" /\ child[t0] = "zombie" /\ t0 \notin evfd
      /\ child' = [child EXCEPT ![t0] = "gone"]
      /\ reaped' = [reaped EXCEPT ![t0] = TRUE]
      /\ timer' = [timer EXCEPT ![t0] = "off"]
      /\ BeginShutdown(w0, {t0}) /\ UNCHANGED loopVars
  BY DEF Reap, StageInv, SlaveInv, EventInv, WindowInv
<1>a. /\ D \subseteq {t0}
      /\ tabs[w0] \ D # {}
      /\ D = {} => tabs[w0] = {t0}
  <2>1. active[w0] \in tabs[w0]
    BY <1>0 DEF WindowInv
  <2>2. CASE tabs[w0] \subseteq {t0}
    BY <1>0, <2>1, <2>2 DEF Detached
  <2>3. CASE ~(tabs[w0] \subseteq {t0})
    BY <1>0, <2>3 DEF Detached
  <2> QED BY <2>2, <2>3
<1> HIDE DEF D, w0
<1>b. PICK a \in tabs[w0] :
        /\ IF active[w0] \in D THEN a \notin D ELSE a = active[w0]
        /\ active' = [active EXCEPT ![w0] = a]
        /\ kbd' = IF kbd = active[w0] THEN a ELSE kbd
  BY <1>0 DEF BeginShutdown, D
<1>c. /\ closing' = [t \in Terms |-> closing[t] \/ t \in {t0}]
      /\ ptmx' = [t \in Terms |-> IF t \in {t0} THEN "closed" ELSE ptmx[t]]
      /\ evfd' = evfd \cup {t0}
      /\ win' = [t \in Terms |-> IF t \in D THEN NoWin ELSE win[t]]
      /\ tabs' = [tabs EXCEPT ![w0] = @ \ D]
      /\ UNCHANGED <<heap, wst, at, cur, batch>>
  BY <1>0 DEF BeginShutdown, D, loopVars
<1>1. TypeOK'
  BY <1>0, <1>a, <1>b, <1>c
<1>2. ASSUME NEW t \in Terms PROVE StageInv(t)' /\ SlaveInv(t)' /\ EventInv(t)'
  <2>1. StageInv(t)'
    <3>1. CASE t = t0
      BY <3>1, <1>0, <1>a, <1>c DEF StageInv
    <3>2. CASE t # t0
      BY <3>2, <1>0, <1>a, <1>c DEF StageInv
    <3> QED BY <3>1, <3>2
  <2>2. SlaveInv(t)'
    BY <1>0, <1>a, <1>c DEF StageInv, SlaveInv
  <2>3. EventInv(t)'
    <3>1. EventInv(t)!1'
      BY <1>0, <1>a, <1>c DEF EventInv, StageInv
    <3>2. EventInv(t)!2'
      BY <1>0, <1>a, <1>c DEF EventInv
    <3>3. EventInv(t)!3'
      BY <1>0, <1>c DEF EventInv
    <3>4. EventInv(t)!4'
      <4>1. CASE t = t0
        BY <4>1, <1>0, <1>a, <1>c DEF w0
      <4>2. CASE t # t0
        BY <4>2, <1>0, <1>a, <1>c DEF EventInv, WindowInv
      <4> QED BY <4>1, <4>2
    <3> QED BY <3>1, <3>2, <3>3, <3>4 DEF EventInv
  <2> QED BY <2>1, <2>2, <2>3
<1>3. ASSUME NEW w \in Windows PROVE WindowInv(w)'
  BY <1>0, <1>a, <1>b, <1>c DEF WindowInv, w0
<1>4. LoopInv'
  BY <1>0, <1>c DEF LoopInv
<1>5. FocusIsActiveTab'
  <2>1. a \notin D /\ win[a] = w0 /\ heap[a] = "live"
    BY <1>0, <1>a, <1>b DEF WindowInv, StageInv
  <2>2. CASE kbd = active[w0]
    BY <1>0, <1>a, <1>b, <1>c, <2>1, <2>2 DEF FocusIsActiveTab, WindowInv
  <2>3. CASE kbd # active[w0]
    BY <1>0, <1>a, <1>b, <1>c, <2>3 DEF FocusIsActiveTab, WindowInv, w0
  <2> QED BY <2>2, <2>3
<1> QED BY <1>1, <1>2, <1>3, <1>4, <1>5

\* The other outcomes of fdm_client_terminated().
LEMMA ReapKeeps ==
    ASSUME IInv, NEW t0 \in Terms, Reap(t0)
    PROVE  IInv'
<1> USE NullAssumption DEF IInv, TypeOK, Reap, loopVars, winVars
<1>1. CASE ~closing[t0] /\ t0 \notin Holding
  BY <1>1, ReapBeginsKeeps
<1>2. CASE closing[t0] \/ t0 \in Holding
  <2> USE <1>2
  <2>1. TypeOK'
    OBVIOUS
  <2>2. ASSUME NEW t \in Terms PROVE StageInv(t)' /\ SlaveInv(t)' /\ EventInv(t)'
    BY DEF StageInv, SlaveInv, EventInv
  <2>3. ASSUME NEW w \in Windows PROVE WindowInv(w)'
    BY DEF WindowInv
  <2>4. LoopInv'
    BY DEF LoopInv
  <2>5. FocusIsActiveTab'
    BY DEF FocusIsActiveTab, StageInv
  <2> QED BY <2>1, <2>2, <2>3, <2>4, <2>5
<1> QED BY <1>1, <1>2

\* fdm_shutdown(), in its three parts.
LEMMA FdmShutdownKeeps ==
    ASSUME IInv, NEW t0 \in Terms, FdmShutdown(t0)
    PROVE  IInv'
<1> USE NullAssumption DEF IInv, TypeOK, Take, MaybeDone, winVars
<1>1. ASSUME FdmShutdownDetached(t0) PROVE IInv'
  <2> USE <1>1 DEF FdmShutdownDetached
  <2>1. TypeOK'
    OBVIOUS
  <2>2. ASSUME NEW t \in Terms PROVE StageInv(t)' /\ SlaveInv(t)' /\ EventInv(t)'
    BY DEF StageInv, SlaveInv, EventInv, LoopInv
  <2>3. ASSUME NEW w \in Windows PROVE WindowInv(w)'
    BY DEF WindowInv
  <2>4. LoopInv'
    BY DEF LoopInv
  <2>5. FocusIsActiveTab'
    BY DEF FocusIsActiveTab, WindowInv, StageInv
  <2> QED BY <2>1, <2>2, <2>3, <2>4, <2>5
<1>2. ASSUME FdmShutdownUnmap(t0) PROVE IInv'
  <2> USE <1>2 DEF FdmShutdownUnmap
  <2>1. TypeOK'
    OBVIOUS
  <2>2. ASSUME NEW t \in Terms PROVE StageInv(t)' /\ SlaveInv(t)' /\ EventInv(t)'
    BY DEF StageInv, SlaveInv, EventInv, LoopInv
  <2>3. ASSUME NEW w \in Windows PROVE WindowInv(w)'
    BY DEF WindowInv
  <2>4. LoopInv'
    BY DEF LoopInv, EventInv
  <2>5. FocusIsActiveTab'
    BY DEF FocusIsActiveTab, WindowInv, StageInv
  <2> QED BY <2>1, <2>2, <2>3, <2>4, <2>5
<1>3. ASSUME FdmShutdownDestroy(t0) PROVE IInv'
  <2> USE <1>3 DEF FdmShutdownDestroy
  <2>1. TypeOK'
    OBVIOUS
  <2>2. ASSUME NEW t \in Terms PROVE StageInv(t)' /\ SlaveInv(t)' /\ EventInv(t)'
    BY DEF StageInv, SlaveInv, EventInv, LoopInv, WindowInv
  <2>3. ASSUME NEW w \in Windows PROVE WindowInv(w)'
    BY DEF WindowInv, EventInv, LoopInv, StageInv
  <2>4. LoopInv'
    BY DEF LoopInv
  <2>5. FocusIsActiveTab'
    BY DEF FocusIsActiveTab, WindowInv, StageInv, EventInv, LoopInv
  <2> QED BY <2>1, <2>2, <2>3, <2>4, <2>5
<1> QED BY <1>1, <1>2, <1>3 DEF FdmShutdown

\* The other handlers and the loop itself.
LEMMA HandlerKeeps ==
    ASSUME IInv, NEW t0 \in Terms,
           TerminateTimeout(t0) \/ FdmPtmx(t0) \/ FdmPtmxReturn(t0)
           \/ ChildExits(t0)
    PROVE  IInv'
<1> USE NullAssumption DEF IInv, TypeOK, Take, winVars, termVars, loopVars
<1>1. ASSUME TerminateTimeout(t0) PROVE IInv'
  <2> USE <1>1 DEF TerminateTimeout
  <2>1. TypeOK'
    OBVIOUS
  <2>2. ASSUME NEW t \in Terms PROVE StageInv(t)' /\ SlaveInv(t)' /\ EventInv(t)'
    BY DEF StageInv, SlaveInv, EventInv, LoopInv
  <2>3. ASSUME NEW w \in Windows PROVE WindowInv(w)'
    BY DEF WindowInv
  <2>4. LoopInv'
    BY DEF LoopInv
  <2>5. FocusIsActiveTab'
    BY DEF FocusIsActiveTab, WindowInv, StageInv
  <2> QED BY <2>1, <2>2, <2>3, <2>4, <2>5
<1>2. ASSUME FdmPtmx(t0) PROVE IInv'
  <2> USE <1>2 DEF FdmPtmx
  <2>1. TypeOK'
    OBVIOUS
  <2>2. ASSUME NEW t \in Terms PROVE StageInv(t)' /\ SlaveInv(t)' /\ EventInv(t)'
    BY DEF StageInv, SlaveInv, EventInv, LoopInv
  <2>3. ASSUME NEW w \in Windows PROVE WindowInv(w)'
    BY DEF WindowInv
  <2>4. LoopInv'
    BY DEF LoopInv, StageInv
  <2>5. FocusIsActiveTab'
    BY DEF FocusIsActiveTab, WindowInv, StageInv
  <2> QED BY <2>1, <2>2, <2>3, <2>4, <2>5
<1>3. ASSUME FdmPtmxReturn(t0) PROVE IInv'
  <2> USE <1>3 DEF FdmPtmxReturn
  <2>1. TypeOK'
    OBVIOUS
  <2>2. ASSUME NEW t \in Terms PROVE StageInv(t)' /\ SlaveInv(t)' /\ EventInv(t)'
    BY DEF StageInv, SlaveInv, EventInv, LoopInv
  <2>3. ASSUME NEW w \in Windows PROVE WindowInv(w)'
    BY DEF WindowInv
  <2>4. LoopInv'
    BY DEF LoopInv
  <2>5. FocusIsActiveTab'
    BY DEF FocusIsActiveTab, WindowInv, StageInv
  <2> QED BY <2>1, <2>2, <2>3, <2>4, <2>5
<1>4. ASSUME ChildExits(t0) PROVE IInv'
  <2> USE <1>4 DEF ChildExits
  <2>1. TypeOK'
    OBVIOUS
  <2>2. ASSUME NEW t \in Terms PROVE StageInv(t)' /\ SlaveInv(t)' /\ EventInv(t)'
    BY DEF StageInv, SlaveInv, EventInv, LoopInv
  <2>3. ASSUME NEW w \in Windows PROVE WindowInv(w)'
    BY DEF WindowInv
  <2>4. LoopInv'
    BY DEF LoopInv
  <2>5. FocusIsActiveTab'
    BY DEF FocusIsActiveTab, WindowInv, StageInv
  <2> QED BY <2>1, <2>2, <2>3, <2>4, <2>5
<1> QED BY <1>1, <1>2, <1>3, <1>4

LEMMA LoopKeeps ==
    ASSUME IInv, Loop \/ FdmWayl \/ FdmWaylReturn
    PROVE  IInv'
<1> USE NullAssumption DEF IInv, TypeOK, Take, winVars, termVars, loopVars
<1>1. ASSUME Poll PROVE IInv'
  <2> USE <1>1 DEF Poll
  <2>1. TypeOK'
    OBVIOUS
  <2>2. ASSUME NEW t \in Terms PROVE StageInv(t)' /\ SlaveInv(t)' /\ EventInv(t)'
    BY DEF StageInv, SlaveInv, EventInv, LoopInv
  <2>3. ASSUME NEW w \in Windows PROVE WindowInv(w)'
    BY DEF WindowInv
  <2>4. LoopInv'
    BY DEF LoopInv
  <2>5. FocusIsActiveTab'
    BY DEF FocusIsActiveTab, WindowInv, StageInv
  <2> QED BY <2>1, <2>2, <2>3, <2>4, <2>5
<1>2. ASSUME DeliverSIGCHLD PROVE IInv'
  <2> USE <1>2 DEF DeliverSIGCHLD
  <2>1. TypeOK'
    OBVIOUS
  <2>2. ASSUME NEW t \in Terms PROVE StageInv(t)' /\ SlaveInv(t)' /\ EventInv(t)'
    BY DEF StageInv, SlaveInv, EventInv, LoopInv
  <2>3. ASSUME NEW w \in Windows PROVE WindowInv(w)'
    BY DEF WindowInv
  <2>4. LoopInv'
    BY DEF LoopInv
  <2>5. FocusIsActiveTab'
    BY DEF FocusIsActiveTab, WindowInv, StageInv
  <2> QED BY <2>1, <2>2, <2>3, <2>4, <2>5
<1>3. ASSUME ReapDone PROVE IInv'
  <2> USE <1>3 DEF ReapDone
  <2>1. TypeOK'
    OBVIOUS
  <2>2. ASSUME NEW t \in Terms PROVE StageInv(t)' /\ SlaveInv(t)' /\ EventInv(t)'
    BY DEF StageInv, SlaveInv, EventInv, LoopInv
  <2>3. ASSUME NEW w \in Windows PROVE WindowInv(w)'
    BY DEF WindowInv
  <2>4. LoopInv'
    BY DEF LoopInv
  <2>5. FocusIsActiveTab'
    BY DEF FocusIsActiveTab, WindowInv, StageInv
  <2> QED BY <2>1, <2>2, <2>3, <2>4, <2>5
<1>4. ASSUME BatchDone PROVE IInv'
  <2> USE <1>4 DEF BatchDone
  <2>1. TypeOK'
    OBVIOUS
  <2>2. ASSUME NEW t \in Terms PROVE StageInv(t)' /\ SlaveInv(t)' /\ EventInv(t)'
    BY DEF StageInv, SlaveInv, EventInv, LoopInv
  <2>3. ASSUME NEW w \in Windows PROVE WindowInv(w)'
    BY DEF WindowInv
  <2>4. LoopInv'
    BY DEF LoopInv
  <2>5. FocusIsActiveTab'
    BY DEF FocusIsActiveTab, WindowInv, StageInv
  <2> QED BY <2>1, <2>2, <2>3, <2>4, <2>5
<1>5. ASSUME SkipDeleted PROVE IInv'
  <2> USE <1>5 DEF SkipDeleted
  <2>1. TypeOK'
    OBVIOUS
  <2>2. ASSUME NEW t \in Terms PROVE StageInv(t)' /\ SlaveInv(t)' /\ EventInv(t)'
    BY DEF StageInv, SlaveInv, EventInv, LoopInv
  <2>3. ASSUME NEW w \in Windows PROVE WindowInv(w)'
    BY DEF WindowInv
  <2>4. LoopInv'
    BY DEF LoopInv
  <2>5. FocusIsActiveTab'
    BY DEF FocusIsActiveTab, WindowInv, StageInv
  <2> QED BY <2>1, <2>2, <2>3, <2>4, <2>5
<1>6. ASSUME FdmWayl PROVE IInv'
  <2> USE <1>6 DEF FdmWayl
  <2>1. TypeOK'
    OBVIOUS
  <2>2. ASSUME NEW t \in Terms PROVE StageInv(t)' /\ SlaveInv(t)' /\ EventInv(t)'
    BY DEF StageInv, SlaveInv, EventInv, LoopInv
  <2>3. ASSUME NEW w \in Windows PROVE WindowInv(w)'
    BY DEF WindowInv
  <2>4. LoopInv'
    BY DEF LoopInv
  <2>5. FocusIsActiveTab'
    BY DEF FocusIsActiveTab, WindowInv, StageInv
  <2> QED BY <2>1, <2>2, <2>3, <2>4, <2>5
<1>7. ASSUME FdmWaylReturn PROVE IInv'
  <2> USE <1>7 DEF FdmWaylReturn
  <2>1. TypeOK'
    OBVIOUS
  <2>2. ASSUME NEW t \in Terms PROVE StageInv(t)' /\ SlaveInv(t)' /\ EventInv(t)'
    BY DEF StageInv, SlaveInv, EventInv, LoopInv
  <2>3. ASSUME NEW w \in Windows PROVE WindowInv(w)'
    BY DEF WindowInv
  <2>4. LoopInv'
    BY DEF LoopInv
  <2>5. FocusIsActiveTab'
    BY DEF FocusIsActiveTab, WindowInv, StageInv
  <2> QED BY <2>1, <2>2, <2>3, <2>4, <2>5
<1> QED BY <1>1, <1>2, <1>3, <1>4, <1>5, <1>6, <1>7 DEF Loop

\* What the user and the compositor do.
LEMMA CompositorKeeps ==
    ASSUME ~TabsOntoDying, IInv, NEW w0 \in Windows, Compositor(w0) \/ KeyboardLeave
    PROVE  IInv'
<1> USE NullAssumption DEF IInv, TypeOK, winVars, termVars, loopVars, Dispatching
<1>1. ASSUME TabNew(w0) PROVE IInv'
  BY <1>1, OpenTabKeeps DEF TabNew
<1>2. ASSUME FirstConfigure(w0) PROVE IInv'
  <2> USE <1>2 DEF FirstConfigure, Configure
  <2>1. TypeOK'
    OBVIOUS
  <2>2. ASSUME NEW t \in Terms PROVE StageInv(t)' /\ SlaveInv(t)' /\ EventInv(t)'
    BY DEF StageInv, SlaveInv, EventInv, LoopInv, WindowInv
  <2>3. ASSUME NEW w \in Windows PROVE WindowInv(w)'
    BY DEF WindowInv
  <2>4. LoopInv'
    BY DEF LoopInv
  <2>5. FocusIsActiveTab'
    BY DEF FocusIsActiveTab, WindowInv, StageInv
  <2> QED BY <2>1, <2>2, <2>3, <2>4, <2>5
<1>3. ASSUME CloseWindow(w0) PROVE IInv'
  BY <1>3, ShutDownKeeps DEF CloseWindow
<1>4. ASSUME NEW t0 \in Terms, CloseTab(w0, t0) PROVE IInv'
  BY <1>4, ShutDownKeeps DEF CloseTab
<1>5. ASSUME KeyboardEnter(w0) PROVE IInv'
  <2> USE <1>5 DEF KeyboardEnter
  <2>1. TypeOK'
    OBVIOUS
  <2>2. ASSUME NEW t \in Terms PROVE StageInv(t)' /\ SlaveInv(t)' /\ EventInv(t)'
    BY DEF StageInv, SlaveInv, EventInv, LoopInv
  <2>3. ASSUME NEW w \in Windows PROVE WindowInv(w)'
    BY DEF WindowInv
  <2>4. LoopInv'
    BY DEF LoopInv
  <2>5. FocusIsActiveTab'
    BY DEF FocusIsActiveTab, WindowInv, StageInv
  <2> QED BY <2>1, <2>2, <2>3, <2>4, <2>5
<1>6. ASSUME KeyboardLeave PROVE IInv'
  <2> USE <1>6 DEF KeyboardLeave
  <2>1. TypeOK'
    OBVIOUS
  <2>2. ASSUME NEW t \in Terms PROVE StageInv(t)' /\ SlaveInv(t)' /\ EventInv(t)'
    BY DEF StageInv, SlaveInv, EventInv, LoopInv
  <2>3. ASSUME NEW w \in Windows PROVE WindowInv(w)'
    BY DEF WindowInv
  <2>4. LoopInv'
    BY DEF LoopInv
  <2>5. FocusIsActiveTab'
    BY DEF FocusIsActiveTab, WindowInv, StageInv
  <2> QED BY <2>1, <2>2, <2>3, <2>4, <2>5
<1>7. ASSUME NEW t0 \in Terms, TabSwitch(w0, t0) PROVE IInv'
  <2> USE <1>7 DEF TabSwitch
  <2>1. TypeOK'
    OBVIOUS
  <2>2. ASSUME NEW t \in Terms PROVE StageInv(t)' /\ SlaveInv(t)' /\ EventInv(t)'
    BY DEF StageInv, SlaveInv, EventInv, LoopInv
  <2>3. ASSUME NEW w \in Windows PROVE WindowInv(w)'
    BY DEF WindowInv
  <2>4. LoopInv'
    BY DEF LoopInv
  <2>5. FocusIsActiveTab'
    BY DEF FocusIsActiveTab, WindowInv, StageInv
  <2> QED BY <2>1, <2>2, <2>3, <2>4, <2>5
<1> QED BY <1>1, <1>2, <1>3, <1>4, <1>5, <1>6, <1>7 DEF Compositor

LEMMA PtmxHupKeeps ==
    ASSUME IInv, NEW t0 \in Terms, FdmPtmxHup(t0)
    PROVE  IInv'
<1> USE NullAssumption DEF IInv, TypeOK, FdmPtmxHup
<1>1. CASE t0 \in NoChild /\ t0 \notin Holding
  <2>1. win[t0] \in Windows /\ t0 \in tabs[win[t0]]
    BY DEF StageInv, WindowInv
  <2> QED BY <1>1, <2>1, ShutDownKeeps
<1>2. CASE ~(t0 \in NoChild /\ t0 \notin Holding)
  <2> USE <1>2 DEF winVars
  <2>1. TypeOK'
    OBVIOUS
  <2>2. ASSUME NEW t \in Terms PROVE StageInv(t)' /\ SlaveInv(t)' /\ EventInv(t)'
    BY DEF StageInv, SlaveInv, EventInv, LoopInv
  <2>3. ASSUME NEW w \in Windows PROVE WindowInv(w)'
    BY DEF WindowInv
  <2>4. LoopInv'
    BY DEF LoopInv
  <2>5. FocusIsActiveTab'
    BY DEF FocusIsActiveTab
  <2> QED BY <2>1, <2>2, <2>3, <2>4, <2>5
<1> QED BY <1>1, <1>2

\* term_destroy() of a terminal whose window is gone, slave or no slave.
LEMMA DestroyNowKeeps ==
    ASSUME ~DestroyEarly, IInv, NEW t0 \in Terms, DestroyNow(t0),
           at = "dispatch", UNCHANGED <<at, cur>>, batch' \in SUBSET Handlers
    PROVE  IInv'
<1> USE NullAssumption DEF IInv, TypeOK
<1>1. /\ heap[t0] = "live" /\ closing[t0] /\ t0 \notin evfd
      /\ win[t0] = NoWin
      /\ heap' = [heap EXCEPT ![t0] = "freed"]
      /\ timer' = [timer EXCEPT ![t0] = "off"]
      /\ child' = [child EXCEPT ![t0] = IF @ = "none" THEN @ ELSE "gone"]
      /\ reaped' = [reaped EXCEPT ![t0] = TRUE]
      /\ wst' = wst /\ tabs' = tabs /\ win' = win
      /\ UNCHANGED <<closing, ptmx, evfd, active, kbd>>
  BY DEF DestroyNow, EventInv
<1>2. TypeOK'
  BY <1>1
<1>3. ASSUME NEW t \in Terms PROVE StageInv(t)' /\ SlaveInv(t)' /\ EventInv(t)'
  BY <1>1 DEF StageInv, SlaveInv, EventInv
<1>4. ASSUME NEW w \in Windows PROVE WindowInv(w)'
  BY <1>1 DEF WindowInv
<1>5. LoopInv' /\ FocusIsActiveTab'
  BY <1>1 DEF LoopInv, FocusIsActiveTab
<1> QED BY <1>2, <1>3, <1>4, <1>5

LEMMA ClientKeeps ==
    ASSUME ~TabsOntoDying, ~DestroyEarly, IInv, FdmClient
    PROVE  IInv'
<1>1. batch' \in SUBSET Handlers /\ UNCHANGED <<at, cur>> /\ at = "dispatch"
  BY DEF FdmClient, Take, IInv, TypeOK
<1>2. ASSUME NEW t \in Terms, NEW w \in Windows, OpenWindow(t, w) \/ OpenTab(t, w)
      PROVE  IInv'
  BY <1>1, <1>2, OpenWindowKeeps, OpenTabKeeps
<1>3. ASSUME NEW w \in Windows, NEW t \in tabs[w], ShutDown(w, {t})
      PROVE  IInv'
  <2>1. cur' \in Terms \cup {NoTerm}
    BY <1>1 DEF IInv, TypeOK
  <2> QED BY <1>1, <1>3, <2>1, ShutDownKeeps
<1>4. ASSUME UNCHANGED <<termVars, winVars>>
      PROVE  IInv'
  BY <1>1, <1>4 DEF termVars, winVars, IInv, TypeOK, StageInv, SlaveInv, EventInv,
                    WindowInv, LoopInv, FocusIsActiveTab
<1>5. ASSUME NEW t \in Terms, DestroyNow(t)
      PROVE  IInv'
  BY <1>1, <1>5, DestroyNowKeeps
<1> QED BY <1>2, <1>3, <1>4, <1>5 DEF FdmClient

\* The invariant holds initially, and every step keeps it.
LEMMA InitIInv == Init => IInv
<1> SUFFICES ASSUME Init PROVE IInv
  OBVIOUS
<1> USE NullAssumption DEF Init
<1>1. TypeOK
  BY DEF TypeOK
<1>2. ASSUME NEW t \in Terms PROVE StageInv(t) /\ SlaveInv(t) /\ EventInv(t)
  BY DEF StageInv, SlaveInv, EventInv
<1>3. ASSUME NEW w \in Windows PROVE WindowInv(w)
  BY DEF WindowInv
<1>4. LoopInv /\ FocusIsActiveTab
  BY DEF LoopInv, FocusIsActiveTab
<1> QED BY <1>1, <1>2, <1>3, <1>4 DEF IInv

LEMMA NextIInv ==
    ASSUME ~TabsOntoDying, ~DestroyEarly, IInv, [Next]_vars
    PROVE  IInv'
<1>1. CASE UNCHANGED vars
  BY <1>1 DEF vars, termVars, winVars, loopVars, IInv, TypeOK, StageInv, SlaveInv,
              EventInv, WindowInv, LoopInv, FocusIsActiveTab
<1>2. CASE Loop \/ FdmWayl \/ FdmWaylReturn
  BY <1>2, LoopKeeps
<1>3. CASE FdmClient
  BY <1>3, ClientKeeps
<1>4. CASE KeyboardLeave
  <2>1. CASE \E w \in Windows : TRUE
    BY <1>4, <2>1, CompositorKeeps
  <2>2. CASE ~ \E w \in Windows : TRUE
    BY <1>4, <2>2 DEF KeyboardLeave, FocusIsActiveTab, IInv, TypeOK
  <2> QED BY <2>1, <2>2
<1>5. ASSUME NEW t \in Terms,
             Reap(t) \/ FdmShutdown(t) \/ TerminateTimeout(t) \/ Ptmx(t) \/ ChildExits(t)
      PROVE  IInv'
  BY <1>5, ReapKeeps, FdmShutdownKeeps, HandlerKeeps, PtmxHupKeeps DEF Ptmx
<1>6. ASSUME NEW w \in Windows, Compositor(w)
      PROVE  IInv'
  BY <1>6, CompositorKeeps
<1> QED BY <1>1, <1>2, <1>3, <1>4, <1>5, <1>6 DEF Next, Core

\* Whatever the number of terminals, windows and tabs: the invariant of the
\* shutdown logic holds, as long as no tab is opened on a dying window.
THEOREM Invariance ==
    ASSUME ~TabsOntoDying, ~DestroyEarly
    PROVE  Spec => []IInv
<1>1. Init => IInv
  BY InitIInv
<1>2. IInv /\ [Next]_vars => IInv'
  BY NextIInv
<1> QED BY <1>1, <1>2, PTL DEF Spec

\* No handler, timer or child callback outlives its terminal: no use of a
\* freed struct terminal (terminal.c, reaper.c).
THEOREM NoCallbackOnFreed ==
    ASSUME ~TabsOntoDying, ~DestroyEarly
    PROVE  Spec => []CallbacksHaveTerminal
<1>1. IInv => CallbacksHaveTerminal
  BY NullAssumption DEF IInv, TypeOK, CallbacksHaveTerminal, HasCallback, StageInv, SlaveInv, EventInv,
            LoopInv
<1> QED BY <1>1, Invariance, PTL

\* Tab lists, window pointers and window lifetimes agree (tab.c, wayland.c).
THEOREM WindowsAndTabs ==
    ASSUME ~TabsOntoDying, ~DestroyEarly
    PROVE  Spec => []WindowsAndTabsAgree
<1>1. IInv => WindowsAndTabsAgree
  BY DEF IInv, WindowsAndTabsAgree, WindowInv
<1> QED BY <1>1, Invariance, PTL

\* A shutdown that has begun is never stuck for want of an event.
THEOREM ShutdownDriven ==
    ASSUME ~TabsOntoDying, ~DestroyEarly
    PROVE  Spec => []ShutdownIsDriven
<1>1. IInv => ShutdownIsDriven
  BY DEF IInv, TypeOK, ShutdownIsDriven, SlaveInv, EventInv
<1> QED BY <1>1, Invariance, PTL

\* The escalation timer of a reaped slave is always gone.
THEOREM NoSignal ==
    ASSUME ~TabsOntoDying, ~DestroyEarly
    PROVE  Spec => []NoSignalAfterReap
<1>1. IInv => NoSignalAfterReap
  BY DEF IInv, TypeOK, NoSignalAfterReap, SlaveInv
<1> QED BY <1>1, Invariance, PTL

\* The keyboard focus is never a detached or freed terminal.
THEOREM Focus ==
    ASSUME ~TabsOntoDying, ~DestroyEarly
    PROVE  Spec => []FocusIsActiveTab
<1>1. IInv => FocusIsActiveTab
  BY DEF IInv
<1> QED BY <1>1, Invariance, PTL

\* What term_destroy() finds, whichever handler called it: an instance that is
\* shutting down, without a window and without a client.
LEMMA DestroyedWhenDone ==
    ASSUME ~DestroyEarly, IInv, [Next]_vars,
           NEW t \in Terms, heap'[t] = "freed", heap[t] # "freed"
    PROVE  /\ heap[t] = "live" /\ closing[t]
           /\ win'[t] = NoWin
           /\ child'[t] \in {"gone", "none"}
<1> DEFINE Ok(x) == /\ heap[x] = "live" /\ closing[x]
                    /\ win'[x] = NoWin
                    /\ child'[x] \in {"gone", "none"}
<1> SUFFICES Ok(t)
  OBVIOUS
<1> USE DEF IInv, TypeOK
<1>1. ASSUME NEW u \in Terms, Reap(u) PROVE Ok(t)
  <2>1. CASE ~closing[u] /\ u \notin Holding
    BY <1>1, <2>1 DEF Reap, BeginShutdown
  <2>2. CASE closing[u] \/ u \in Holding
    BY <1>1, <2>2 DEF Reap, winVars, SlaveInv
  <2> QED BY <2>1, <2>2
<1>2. ASSUME NEW u \in Terms, FdmShutdown(u) PROVE Ok(t)
  BY <1>2 DEF FdmShutdown, FdmShutdownDetached, FdmShutdownUnmap, FdmShutdownDestroy,
              MaybeDone, EventInv, SlaveInv, LoopInv
<1>3. ASSUME NEW u \in Terms, NEW w \in Windows, OpenWindow(u, w) \/ OpenTab(u, w)
      PROVE  Ok(t)
  BY <1>3 DEF OpenWindow, OpenTab, StartTerm
<1>4. ASSUME NEW w \in Windows, NEW S \in SUBSET Terms, ShutDown(w, S)
      PROVE  Ok(t)
  BY <1>4 DEF ShutDown, BeginShutdown
<1>5. CASE UNCHANGED heap
  BY <1>5
<1>6. CASE Loop \/ FdmWayl \/ FdmWaylReturn \/ KeyboardLeave \/ UNCHANGED vars
  BY <1>5, <1>6 DEF Loop, Poll, DeliverSIGCHLD, ReapDone, BatchDone, SkipDeleted,
          FdmWayl, FdmWaylReturn, KeyboardLeave, vars, termVars
<1>7. CASE FdmClient
  <2>1. ASSUME NEW w \in Windows, NEW u \in tabs[w], ShutDown(w, {u}) PROVE Ok(t)
    BY <1>4, <2>1
  <2>2. CASE UNCHANGED <<termVars, winVars>>
    BY <2>2, <1>5 DEF termVars
  <2>3. ASSUME NEW u \in Terms, DestroyNow(u) PROVE Ok(t)
    BY <1>7, <2>3 DEF DestroyNow, EventInv, SlaveInv, StageInv, FdmClient, Take
  <2> QED BY <1>3, <1>7, <2>1, <2>2, <2>3 DEF FdmClient
<1>8. ASSUME NEW u \in Terms, TerminateTimeout(u) \/ Ptmx(u) \/ ChildExits(u)
      PROVE  Ok(t)
  <2>1. CASE FdmPtmxHup(u)
    <3>1. CASE ShutDown(win[u], {u})
      BY <3>1 DEF ShutDown, BeginShutdown
    <3>2. CASE ~ShutDown(win[u], {u})
      BY <2>1, <3>2, <1>5 DEF FdmPtmxHup
    <3> QED BY <3>1, <3>2
  <2>2. CASE TerminateTimeout(u) \/ FdmPtmx(u) \/ FdmPtmxReturn(u) \/ ChildExits(u)
    BY <2>2, <1>5 DEF TerminateTimeout, FdmPtmx, FdmPtmxReturn, ChildExits, termVars
  <2> QED BY <1>8, <2>1, <2>2 DEF Ptmx
<1>9. ASSUME NEW w \in Windows, Compositor(w) PROVE Ok(t)
  <2>1. CASE TabNew(w)
    BY <2>1, <1>3 DEF TabNew
  <2>2. CASE CloseWindow(w) \/ \E u \in Terms : CloseTab(w, u)
    BY <2>2, <1>4 DEF CloseWindow, CloseTab
  <2>3. CASE FirstConfigure(w) \/ KeyboardEnter(w) \/ \E u \in Terms : TabSwitch(w, u)
    BY <2>3, <1>5 DEF FirstConfigure, Configure, KeyboardEnter, TabSwitch, termVars
  <2> QED BY <1>9, <2>1, <2>2, <2>3 DEF Compositor
<1> QED BY <1>1, <1>2, <1>6, <1>7, <1>8, <1>9 DEF Next, Core

(***************************************************************************)
(* Lifecycle implements TerminalLife                                       *)
(***************************************************************************)

\* No step takes a terminal back: freed memory is not reused, a shutdown is
\* not called off, a reaped slave stays reaped, a window is not given again.
LEMMA NoWayBack ==
    ASSUME IInv, [Next]_vars, NEW t \in Terms
    PROVE  /\ heap[t] = "none" => heap'[t] \in {"none", "live"}
           /\ heap[t] = "live" => heap'[t] \in {"live", "freed"}
           /\ heap[t] = "freed" => heap'[t] = "freed"
           /\ closing[t] => closing'[t]
           /\ reaped[t] => reaped'[t]
           /\ heap[t] # "none" /\ win'[t] # NoWin => win[t] # NoWin
           /\ heap[t] = "none" /\ heap'[t] = "live" => ~closing'[t]
<1> DEFINE Ok == /\ heap[t] = "none" => heap'[t] \in {"none", "live"}
                 /\ heap[t] = "live" => heap'[t] \in {"live", "freed"}
                 /\ heap[t] = "freed" => heap'[t] = "freed"
                 /\ closing[t] => closing'[t]
                 /\ reaped[t] => reaped'[t]
                 /\ heap[t] # "none" /\ win'[t] # NoWin => win[t] # NoWin
                 /\ heap[t] = "none" /\ heap'[t] = "live" => ~closing'[t]
<1> SUFFICES Ok
  OBVIOUS
<1> USE DEF IInv, TypeOK
<1>1. CASE UNCHANGED <<heap, closing, reaped, win>>
  BY <1>1, NullAssumption
<1>2. ASSUME NEW w \in Windows, NEW S \in SUBSET Terms, ShutDown(w, S) PROVE Ok
  BY <1>2 DEF ShutDown, BeginShutdown, TerminateSlaves
<1>3. ASSUME NEW u \in Terms, NEW w \in Windows, OpenWindow(u, w) \/ OpenTab(u, w)
      PROVE  Ok
  BY <1>3 DEF OpenWindow, OpenTab, StartTerm, StageInv
<1>4. ASSUME NEW u \in Terms, Reap(u) PROVE Ok
  <2>1. child[u] = "zombie" /\ heap[u] = "live"
    BY <1>4 DEF Reap, SlaveInv
  <2>2. CASE ~closing[u] /\ u \notin Holding
    BY <1>4, <2>1, <2>2 DEF Reap, BeginShutdown
  <2>3. CASE closing[u] \/ u \in Holding
    BY <1>4, <2>1, <2>3 DEF Reap, winVars
  <2> QED BY <2>2, <2>3
<1>5. ASSUME NEW u \in Terms, FdmShutdown(u) PROVE Ok
  <2>1. CASE FdmShutdownDetached(u)
    BY <2>1 DEF FdmShutdownDetached, MaybeDone, EventInv
  <2>2. CASE FdmShutdownUnmap(u)
    BY <2>2, <1>1 DEF FdmShutdownUnmap, winVars
  <2>3. CASE FdmShutdownDestroy(u)
    BY <2>3 DEF FdmShutdownDestroy, MaybeDone, LoopInv
  <2> QED BY <1>5, <2>1, <2>2, <2>3 DEF FdmShutdown
<1>6. ASSUME NEW u \in Terms, DestroyNow(u) PROVE Ok
  BY <1>6 DEF DestroyNow
<1>7. CASE FdmClient
  <2>1. ASSUME NEW w \in Windows, NEW u \in tabs[w], ShutDown(w, {u}) PROVE Ok
    BY <1>2, <2>1
  <2>2. CASE UNCHANGED <<termVars, winVars>>
    BY <1>1, <2>2 DEF termVars, winVars
  <2> QED BY <1>3, <1>6, <1>7, <2>1, <2>2 DEF FdmClient
<1>8. CASE Loop \/ FdmWayl \/ FdmWaylReturn \/ KeyboardLeave \/ UNCHANGED vars
  BY <1>1, <1>8 DEF Loop, Poll, DeliverSIGCHLD, ReapDone, BatchDone, SkipDeleted,
                    FdmWayl, FdmWaylReturn, KeyboardLeave, vars, termVars, winVars
<1>9. ASSUME NEW u \in Terms, TerminateTimeout(u) \/ Ptmx(u) \/ ChildExits(u)
      PROVE  Ok
  <2>1. CASE FdmPtmxHup(u)
    <3>1. CASE ShutDown(win[u], {u})
      BY <3>1 DEF ShutDown, BeginShutdown, TerminateSlaves
    <3>2. CASE ~ShutDown(win[u], {u})
      BY <1>1, <2>1, <3>2 DEF FdmPtmxHup, winVars
    <3> QED BY <3>1, <3>2
  <2>2. CASE TerminateTimeout(u) \/ FdmPtmx(u) \/ FdmPtmxReturn(u) \/ ChildExits(u)
    BY <1>1, <2>2 DEF TerminateTimeout, FdmPtmx, FdmPtmxReturn, ChildExits,
                      termVars, winVars
  <2> QED BY <1>9, <2>1, <2>2 DEF Ptmx
<1>10. ASSUME NEW w \in Windows, Compositor(w) PROVE Ok
  <2>1. CASE TabNew(w)
    BY <1>3, <2>1 DEF TabNew
  <2>2. CASE CloseWindow(w) \/ \E u \in Terms : CloseTab(w, u)
    BY <1>2, <2>2 DEF CloseWindow, CloseTab
  <2>3. CASE FirstConfigure(w) \/ KeyboardEnter(w) \/ \E u \in Terms : TabSwitch(w, u)
    BY <1>1, <2>3 DEF FirstConfigure, Configure, KeyboardEnter, TabSwitch, termVars
  <2> QED BY <1>10, <2>1, <2>2, <2>3 DEF Compositor
<1> QED BY <1>4, <1>5, <1>7, <1>8, <1>9, <1>10 DEF Next, Core

\* Every step of the event loop is, for each terminal, one of TerminalLife's.
LEMMA StepsImplement ==
    ASSUME ~TabsOntoDying, ~DestroyEarly, IInv, IInv', [Next]_vars
    PROVE  Life!Next
<1> SUFFICES ASSUME NEW t \in Terms
             PROVE  \/ Life!Stays(t) \/ Life!Opens(t) \/ Life!ClientEnds(t)
                    \/ Life!Begins(t) \/ Life!Progresses(t) \/ Life!Destroyed(t)
  BY DEF Life!Next
<1>1. /\ heap[t] \in {"none", "live", "freed"} /\ heap'[t] \in {"none", "live", "freed"}
      /\ closing[t] \in BOOLEAN /\ closing'[t] \in BOOLEAN
      /\ reaped[t] \in BOOLEAN /\ reaped'[t] \in BOOLEAN
      /\ StageInv(t) /\ StageInv(t)'
  BY DEF IInv, TypeOK
<1>2. CASE heap[t] = "none" /\ heap'[t] = "none"
  BY <1>1, <1>2 DEF StageInv, Stage, Life!Stays
<1>3. CASE heap[t] = "none" /\ heap'[t] = "live"
  BY <1>1, <1>3, NoWayBack DEF StageInv, Stage, Life!Opens
<1>4. CASE heap[t] = "live" /\ heap'[t] = "live" /\ ~closing'[t]
  BY <1>1, <1>4, NoWayBack DEF StageInv, Stage, Life!ClientEnds, Life!Loses
<1>5. CASE heap[t] = "live" /\ heap'[t] = "live" /\ closing'[t]
  BY <1>1, <1>5, NoWayBack
     DEF StageInv, Stage, Life!Begins, Life!Progresses, Life!Loses
<1>6. CASE heap[t] = "live" /\ heap'[t] = "freed"
  BY <1>1, <1>6, NoWayBack, DestroyedWhenDone
     DEF StageInv, Stage, Life!Destroyed, Life!Loses
<1>7. CASE heap[t] = "freed"
  BY <1>1, <1>7, NoWayBack DEF StageInv, Stage, Life!Stays
<1> QED BY <1>1, <1>2, <1>3, <1>4, <1>5, <1>6, <1>7, NoWayBack

\* fdm_shutdown(), fdm_client_terminated() and the escalation timer do what the
\* comment above shutdown_maybe_done() promises of each terminal.
THEOREM ImplementsLife ==
    ASSUME ~TabsOntoDying, ~DestroyEarly
    PROVE  Spec => ImplementsTerminalLife
<1>1. ASSUME Init PROVE Life!Init
  <2>1. \A t \in Terms : /\ Stage(t) \in {"none", "running"}
                         /\ (win[t] # NoWin) = (Stage(t) = "running")
                         /\ (heap[t] # "none" /\ ~reaped[t]) = (Stage(t) = "running")
    BY <1>1, NullAssumption DEF Init, Stage
  <2> QED BY <2>1 DEF Life!Init
<1>2. IInv /\ IInv' /\ [Next]_vars => [Life!Next]_(Life!vars)
  BY StepsImplement
<1> QED BY <1>1, <1>2, Invariance, PTL DEF Spec, ImplementsTerminalLife, Life!Spec

(***************************************************************************)
(* Windows take no running terminal with them                              *)
(***************************************************************************)

\* wayl_win_destroy() is only reached for a window whose tabs are all being shut down.
THEOREM WindowTakesDying ==
    ASSUME ~TabsOntoDying, ~DestroyEarly
    PROVE  Spec => WindowTakesOnlyDyingTabs
<1> DEFINE Takes == \A w \in Windows : wst'[w] = "destroyed" /\ wst[w] # "destroyed" =>
                      \A t \in Terms : win[t] = w => closing[t]
<1>1. ASSUME IInv, [Next]_vars PROVE Takes
  <2> USE <1>1, NullAssumption DEF IInv, TypeOK
  <2>1. CASE wst' = wst
    BY <2>1
  <2>2. ASSUME NEW u \in Terms, FdmShutdownDestroy(u) PROVE Takes
    BY <2>2 DEF FdmShutdownDestroy, LoopInv, EventInv, WindowInv
  <2>3. ASSUME NEW u \in Terms, DestroyNow(u), FdmClient PROVE Takes
    BY <2>3 DEF DestroyNow, EventInv, WindowInv, FdmClient, Take
  <2>4. ASSUME NEW u \in Terms, NEW w \in Windows, OpenWindow(u, w) \/ OpenTab(u, w)
        PROVE  Takes
    BY <2>4 DEF OpenWindow, OpenTab
  <2>5. ASSUME NEW w \in Windows, NEW S, ShutDown(w, S) PROVE wst' = wst
    BY <2>5 DEF ShutDown, BeginShutdown
  <2>6. CASE FdmClient
    <3>1. CASE UNCHANGED <<termVars, winVars>>
      BY <2>1, <3>1 DEF winVars
    <3> QED BY <2>1, <2>3, <2>4, <2>5, <2>6, <3>1 DEF FdmClient
  <2>7. ASSUME NEW w \in Windows, Compositor(w) PROVE Takes
    <3>1. CASE FirstConfigure(w)
      BY <3>1 DEF FirstConfigure, Configure
    <3>2. CASE TabNew(w)
      BY <2>4, <3>2 DEF TabNew
    <3>3. CASE CloseWindow(w) \/ \E u \in Terms : CloseTab(w, u)
      BY <2>1, <2>5, <3>3 DEF CloseWindow, CloseTab
    <3>4. CASE KeyboardEnter(w) \/ \E u \in Terms : TabSwitch(w, u)
      BY <2>1, <3>4 DEF KeyboardEnter, TabSwitch
    <3> QED BY <2>7, <3>1, <3>2, <3>3, <3>4 DEF Compositor
  <2>8. ASSUME NEW u \in Terms, Reap(u) \/ TerminateTimeout(u) \/ Ptmx(u) \/ ChildExits(u)
        PROVE  wst' = wst
    BY <2>8 DEF Reap, BeginShutdown, TerminateTimeout, Ptmx, FdmPtmx, FdmPtmxReturn,
                FdmPtmxHup, ShutDown, ChildExits, winVars
  <2>9. ASSUME NEW u \in Terms, FdmShutdownDetached(u) \/ FdmShutdownUnmap(u)
        PROVE  wst' = wst
    BY <2>9 DEF FdmShutdownDetached, FdmShutdownUnmap, winVars
  <2>10. CASE Loop \/ FdmWayl \/ FdmWaylReturn \/ KeyboardLeave \/ UNCHANGED vars
    BY <2>1, <2>10 DEF Loop, Poll, DeliverSIGCHLD, ReapDone, BatchDone, SkipDeleted,
                       FdmWayl, FdmWaylReturn, KeyboardLeave, vars, winVars
  <2> QED BY <2>1, <2>2, <2>6, <2>7, <2>8, <2>9, <2>10 DEF Next, Core, FdmShutdown
<1>2. IInv /\ [Next]_vars => [Takes]_vars
  BY <1>1
<1> QED BY <1>2, Invariance, PTL DEF Spec, WindowTakesOnlyDyingTabs

(***************************************************************************)
(* Tabs are polled                                                         *)
(***************************************************************************)

\* The first configure polls only the active tab: a window that still waits for it
\* has no other.
PollInv ==
    /\ \A w \in Windows : wst[w] = "new" => tabs[w] = {active[w]}
    /\ TabsArePolled

LEMMA BeginKeepsPolled ==
    ASSUME IInv, PollInv, NEW w0 \in Windows, NEW S \in SUBSET tabs[w0], S # {},
           BeginShutdown(w0, S)
    PROVE  PollInv'
<1> DEFINE D == Detached(w0, S)
<1> USE NullAssumption DEF IInv, TypeOK
<1>1. D \subseteq S /\ (tabs[w0] \subseteq S => D = S \ {active[w0]})
  BY DEF Detached
<1> HIDE DEF D
<1>2. PICK a \in tabs[w0] : /\ IF active[w0] \in D THEN a \notin D ELSE a = active[w0]
                            /\ active' = [active EXCEPT ![w0] = a]
  BY DEF BeginShutdown, D
<1>3. /\ closing' = [t \in Terms |-> closing[t] \/ t \in S]
      /\ ptmx' = [t \in Terms |-> IF t \in S THEN "closed" ELSE ptmx[t]]
      /\ win' = [t \in Terms |-> IF t \in D THEN NoWin ELSE win[t]]
      /\ tabs' = [tabs EXCEPT ![w0] = @ \ D]
      /\ UNCHANGED <<heap, wst>>
  BY DEF BeginShutdown, D
<1>4. ASSUME NEW w \in Windows, wst'[w] = "new" PROVE tabs'[w] = {active'[w]}
  <2>1. CASE w # w0
    BY <1>2, <1>3, <1>4, <2>1 DEF PollInv
  <2>2. CASE w = w0
    <3>1. tabs[w0] = {active[w0]}
      BY <1>3, <1>4, <2>2 DEF PollInv
    <3>2. D = {} /\ a = active[w0]
      BY <1>1, <1>2, <3>1
    <3> QED BY <1>2, <1>3, <2>2, <3>1, <3>2
  <2> QED BY <2>1, <2>2
<1>5. TabsArePolled'
  BY <1>1, <1>3 DEF TabsArePolled, PollInv
<1> QED BY <1>4, <1>5 DEF PollInv

LEMMA NextPollInv ==
    ASSUME ~TabsOntoDying, ~TabsOntoUnconfigured, ~DestroyEarly, IInv, PollInv, [Next]_vars
    PROVE  PollInv'
<1> USE NullAssumption DEF IInv, TypeOK
<1>1. CASE UNCHANGED <<heap, closing, ptmx, win, wst, tabs, active>>
  BY <1>1 DEF PollInv, TabsArePolled
<1>2. ASSUME NEW w \in Windows, NEW S \in SUBSET tabs[w], ShutDown(w, S) PROVE PollInv'
  BY <1>2, BeginKeepsPolled DEF ShutDown
<1>3. ASSUME NEW t \in Terms, NEW w \in Windows, OpenWindow(t, w) PROVE PollInv'
  BY <1>3 DEF OpenWindow, StartTerm, PollInv, TabsArePolled, WindowInv, StageInv
<1>4. ASSUME NEW t \in Terms, NEW w \in Windows, OpenTab(t, w) PROVE PollInv'
  BY <1>4 DEF OpenTab, StartTerm, PollInv, TabsArePolled, WindowInv, StageInv
<1>5. ASSUME NEW t \in Terms, Reap(t) PROVE PollInv'
  <2>1. CASE ~closing[t] /\ t \notin Holding
    <3>1. win[t] \in Windows /\ t \in tabs[win[t]] /\ BeginShutdown(win[t], {t})
      BY <1>5, <2>1 DEF Reap, StageInv, SlaveInv, WindowInv
    <3> QED BY <3>1, BeginKeepsPolled
  <2>2. CASE closing[t] \/ t \in Holding
    BY <1>5, <2>2 DEF Reap, winVars, PollInv, TabsArePolled
  <2> QED BY <2>1, <2>2
<1>6. ASSUME NEW t \in Terms, FdmShutdown(t) PROVE PollInv'
  <2>1. CASE FdmShutdownDetached(t)
    BY <2>1 DEF FdmShutdownDetached, MaybeDone, PollInv, TabsArePolled
  <2>2. CASE FdmShutdownUnmap(t)
    BY <1>1, <2>2 DEF FdmShutdownUnmap, winVars
  <2>3. CASE FdmShutdownDestroy(t)
    <3>1. win[t] \in Windows /\ closing[t] /\ tabs[win[t]] = {t}
      BY <2>3 DEF FdmShutdownDestroy, LoopInv, EventInv
    <3>2. \A w \in Windows : wst'[w] = "new" =>
             wst[w] = "new" /\ tabs'[w] = tabs[w] /\ active'[w] = active[w]
      BY <2>3, <3>1 DEF FdmShutdownDestroy
    <3>3. ASSUME NEW u \in Terms, heap'[u] = "live", ~closing'[u], wst'[win'[u]] = "configured"
          PROVE  ptmx'[u] # "idle"
      <4>1. u # t /\ heap[u] = "live" /\ ~closing[u] /\ win'[u] = win[u] /\ ptmx'[u] = ptmx[u]
        BY <2>3, <3>1, <3>3 DEF FdmShutdownDestroy, MaybeDone
      <4>2. win[u] \in Windows /\ win[u] # win[t]
        BY <3>1, <4>1 DEF StageInv, WindowInv
      <4>3. wst'[win[u]] = wst[win[u]]
        BY <2>3, <3>1, <4>2 DEF FdmShutdownDestroy
      <4> QED BY <3>3, <4>1, <4>3 DEF PollInv, TabsArePolled
    <3> QED BY <3>2, <3>3 DEF PollInv, TabsArePolled
  <2> QED BY <1>6, <2>1, <2>2, <2>3 DEF FdmShutdown
<1>7. ASSUME NEW t \in Terms, TerminateTimeout(t) \/ Ptmx(t) \/ ChildExits(t) PROVE PollInv'
  <2>1. CASE FdmPtmxHup(t)
    <3>1. CASE t \in NoChild /\ t \notin Holding
      <4>1. ShutDown(win[t], {t}) /\ ~closing[t] /\ ptmx[t] = "polled"
        BY <2>1, <3>1 DEF FdmPtmxHup, ShutDown
      <4>2. win[t] \in Windows /\ t \in tabs[win[t]]
        BY <4>1 DEF StageInv, WindowInv
      <4> QED BY <1>2, <4>1, <4>2
    <3>2. CASE ~(t \in NoChild /\ t \notin Holding)
      BY <2>1, <3>2 DEF FdmPtmxHup, winVars, PollInv, TabsArePolled
    <3> QED BY <3>1, <3>2
  <2>2. CASE TerminateTimeout(t) \/ FdmPtmx(t) \/ FdmPtmxReturn(t) \/ ChildExits(t)
    BY <1>1, <2>2 DEF TerminateTimeout, FdmPtmx, FdmPtmxReturn, ChildExits, termVars, winVars
  <2> QED BY <1>7, <2>1, <2>2 DEF Ptmx
<1>8. ASSUME NEW w \in Windows, Compositor(w) PROVE PollInv'
  <2>1. CASE TabNew(w)
    BY <1>4, <2>1 DEF TabNew
  <2>2. CASE FirstConfigure(w)
    <3>1. /\ wst[w] = "new" /\ tabs[w] = {active[w]} /\ wst' = [wst EXCEPT ![w] = "configured"]
          /\ ptmx' = [t \in Terms |->
                         IF t = active[w] /\ ~closing[t] THEN "polled" ELSE ptmx[t]]
          /\ UNCHANGED <<heap, closing, win, tabs, active>>
      BY <2>2 DEF FirstConfigure, Configure, PollInv
    <3>2. ASSUME NEW t \in Terms, heap[t] = "live", ~closing[t], wst'[win[t]] = "configured"
          PROVE  ptmx'[t] # "idle"
      <4>1. win[t] \in Windows
        BY <3>2 DEF StageInv
      <4>2. CASE win[t] = w
        BY <3>1, <3>2, <4>2 DEF WindowInv
      <4>3. CASE win[t] # w
        BY <3>1, <3>2, <4>1, <4>3 DEF PollInv, TabsArePolled
      <4> QED BY <4>2, <4>3
    <3> QED BY <3>1, <3>2 DEF PollInv, TabsArePolled
  <2>3. CASE CloseWindow(w) \/ \E t \in Terms : CloseTab(w, t)
    BY <1>2, <2>3 DEF CloseWindow, CloseTab
  <2>4. CASE KeyboardEnter(w)
    BY <1>1, <2>4 DEF KeyboardEnter, termVars
  <2>5. ASSUME NEW t \in Terms, TabSwitch(w, t) PROVE PollInv'
    BY <2>5 DEF TabSwitch, termVars, PollInv, TabsArePolled
  <2> QED BY <1>8, <2>1, <2>2, <2>3, <2>4, <2>5 DEF Compositor
<1>9. CASE FdmClient
  <2>1. ASSUME NEW w \in Windows, NEW t \in tabs[w], ShutDown(w, {t}) PROVE PollInv'
    BY <1>2, <2>1
  <2>2. ASSUME NEW t \in Terms, DestroyNow(t) PROVE PollInv'
    <3>1. win[t] = NoWin
      BY <1>9, <2>2 DEF DestroyNow, EventInv, FdmClient, Take
    <3>2. wst' = wst /\ tabs' = tabs /\ win' = win
      BY <2>2, <3>1 DEF DestroyNow
    <3> QED BY <2>2, <3>2 DEF DestroyNow, PollInv, TabsArePolled
  <2>3. CASE UNCHANGED <<termVars, winVars>>
    BY <1>1, <2>3 DEF termVars, winVars
  <2> QED BY <1>3, <1>4, <1>9, <2>1, <2>2, <2>3 DEF FdmClient
<1>10. CASE Loop \/ FdmWayl \/ FdmWaylReturn \/ KeyboardLeave \/ UNCHANGED vars
  BY <1>1, <1>10 DEF Loop, Poll, DeliverSIGCHLD, ReapDone, BatchDone, SkipDeleted,
                     FdmWayl, FdmWaylReturn, KeyboardLeave, vars, termVars, winVars
<1> QED BY <1>5, <1>6, <1>7, <1>8, <1>9, <1>10 DEF Next, Core

\* No tab of a configured window is deaf to its shell (term_window_configured(),
\* tab_attach()), when no tab is opened before the window's first configure.
THEOREM Polled ==
    ASSUME ~TabsOntoDying, ~TabsOntoUnconfigured, ~DestroyEarly
    PROVE  Spec => []TabsArePolled
<1>1. Init => PollInv
  BY NullAssumption DEF Init, PollInv, TabsArePolled
<1>2. IInv /\ PollInv /\ [Next]_vars => PollInv'
  BY NextPollInv
<1>3. PollInv => TabsArePolled
  BY DEF PollInv
<1> QED BY <1>1, <1>2, <1>3, Invariance, PTL DEF Spec

(***************************************************************************)
(* Server                                                                  *)
(***************************************************************************)

\* Instances and terminals have the same life, a terminal reports to its own
\* instance, a client has at most one instance, and one that waits has it still: so the
\* clients and the --no-wait instances lead to every terminal.
SInv ==
    /\ ServerTypeOK
    /\ \A t \in Terms :
         /\ inst[t] = heap[t]
         /\ heap[t] = "live" => owner[t] = t
         /\ heap[t] = "none" => iclient[t] = NoClient
         /\ iclient[t] # NoClient => cst[iclient[t]] \notin {"none", "setup"}
         /\ heap[t] = "live" /\ iclient[t] # NoClient => cst[iclient[t]] \in {"waiting", "hungup"}
    /\ \A t, u \in Terms : iclient[t] = iclient[u] /\ iclient[t] # NoClient => t = u
    /\ WaitingClientsHaveTerminals
    /\ ThemeIsAsAsked

\* A step of the event loop opens or destroys at most one terminal (term_init(),
\* term_destroy()).
LEMMA CoreHeap ==
    ASSUME IInv, Core
    PROVE  \/ UNCHANGED heap
           \/ \E t \in Terms : heap[t] = "live" /\ heap' = [heap EXCEPT ![t] = "freed"]
           \/ \E t \in Terms : heap[t] = "none" /\ heap' = [heap EXCEPT ![t] = "live"]
<1> USE DEF IInv, TypeOK
<1>1. CASE Loop \/ FdmWayl \/ FdmWaylReturn \/ KeyboardLeave
  BY <1>1 DEF Loop, Poll, DeliverSIGCHLD, ReapDone, BatchDone, SkipDeleted, FdmWayl,
              FdmWaylReturn, KeyboardLeave, termVars
<1>2. ASSUME NEW t \in Terms, Reap(t) PROVE UNCHANGED heap \/ (heap[t] = "live" /\ heap' = [heap EXCEPT ![t] = "freed"])
  BY <1>2 DEF Reap, SlaveInv, BeginShutdown
<1>3. ASSUME NEW t \in Terms, FdmShutdown(t)
      PROVE  UNCHANGED heap \/ (heap[t] = "live" /\ heap' = [heap EXCEPT ![t] = "freed"])
  BY <1>3 DEF FdmShutdown, FdmShutdownDetached, FdmShutdownUnmap, FdmShutdownDestroy,
              MaybeDone, EventInv, LoopInv
<1>4. ASSUME NEW t \in Terms, TerminateTimeout(t) \/ Ptmx(t) \/ ChildExits(t)
      PROVE  UNCHANGED heap
  BY <1>4 DEF TerminateTimeout, Ptmx, FdmPtmx, FdmPtmxReturn, FdmPtmxHup, ChildExits,
              ShutDown, BeginShutdown, termVars
<1>5. ASSUME NEW w \in Windows, TabNew(w)
      PROVE  \E t \in Terms : heap[t] = "none" /\ heap' = [heap EXCEPT ![t] = "live"]
  BY <1>5 DEF TabNew, OpenTab, StartTerm
<1>6. ASSUME NEW w \in Windows,
             \/ FirstConfigure(w) \/ CloseWindow(w) \/ KeyboardEnter(w)
             \/ \E t \in Terms : CloseTab(w, t) \/ TabSwitch(w, t)
      PROVE  UNCHANGED heap
  BY <1>6 DEF FirstConfigure, Configure, CloseWindow, KeyboardEnter, CloseTab, TabSwitch,
              ShutDown, BeginShutdown, termVars
<1> QED BY <1>1, <1>2, <1>3, <1>4, <1>5, <1>6 DEF Core, Compositor

\* What a step of the server does to its terminals is a step of Lifecycle or none.
LEMMA StepIsNext ==
    ASSUME IInv, SInv, [ServerNext]_allVars
    PROVE  [Next]_vars
<1> USE ServerAssumption, NullAssumption DEF IInv, TypeOK
<1>1. CASE UNCHANGED allVars
  BY <1>1 DEF allVars
<1>2. CASE Terminals
  BY <1>2 DEF Terminals, Next
<1>3. CASE \E x \in Themes : \/ ThemeSwitch(x)
                             \/ \E t \in Terms : ThemeBinding(t, x)
  BY <1>3 DEF ThemeSwitch, ThemeBinding
<1>4. CASE ClientData \/ \E c \in Clients, x \in Themes : ClientSigusr(c, x)
  BY <1>4 DEF ClientData, ClientSigusr, Next, FdmClient
<1>6. CASE \E t \in Terms : TermReset(t)
  BY <1>6 DEF TermReset
<1>5. ASSUME NEW c \in Clients, Connection(c) PROVE [Next]_vars
  <2>1. CASE Accept(c) \/ Reject(c)
    BY <2>1 DEF Accept, Reject, Next, FdmClient
  <2>2. CASE Instantiate(c)
    BY <2>2 DEF Instantiate, Next, FdmClient
  <2>3. ASSUME NEW i \in Terms, ClientHup(c, i) PROVE [Next]_vars
    <3>1. win[i] \in Windows /\ i \in tabs[win[i]]
      BY <2>3 DEF ClientHup, StageInv, WindowInv
    <3> QED BY <2>3, <3>1 DEF ClientHup, Next, FdmClient
  <2>4. ASSUME NEW i \in Terms, ClientHupClosing(c, i) PROVE [Next]_vars
    BY <2>4 DEF ClientHupClosing, Next, FdmClient
  <2> QED BY <1>5, <2>1, <2>2, <2>3, <2>4 DEF Connection
<1> QED BY <1>1, <1>2, <1>3, <1>4, <1>5, <1>6 DEF ServerNext

\* InstanceDestroy() of the instance of a terminal that ends.
LEMMA DestroyKeeps ==
    ASSUME SInv, NEW i \in Terms, heap[i] = "live", heap' = [heap EXCEPT ![i] = "freed"],
           heap \in [Terms -> {"none", "live", "freed"}],
           InstanceDestroy(i, "answered"), Forget(i), UNCHANGED <<owner, initial, crashed>>
    PROVE  SInv'
<1> USE ServerAssumption DEF SInv, ServerTypeOK, InstanceDestroy, Forget
<1>1. ServerTypeOK'
  OBVIOUS
<1>2. WaitingClientsHaveTerminals'
  BY DEF WaitingClientsHaveTerminals
<1>3. ThemeIsAsAsked'
  BY DEF ThemeIsAsAsked
<1> QED BY <1>1, <1>2, <1>3

LEMMA TerminalsKeep ==
    ASSUME ~UserTabs, IInv, SInv, Terminals
    PROVE  SInv'
<1> DEFINE ended  == {t \in Terms : heap[t] = "live" /\ heap'[t] = "freed"}
           opened == {t \in Terms : heap[t] = "none" /\ heap'[t] = "live"}
<1>0. /\ Core /\ heap \in [Terms -> {"none", "live", "freed"}]
      /\ \A t \in Terms : heap[t] = "none" => heap'[t] = "none"
  BY DEF Terminals, IInv, TypeOK
<1>1. opened = {}
  BY <1>0
<1>2. /\ owner' = [t \in Terms |-> owner[t]]
      /\ theme' = [t \in Terms |-> IF t \in ended THEN "none" ELSE theme[t]]
      /\ asked' = [t \in Terms |-> IF t \in ended THEN "none" ELSE asked[t]]
      /\ conf' = [t \in Terms |-> IF t \in ended THEN "server" ELSE conf[t]]
      /\ UNCHANGED <<initial, crashed>>
  BY <1>1 DEF Terminals, Callbacks
<1>3. CASE UNCHANGED heap
  <2>1. ended = {}
    BY <1>3
  <2>2. UNCHANGED <<inst, cst, iclient, heap, owner, themeVars>>
    BY <1>2, <1>3, <2>1 DEF Terminals, Callbacks, SInv, ServerTypeOK, themeVars
  <2> QED BY <2>2 DEF SInv, ServerTypeOK, WaitingClientsHaveTerminals, ThemeIsAsAsked, themeVars
<1>4. ASSUME NEW i \in Terms, heap[i] = "live", heap' = [heap EXCEPT ![i] = "freed"]
      PROVE  SInv'
  <2>1. ended = {i}
    BY <1>0, <1>4
  <2>2. InstanceDestroy(owner[i], "answered")
    BY <2>1 DEF Terminals, Callbacks
  <2>3. owner[i] = i /\ owner' = owner
    BY <1>2, <1>4 DEF SInv, ServerTypeOK
  <2>4. Forget(i)
    BY <1>2, <2>1 DEF Forget, SInv, ServerTypeOK
  <2> QED BY <1>0, <1>2, <1>4, <2>2, <2>3, <2>4, DestroyKeeps
<1> QED BY <1>0, <1>3, <1>4, CoreHeap

LEMMA ConnectionKeeps ==
    ASSUME IInv, SInv, NEW c \in Clients, Connection(c)
    PROVE  SInv'
<1> USE ServerAssumption DEF SInv, ServerTypeOK, IInv, TypeOK, themeVars
<1>1. CASE Accept(c) \/ Reject(c)
  <2>1. heap' = heap /\ inst' = inst /\ owner' = owner /\ iclient' = iclient /\ UNCHANGED themeVars
        /\ \/ cst[c] = "none" /\ cst' = [cst EXCEPT ![c] = "setup"]
           \/ cst[c] = "setup" /\ cst' = [cst EXCEPT ![c] = "gone"]
    BY <1>1 DEF Accept, Reject, termVars
  <2>2. ServerTypeOK'
    BY <2>1
  <2>3. WaitingClientsHaveTerminals'
    BY <2>1 DEF WaitingClientsHaveTerminals
  <2>4. ThemeIsAsAsked'
    BY <2>1 DEF ThemeIsAsAsked
  <2> QED BY <2>1, <2>2, <2>3, <2>4
<1>2. CASE Instantiate(c)
  <2>1. PICK t \in Terms :
          /\ heap[t] = "none" /\ heap' = [heap EXCEPT ![t] = "live"]
          /\ inst' = [inst EXCEPT ![t] = "live"]
          /\ owner' = [owner EXCEPT ![t] = t]
          /\ \E k \in Themes \cup {"server"} :
               /\ conf' = [conf EXCEPT ![t] = k]
               /\ theme' = [theme EXCEPT ![t] = IF k = "server" THEN initial ELSE k]
               /\ asked' = [asked EXCEPT ![t] = IF k = "server" THEN initial ELSE k]
          /\ \/ /\ cst' = [cst EXCEPT ![c] = "waiting"]
                /\ iclient' = [iclient EXCEPT ![t] = c]
             \/ /\ cst' = [cst EXCEPT ![c] = "answered"]
                /\ UNCHANGED iclient
    BY <1>2 DEF Instantiate, OpenWindow, OpenTab, StartTerm
  <2>2. cst[c] = "setup" /\ UNCHANGED <<initial, crashed>>
    BY <1>2 DEF Instantiate
  <2>3. \A u \in Terms : iclient[u] # c
    BY <2>2
  <2>4. ServerTypeOK'
    <3>1. PICK k \in Themes \cup {"server"} :
            /\ conf' = [conf EXCEPT ![t] = k]
            /\ theme' = [theme EXCEPT ![t] = IF k = "server" THEN initial ELSE k]
            /\ asked' = [asked EXCEPT ![t] = IF k = "server" THEN initial ELSE k]
      BY <2>1
    <3>2. (IF k = "server" THEN initial ELSE k) \in Themes
      OBVIOUS
    <3>3. /\ theme' \in [Terms -> Themes \cup {"none"}]
          /\ conf' \in [Terms -> Themes \cup {"server"}]
          /\ asked' \in [Terms -> Themes \cup {"none"}]
      BY <3>1, <3>2
    <3>4. /\ cst' \in [Clients -> {"none", "setup", "waiting", "hungup", "answered", "gone"}]
          /\ inst' \in [Terms -> {"none", "live", "freed"}]
          /\ iclient' \in [Terms -> Clients \cup {NoClient}]
          /\ owner' \in [Terms -> Terms \cup {NoTerm}]
      BY <2>1
    <3> QED BY <2>2, <3>3, <3>4 DEF ServerTypeOK
  <2>5. WaitingClientsHaveTerminals'
    BY <2>1, <2>2, <2>3 DEF WaitingClientsHaveTerminals
  <2>6. ThemeIsAsAsked'
    BY <2>1, <2>2 DEF ThemeIsAsAsked
  <2>7. \A u \in Terms :
         /\ inst'[u] = heap'[u]
         /\ heap'[u] = "live" => owner'[u] = u
         /\ heap'[u] = "none" => iclient'[u] = NoClient
         /\ iclient'[u] # NoClient => cst'[iclient'[u]] \notin {"none", "setup"}
         /\ heap'[u] = "live" /\ iclient'[u] # NoClient =>
              cst'[iclient'[u]] \in {"waiting", "hungup"}
    BY <2>1, <2>2, <2>3
  <2>8. \A u, v \in Terms : iclient'[u] = iclient'[v] /\ iclient'[u] # NoClient => u = v
    BY <2>1, <2>2, <2>3
  <2> QED BY <2>4, <2>5, <2>6, <2>7, <2>8
<1>3. ASSUME NEW i \in Terms, ClientHup(c, i) PROVE SInv'
  <2>1. /\ cst[c] = "waiting" /\ cst' = [cst EXCEPT ![c] = "hungup"]
        /\ UNCHANGED <<heap, inst, iclient, owner, themeVars>>
    BY <1>3 DEF ClientHup, ShutDown, BeginShutdown
  <2> QED BY <2>1 DEF WaitingClientsHaveTerminals, ThemeIsAsAsked
<1>4. ASSUME NEW i \in Terms, ClientHupClosing(c, i) PROVE SInv'
  <2>1. /\ cst[c] = "waiting" /\ cst' = [cst EXCEPT ![c] = "gone"]
        /\ heap[i] = "live" /\ iclient[i] = c
        /\ heap' = [heap EXCEPT ![i] = "freed"] /\ inst' = [inst EXCEPT ![i] = "freed"]
        /\ Forget(i) /\ UNCHANGED <<iclient, owner, initial, crashed>>
    BY <1>4 DEF ClientHupClosing, DestroyNow
  <2> QED BY <2>1 DEF WaitingClientsHaveTerminals, ThemeIsAsAsked, Forget
<1> QED BY <1>1, <1>2, <1>3, <1>4 DEF Connection

\* A theme switch: of all terminals, since each is reached from its client or is the
\* server's; of one client's; of the one a key is pressed in; a reset.
LEMMA ThemesKeep ==
    ASSUME IInv, SInv,
           \/ \E x \in Themes : \/ ThemeSwitch(x)
                                \/ \E c \in Clients : ClientSigusr(c, x)
                                \/ \E t \in Terms : ThemeBinding(t, x)
           \/ \E t \in Terms : TermReset(t)
    PROVE  SInv'
<1> USE ServerAssumption DEF SInv, ServerTypeOK, SwitchTo, Ask
<1>1. ASSUME UNCHANGED <<heap, cst, inst, iclient, owner, conf>>,
             theme' \in [Terms -> Themes \cup {"none"}],
             asked' \in [Terms -> Themes \cup {"none"}],
             initial' \in Themes, crashed' \in BOOLEAN, ThemeIsAsAsked'
      PROVE  SInv'
  BY <1>1 DEF WaitingClientsHaveTerminals
<1>2. \A t \in Terms : ConfTheme(t) \in Themes
  BY DEF ConfTheme
<1>3. ASSUME NEW x \in Themes, ThemeSwitch(x) PROVE SInv'
  <2>1. OfClients \cup OfServer = {t \in Terms : heap[t] = "live"}
    BY DEF OfClients, OfServer
  <2>2. /\ theme' = [t \in Terms |-> IF t \in OfClients \cup OfServer THEN x ELSE theme[t]]
        /\ asked' = [t \in Terms |-> IF t \in {u \in Terms : heap[u] = "live"}
                                     THEN x ELSE asked[t]]
        /\ UNCHANGED <<heap, cst, inst, iclient, owner, conf>>
        /\ initial' = x /\ crashed' \in BOOLEAN
    BY <1>3 DEF ThemeSwitch, vars, termVars
  <2>3. ThemeIsAsAsked'
    BY <2>1, <2>2 DEF ThemeIsAsAsked
  <2> QED BY <1>1, <2>2, <2>3
<1>4. ASSUME NEW x \in Themes, NEW c \in Clients, ClientSigusr(c, x) PROVE SInv'
  <2>1. PICK i \in Terms : /\ inst[i] = "live" /\ iclient[i] = c
                           /\ SwitchTo({i}, x) /\ crashed' = Unmapped({i}, x)
    BY <1>4 DEF ClientSigusr
  <2>2. {t \in Terms : iclient[t] = c} = {i}
    BY <2>1
  <2>3. /\ asked' = [t \in Terms |-> IF t \in {i} THEN x ELSE asked[t]]
        /\ UNCHANGED <<heap, cst, inst, iclient, owner, conf, initial>>
    BY <1>4, <2>2 DEF ClientSigusr, termVars
  <2>4. crashed' \in BOOLEAN
    BY <2>1 DEF Unmapped
  <2>5. ThemeIsAsAsked'
    BY <2>1, <2>3 DEF ThemeIsAsAsked
  <2> QED BY <1>1, <2>1, <2>3, <2>4, <2>5
<1>5. ASSUME NEW x \in Themes, NEW t \in Terms,
             /\ theme' = [theme EXCEPT ![t] = x] /\ Ask({t}, x)
             /\ UNCHANGED <<heap, cst, inst, iclient, owner, conf, initial, crashed>>
      PROVE  SInv'
  <2>1. ThemeIsAsAsked'
    BY <1>5 DEF ThemeIsAsAsked
  <2> QED BY <1>1, <1>5, <2>1
<1>6. ASSUME NEW x \in Themes, NEW t \in Terms, ThemeBinding(t, x) PROVE SInv'
  BY <1>5, <1>6 DEF ThemeBinding, vars, termVars
<1>7. ASSUME NEW t \in Terms, TermReset(t) PROVE SInv'
  <2>1. ConfTheme(t) \in Themes
    BY <1>2
  <2>2. /\ theme' = [theme EXCEPT ![t] = ConfTheme(t)] /\ Ask({t}, ConfTheme(t))
        /\ UNCHANGED <<heap, cst, inst, iclient, owner, conf, initial, crashed>>
    BY <1>7 DEF TermReset, vars, termVars
  <2> HIDE DEF Ask
  <2> QED BY <1>5, <2>1, <2>2
<1> QED BY <1>3, <1>4, <1>6, <1>7

LEMMA InitSInv == ServerInit => IInv /\ SInv
<1> SUFFICES ASSUME ServerInit PROVE IInv /\ SInv
  OBVIOUS
<1>1. IInv
  BY InitIInv DEF ServerInit
<1>2. SInv
  BY ServerAssumption, NullAssumption
  DEF ServerInit, Init, SInv, ServerTypeOK, WaitingClientsHaveTerminals, ThemeIsAsAsked
<1> QED BY <1>1, <1>2

LEMMA NextSInv ==
    ASSUME ~UserTabs, IInv, SInv, [ServerNext]_allVars
    PROVE  SInv'
<1>1. CASE UNCHANGED allVars
  BY <1>1 DEF allVars, vars, termVars, serverVars, themeVars, SInv, ServerTypeOK,
              WaitingClientsHaveTerminals, ThemeIsAsAsked
<1>2. CASE Terminals
  BY <1>2, TerminalsKeep
<1>3. CASE \/ \E x \in Themes : \/ ThemeSwitch(x)
                                \/ \E c \in Clients : ClientSigusr(c, x)
                                \/ \E t \in Terms : ThemeBinding(t, x)
           \/ \E t \in Terms : TermReset(t)
  BY <1>3, ThemesKeep
<1>4. CASE ClientData
  BY <1>4 DEF ClientData, termVars, serverVars, themeVars, SInv, ServerTypeOK,
              WaitingClientsHaveTerminals, ThemeIsAsAsked
<1>5. CASE \E c \in Clients : Connection(c)
  BY <1>5, ConnectionKeeps
<1> QED BY <1>1, <1>2, <1>3, <1>4, <1>5 DEF ServerNext

\* Instances live as long as their terminals, and each terminal reports to its own
\* (server.c), when no tab is opened by the user and no terminal is freed with its
\* event fd pending.
THEOREM ServerInvariance ==
    ASSUME ~UserTabs, ~TabsOntoDying, ~DestroyEarly
    PROVE  ServerSpec => [](IInv /\ SInv)
<1>1. ServerInit => IInv /\ SInv
  BY InitSInv
<1>2. IInv /\ SInv /\ [ServerNext]_allVars => (IInv /\ SInv)'
  BY StepIsNext, NextIInv, NextSInv
<1> QED BY <1>1, <1>2, PTL DEF ServerSpec

\* A footclient that waits has a terminal of its own to wait for (fdm_client(),
\* instance_destroy()).
THEOREM ClientsHaveTerminals ==
    ASSUME ~UserTabs, ~TabsOntoDying, ~DestroyEarly
    PROVE  ServerSpec => []WaitingClientsHaveTerminals
<1>1. SInv => WaitingClientsHaveTerminals
  BY DEF SInv
<1> QED BY <1>1, ServerInvariance, PTL

\* Every terminal of the server has the theme last asked of it, of all terminals with
\* SIGUSR1 and SIGUSR2 (server_global_theme_switch_to_dark() and _to_light()) or of it
\* alone (fdm_client(), key bindings, term_reset()).
THEOREM ThemeReaches ==
    ASSUME ~UserTabs, ~TabsOntoDying, ~DestroyEarly
    PROVE  ServerSpec => []ThemeIsAsAsked
<1>1. SInv => ThemeIsAsAsked
  BY DEF SInv
<1> QED BY <1>1, ServerInvariance, PTL

\* The instance that a terminal reports its end to exists until it does
\* (term_shutdown_handler()).
THEOREM InstancesOutlive ==
    ASSUME ~UserTabs, ~TabsOntoDying, ~DestroyEarly
    PROVE  ServerSpec => []InstancesOutliveTerminals
<1>1. SInv => InstancesOutliveTerminals
  BY DEF SInv, InstancesOutliveTerminals
<1> QED BY <1>1, ServerInvariance, PTL

\* A theme switch follows no NULL pointer, if none comes while a client is being set up,
\* nor to a terminal whose window has gone.
THEOREM NoNull ==
    ASSUME ~SwitchDuringSetup, ~SwitchUnmapped
    PROVE  ServerSpec => []NoNullPointer
<1>1. ServerInit => NoNullPointer
  BY DEF ServerInit, NoNullPointer
<1>2. NoNullPointer /\ [ServerNext]_allVars => NoNullPointer'
  BY DEF NoNullPointer, ServerNext, allVars, serverVars, themeVars, Terminals, Callbacks,
         ThemeSwitch, ClientSigusr, ThemeBinding, TermReset, Switchable, ClientData,
         Connection, Accept, Instantiate, Reject, ClientHup, ClientHupClosing
<1> QED BY <1>1, <1>2, PTL DEF ServerSpec

\* What the server does with its terminals is what Lifecycle allows: everything that
\* is proved of Lifecycle holds of a server.
THEOREM ServerIsLifecycle ==
    ASSUME ~UserTabs, ~TabsOntoDying, ~DestroyEarly
    PROVE  ServerSpec => ImplementsLifecycle
<1>1. ServerInit => Init
  BY DEF ServerInit
<1>2. IInv /\ SInv /\ [ServerNext]_allVars => [Next]_vars
  BY StepIsNext
<1> QED BY <1>1, <1>2, ServerInvariance, PTL DEF ServerSpec, ImplementsLifecycle, Spec

\* footclient exits when its terminal is destroyed, not before, and neither with
\* another tab of the window nor with another client's terminal.
THEOREM Answered ==
    ASSUME ~UserTabs, ~TabsOntoDying, ~DestroyEarly
    PROVE  ServerSpec => AnsweredWhenDestroyed
<1> DEFINE A == \A c \in Clients :
                   cst[c] = "waiting" /\ cst'[c] = "answered" =>
                       \E i \in Terms : /\ iclient[i] = c
                                        /\ heap[i] = "live" /\ heap'[i] = "freed"
<1>1. ASSUME IInv, SInv, [ServerNext]_allVars PROVE [A]_allVars
  <2> SUFFICES ASSUME NEW c \in Clients, cst[c] = "waiting", cst'[c] = "answered"
               PROVE  \E i \in Terms : /\ iclient[i] = c
                                       /\ heap[i] = "live" /\ heap'[i] = "freed"
    OBVIOUS
  <2> USE DEF SInv, ServerTypeOK
  <2>1. Terminals
    <3>1. cst' # cst
      OBVIOUS
    <3>2. ASSUME NEW d \in Clients, Connection(d) PROVE FALSE
      <4>1. \E r \in {"setup", "waiting", "answered", "gone", "hungup"} :
               /\ cst' = [cst EXCEPT ![d] = r]
               /\ r = "answered" => cst[d] # "waiting"
        BY <3>2 DEF Connection, Accept, Instantiate, Reject, ClientHup, ClientHupClosing
      <4> QED BY <1>1, <4>1
    <3> QED BY <1>1, <3>1, <3>2 DEF ServerNext, allVars, serverVars, ThemeSwitch,
              ClientSigusr, ThemeBinding, TermReset, ClientData
  <2>2. PICK t \in Terms : /\ heap[t] = "live" /\ heap'[t] = "freed"
                           /\ InstanceDestroy(owner[t], "answered")
    BY <2>1 DEF Terminals, Callbacks
  <2>3. owner[t] = t
    BY <1>1, <2>2
  <2>4. iclient[t] = c
    BY <2>2, <2>3 DEF InstanceDestroy
  <2> QED BY <2>2, <2>4
<1> QED BY <1>1, ServerInvariance, PTL DEF ServerSpec, AnsweredWhenDestroyed
===============================================================================
