------------------------------ MODULE MCRendering -----------------------------
(***************************************************************************)
(* Small instances of RenderWorkers and FrameBuffers for TLC, each by      *)
(* itself: part says which.  In the part "buffers" the threads stay at     *)
(* their initial state.                                                    *)
(***************************************************************************)
EXTENDS RenderWorkers, TLC

CONSTANTS Rows, History, Lines, Buffers, MaxDamage, MaxChanges, Lag, Admitted, Null

VARIABLES
    part,
    ring, back, dirty, scrolls, changes,
    buf, chain, last, pre, copied, slow, preapply, phase

Frames == INSTANCE FrameBuffers

bufferVars == <<ring, back, dirty, scrolls, changes,
                buf, chain, last, pre, copied, slow, preapply, phase>>

NoBuffers ==
    /\ ring = 0 /\ back = 0 /\ dirty = 0 /\ scrolls = 0 /\ changes = 0
    /\ buf = 0 /\ chain = 0 /\ last = 0 /\ pre = 0 /\ copied = 0 /\ slow = 0
    /\ preapply = 0 /\ phase = 0

MCInit ==
    /\ Init
    /\ \/ part = "buffers" /\ Frames!Init
       \/ part = "workers" /\ NoBuffers
MCNext ==
    \/ part = "buffers" /\ Frames!Next /\ UNCHANGED <<part, vars>>
    \/ part = "workers" /\ Next /\ UNCHANGED <<part, bufferVars>>
MCSpec == MCInit /\ [][MCNext]_<<part, vars, bufferVars>>

Symmetry == Permutations(Lines) \cup Permutations(Buffers) \cup Permutations(Workers)

\* The next frame shows the grid, however old the buffer it is drawn into and
\* whatever was copied into that before (grid_render(), reapply_old_damage()); and
\* a buffer has as many references as it has holders: shm_unref() frees it when
\* the last one goes, neither earlier nor never; and a worker that copies damage
\* ahead of the next frame does so into a buffer that the compositor has
\* returned, from the last frame, while both exist.
FramesShowTheGrid ==
    part = "buffers" =>
        Frames!FrameShowsGrid /\ Frames!RefsMatchHolders /\ Frames!PreappliedIsOurs
===============================================================================
