---------------------------- MODULE RenderWorkers -----------------------------
(***************************************************************************)
(* The render threads of one terminal and the main thread that feeds them  *)
(* (render_worker_thread(), grid_render(), render_wait_for_preapply_damage *)
(* and render_buffer_release_callback() in render.c; term_destroy()).  Two *)
(* semaphores count frames to start and shares of a frame that are done,   *)
(* and one queue, under a lock, holds rows to draw and three commands.     *)
(* What is done under the lock is one step here.                           *)
(***************************************************************************)
EXTENDS Integers, Sequences, FiniteSets

CONSTANTS
    Workers,   \* the threads
    MaxRow     \* rows of the screen

ASSUME WorkersAssumption ==
    Workers # {} /\ IsFiniteSet(Workers) /\ MaxRow \in Nat

\* Jobs are rows to draw and three commands.
FrameDone == -1
Exit      == -2
PreJob    == -3
ScreenRows == 1 .. MaxRow

VARIABLES
    main,     \* the main thread: in its "loop", "waits" for a frame, "sleeps"
              \* until damage is preapplied, "joins" the threads, or "ended"
    left,     \* how often it still has to wait for `done'
    start,    \* workers.start ...
    done,     \* ... and workers.done
    queue,    \* workers.queue
    target,   \* workers.buf: whether it is a frame's
    applying, \* preapplied_damage.buf # NULL
    thread,   \* each worker: at sem_wait ("idle"), about to "pop", in a job, "exited"
    job,      \* the row it draws
    into,     \* its local `buf': what `target' was when it started
    asked,    \* the dirty rows of the frame
    drawn     \* how often each was drawn

mainVars == <<main, left, start, done, queue, target, applying, asked>>
workVars == <<thread, job, into, drawn>>
vars == <<mainVars, workVars>>

Count == Cardinality(Workers)

\* What each thread waits for: `done', the threads' end; `start', the lock.
FrameMayGoOn == main = "waits" /\ done > 0
AllExited    == main = "joins" /\ \A w \in Workers : thread[w] = "exited"
MayStart(w)  == thread[w] = "idle" /\ start > 0
MayPop(w)    == thread[w] = "pop" /\ queue # <<>>

(***************************************************************************)
(* The main thread                                                         *)
(***************************************************************************)

\* The rows in the order in which they are pushed, from the top.
InOrder(rows) ==
    {q \in [1 .. Cardinality(rows) -> rows] :
        /\ \A r \in rows : \E i \in DOMAIN q : q[i] = r
        /\ \A i, j \in DOMAIN q : i < j => q[i] < q[j]}

\* Mutant of GridRender: no wait for damage that is being preapplied.
GridRenderDoesNotWait(rows) ==
    /\ main = "loop"
    /\ start' = start + Count
    /\ \E order \in InOrder(rows) :
          queue' = queue \o order \o [i \in 1 .. Count |-> FrameDone]
    /\ target' = TRUE
    /\ main' = "waits" /\ left' = Count
    /\ asked' = rows /\ drawn' = [r \in ScreenRows |-> 0]
    /\ UNCHANGED <<done, applying, thread, job, into>>

\* grid_render(): the dirty rows, and an end of the frame for each worker.
GridRender(rows) ==
    /\ main = "loop" /\ ~applying
    /\ start' = start + Count
    /\ \E order \in InOrder(rows) :
          queue' = queue \o order \o [i \in 1 .. Count |-> FrameDone]
    /\ target' = TRUE
    /\ main' = "waits" /\ left' = Count
    /\ asked' = rows /\ drawn' = [r \in ScreenRows |-> 0]
    /\ UNCHANGED <<done, applying, thread, job, into>>

\* One sem_wait(done); after the last the frame is complete.
FrameWait ==
    /\ FrameMayGoOn
    /\ done' = done - 1
    /\ left' = left - 1
    /\ IF left = 1 THEN main' = "loop" /\ target' = FALSE ELSE UNCHANGED <<main, target>>
    /\ UNCHANGED <<start, queue, applying, asked, workVars>>

\* render_wait_for_preapply_damage(), from grid_render(), render_resize() and
\* wayl_win_destroy(): asleep on the condition until the worker signals it.
WaitForPreapply ==
    /\ main = "loop" /\ applying
    /\ main' = "sleeps"
    /\ UNCHANGED <<left, start, done, queue, target, applying, asked, workVars>>

\* render_buffer_release_callback(), for a buffer to bring up to date.
BufferReleased ==
    /\ main = "loop" /\ ~applying
    /\ applying' = TRUE
    /\ start' = start + 1
    /\ queue' = Append(queue, PreJob)
    /\ UNCHANGED <<main, left, done, target, asked, workVars>>

\* term_destroy(): every thread is told to exit, and then joined.  Damage may
\* still be being preapplied: only a window's last tab waits for that before.
TermDestroy ==
    /\ main = "loop"
    /\ start' = start + Count
    /\ queue' = queue \o [i \in 1 .. Count |-> Exit]
    /\ main' = "joins"
    /\ UNCHANGED <<left, done, target, applying, asked, workVars>>
Joined ==
    /\ AllExited
    /\ main' = "ended"
    /\ UNCHANGED <<left, start, done, queue, target, applying, asked, workVars>>

(***************************************************************************)
(* render_worker_thread()                                                  *)
(***************************************************************************)

Start(w) ==
    /\ MayStart(w)
    /\ start' = start - 1
    /\ thread' = [thread EXCEPT ![w] = "pop"]
    /\ into' = [into EXCEPT ![w] = target]
    /\ UNCHANGED <<main, left, done, queue, target, applying, asked, job, drawn>>

\* Takes a job off the queue; the command to end a frame, or to exit, is done
\* at once.
Pop(w) ==
    /\ MayPop(w)
    /\ queue' = Tail(queue)
    /\ thread' = [thread EXCEPT ![w] = CASE Head(queue) = FrameDone -> "idle"
                                         [] Head(queue) = Exit      -> "exited"
                                         [] Head(queue) = PreJob    -> "applying"
                                         [] OTHER                   -> "drawing"]
    /\ job' = [job EXCEPT ![w] = Head(queue)]
    /\ done' = IF Head(queue) = FrameDone THEN done + 1 ELSE done
    /\ UNCHANGED <<main, left, start, target, applying, asked, into, drawn>>

\* render_row()
Draw(w) ==
    /\ thread[w] = "drawing"
    /\ drawn' = [drawn EXCEPT ![job[w]] = @ + 1]
    /\ thread' = [thread EXCEPT ![w] = "pop"]
    /\ UNCHANGED <<mainVars, job, into>>

\* Mutant of Preapply: the main thread is not woken up.
PreapplyUnsignalled(w) ==
    /\ thread[w] = "applying"
    /\ applying' = FALSE
    /\ thread' = [thread EXCEPT ![w] = "idle"]
    /\ UNCHANGED <<main, left, start, done, queue, target, asked, job, into, drawn>>

\* The job -3, which ends with cnd_signal() and without a post of `done'.
Preapply(w) ==
    /\ thread[w] = "applying"
    /\ applying' = FALSE
    /\ main' = IF main = "sleeps" THEN "loop" ELSE main
    /\ thread' = [thread EXCEPT ![w] = "idle"]
    /\ UNCHANGED <<left, start, done, queue, target, asked, job, into, drawn>>

Init ==
    /\ main = "loop" /\ left = 0 /\ start = 0 /\ done = 0 /\ queue = <<>>
    /\ target = FALSE /\ applying = FALSE /\ asked = {}
    /\ thread = [w \in Workers |-> "idle"]
    /\ job = [w \in Workers |-> FrameDone]
    /\ into = [w \in Workers |-> FALSE]
    /\ drawn = [r \in ScreenRows |-> 0]

Work(w) == Start(w) \/ Pop(w) \/ Draw(w) \/ Preapply(w)

Next ==
    \/ \E rows \in SUBSET ScreenRows : GridRender(rows)
    \/ FrameWait \/ WaitForPreapply \/ BufferReleased \/ TermDestroy \/ Joined
    \/ \E w \in Workers : Work(w)

Spec == Init /\ [][Next]_vars

(***************************************************************************)
(* Properties                                                              *)
(***************************************************************************)

\* When grid_render() goes on after its waits, every dirty row was drawn once,
\* and no other, whatever the workers' order; no worker draws after that, and
\* none draws with a `buf' it read when there was no frame.
FrameIsComplete ==
    /\ main = "loop" => \A r \in ScreenRows : drawn[r] = (IF r \in asked THEN 1 ELSE 0)
    /\ \A w \in Workers : thread[w] = "drawing" => into[w] /\ main = "waits"

\* Main thread and workers never all wait for each other: a frame that was begun is
\* committed, damage that is preapplied ends, and the threads of a terminal that
\* is destroyed can be joined.
NobodyIsStuck ==
    \/ main \in {"loop", "ended"}
    \/ FrameMayGoOn \/ AllExited
    \/ \E w \in Workers : MayStart(w) \/ MayPop(w) \/ thread[w] \in {"drawing", "applying"}
===============================================================================
