----------------------------- MODULE FrameBuffers -----------------------------
(***************************************************************************)
(* The pixel buffers of one terminal (shm.c, and grid_render() with its    *)
(* helpers in render.c).  The compositor owns a buffer from its commit to  *)
(* its release, and foot draws into another one meanwhile: that one shows  *)
(* an older frame, which is brought up to date by copying what the last    *)
(* frame changed, moving what the screen scrolled, and drawing the rows    *)
(* that are dirty.  A render worker may do the copying in advance, when    *)
(* the buffer is released (preapplied damage).                             *)
(*                                                                         *)
(* A row of pixels is what it shows: a line of the grid, which may have    *)
(* been drawn elsewhere once more since (miss).  Lines are row structs:    *)
(* they move through the ring as the screen scrolls.  A line's dirty cells are all its changes since it was last    *)
(* drawn, so an entry without a miss is right but for the dirty cells.     *)
(***************************************************************************)
EXTENDS Integers, Sequences, FiniteSets, SequencesExt, FiniteSetsExt

CONSTANTS
    Rows,      \* rows of the screen, at least one
    History,   \* rows of scrollback
    Lines,     \* row structs, at least as many as there are rows
    Buffers,   \* wl_buffers that may exist at once (a bound)
    MaxDamage, \* bound on the entries of grid->scroll_damage
    MaxChanges,\* bound on the changes of the grid between two frames
    Lag,       \* frames without an immediate release that start preapplying (10)
    Admitted,  \* what FrameShowsGrid does not hold for, "view over scroll" and
               \* "region under view": see the actions
    Null       \* no row, no buffer

VARIABLES
    ring,     \* grid->rows, the oldest line first and the screen last
    back,     \* grid->offset - grid->view
    dirty,    \* what of each line is dirty: no cell, some cells, all of them
    scrolls,  \* grid->scroll_damage
    buf,      \* the buffers: [refs, busy, age, fits, region, shows]
    chain,    \* the list chains.grid->bufs
    last,     \* render.last_buf
    pre,      \* workers.preapplied_damage.buf
    copied,   \* the worker is done copying into it
    slow,     \* render.frames_since_last_immediate_release
    preapply, \* render.preapply_last_frame_damage
    changes,  \* how often the grid changed since the last frame
    phase     \* the terminal: "runs", "unmapped", "destroyed"

gridVars == <<ring, back, dirty, scrolls, changes>>
shmVars  == <<buf, chain, last, pre, copied, slow, preapply>>
vars == <<gridVars, shmVars, phase>>

Size == Rows + History
Nothing == [line |-> Null, miss |-> 0]
NoBuffer == [refs |-> 0, busy |-> FALSE, age |-> 0, fits |-> FALSE,
             region |-> [r \in 1 .. Rows |-> "no"], shows |-> [r \in 1 .. Rows |-> Nothing]]

Screen(r) == ring[History + r]
View(r)   == ring[History - back + r]
InUse == {ring[i] : i \in DOMAIN ring} \ {Null}

(***************************************************************************)
(* The grid: what the frames have to show                                  *)
(***************************************************************************)

\* Position i of the screen, counted from 0 and negative above it, in a ring.
At(i) == ((History + i) % Size) + 1

\* grid_swap_row()
Swap(s, i, j) == [s EXCEPT ![i] = s[j], ![j] = s[i]]
Swaps(s, is, n) == FoldLeft(LAMBDA t, i : Swap(t, At(i), At(i + n)), s, is)

\* grid_row_and_alloc() and erase_line() of the rows from .. to - 1: missing
\* lines are allocated, and every cell of the rows is dirty.  The structs that
\* are free are all alike, and the buffers show nothing of a new one.
Erased(s, from, to) ==
    LET gone  == SetToSeq(Lines \ {s[i] : i \in DOMAIN s})
        empty == SetToSeq({i \in {At(j) : j \in from .. to - 1} : s[i] = Null})
    IN [i \in DOMAIN s |-> IF s[i] = Null /\ \E k \in DOMAIN empty : empty[k] = i
                           THEN gone[CHOOSE k \in DOMAIN empty : empty[k] = i] ELSE s[i]]
DirtyRows(s, from, to) ==
    [l \in Lines |-> IF \E j \in from .. to - 1 : s[At(j)] = l THEN "all"
                     ELSE IF \E i \in DOMAIN s : s[i] = l THEN dirty[l] ELSE "no"]

\* A row that was freed is shown by no buffer, whoever gets its memory.
Forget(s) ==
    buf' = [b \in Buffers |-> [buf[b] EXCEPT !.shows =
        [r \in 1 .. Rows |-> IF \E i \in DOMAIN s : s[i] = buf[b].shows[r].line
                             THEN buf[b].shows[r] ELSE Nothing]]]

\* term_damage_rows_in_view(): rows from .. to of the view, from 1.
DirtyView(d, s, b, from, to) ==
    [l \in Lines |-> IF \E r \in from .. to : s[History - b + r] = l THEN "all" ELSE d[l]]

\* term_damage_scroll() adds to the last entry if it is of the same kind (from
\* the whole region on, more lines make no difference).
Damaged(type, start, end, n) ==
    IF scrolls # <<>> /\ Last(scrolls).type = type /\ Last(scrolls).start = start
                      /\ Last(scrolls).end = end
    THEN [scrolls EXCEPT ![Len(scrolls)].lines = IF @ + n > end - start THEN end - start ELSE @ + n]
    ELSE Append(scrolls, [type |-> type, start |-> start, end |-> end, lines |-> n])

\* How far the view can be moved up: grid_sb_start_ignore_uninitialized().
Oldest == Cardinality({i \in 1 .. History : ring[i] = Null})

Downs(n) == [i \in 1 .. n |-> n - i]   \* n - 1, ..., 0

Runs == phase = "runs"
Change ==
    /\ Runs
    /\ changes < MaxChanges
    /\ changes' = changes + 1

\* term_print(), and term_erase() of a part or all of a row
Write(r, how) ==
    /\ Change
    /\ dirty' = [dirty EXCEPT ![Screen(r)] = IF how = "all" \/ @ = "no" THEN how ELSE @]
    /\ UNCHANGED <<ring, back, scrolls, shmVars, phase>>

\* term_scroll_partial() of the region [start, end) by n rows.  With a region
\* that is not the screen, fixed rows change places with rows that the view may
\* be on when it is scrolled back, and nothing marks them dirty.
Scroll(start, end, n) ==
    /\ Change
    /\ back = 0 \/ end - start = Rows \/ "region under view" \in Admitted
    /\ Len(Damaged("scroll", start, end, n)) <= MaxDamage
    /\ LET turned  == SubSeq(ring, n + 1, Size) \o SubSeq(ring, 1, n)
           fixed   == Downs(start) \o [i \in 1 .. Rows - end |-> Rows - i]
           swapped == Swaps(turned, [i \in DOMAIN fixed |-> fixed[i] - n], n)
           erased  == Erased(swapped, end - n, end)
           d       == DirtyRows(erased, end - n, end)
           out     == n - (History - back)     \* rows of the view that are scrolled out
           ahead   == (back + n) % Size        \* from the view to the new screen
           down    == IF out > ahead THEN ahead ELSE out
       IN /\ ring' = erased
          /\ \/ /\ back = 0
                /\ scrolls' = Damaged("scroll", start, end, n)
                /\ dirty' = d
                /\ UNCHANGED back
             \/ /\ back > 0 /\ (out <= 0 \/ down = 0)
                /\ back' = ahead
                /\ dirty' = d
                /\ UNCHANGED scrolls
             \/ /\ back > 0 /\ out > 0 /\ down > 0
                /\ back' = ahead - down
                /\ IF down < Rows
                   THEN /\ scrolls' = Damaged("scroll in view", 0, Rows, down)
                        /\ Len(scrolls') <= MaxDamage
                        /\ dirty' = DirtyView(d, erased, back', Rows - down + 1, Rows)
                   ELSE /\ dirty' = DirtyView(d, erased, back', 1, Rows)
                        /\ UNCHANGED scrolls
    /\ UNCHANGED <<shmVars, phase>>

\* term_scroll_reverse_partial(): the rows that are scrolled out are freed.
ScrollReverse(start, end, n) ==
    /\ Change
    /\ back = 0 \/ end - start = Rows \/ "region under view" \in Admitted
    /\ Len(Damaged("reverse", start, end, n)) <= MaxDamage
    /\ LET freed   == [i \in 1 .. Size |-> IF i \in {At(j) : j \in end - n .. end - 1}
                                           THEN Null ELSE ring[i]]
           turned  == SubSeq(freed, Size - n + 1, Size) \o SubSeq(freed, 1, Size - n)
           fixed   == [i \in 1 .. Rows - end |-> end + i - 1] \o [i \in 1 .. start |-> i - 1]
           swapped == Swaps(turned, fixed, n)
           erased  == Erased(swapped, start, start + n)
           d       == DirtyRows(erased, start, start + n)
       IN /\ ring' = erased
          /\ Forget(freed)
          /\ back' = IF back > n THEN back - n ELSE 0
          /\ scrolls' = IF back = 0 THEN Damaged("reverse", start, end, n) ELSE scrolls
          /\ dirty' = IF back > 0 /\ back < n THEN DirtyView(d, erased, 0, 1, Rows) ELSE d
    /\ UNCHANGED <<chain, last, pre, copied, slow, preapply, phase>>

\* cmd_scrollback_up().  A scroll of the screen that has not been drawn yet is
\* not applied to the pixels any more once the view has left the screen.
ViewUp(n) ==
    /\ Change
    /\ n <= History - back - Oldest
    /\ "view over scroll" \in Admitted \/ n >= Rows
       \/ \A i \in DOMAIN scrolls : scrolls[i].type \notin {"scroll", "reverse"}
    /\ back' = back + n
    /\ IF n < Rows
       THEN /\ scrolls' = Damaged("reverse in view", 0, Rows, n)
            /\ Len(scrolls') <= MaxDamage
            /\ dirty' = DirtyView(dirty, ring, back', 1, n)
       ELSE /\ dirty' = DirtyView(dirty, ring, back', 1, Rows)
            /\ UNCHANGED scrolls
    /\ UNCHANGED <<ring, shmVars, phase>>

\* cmd_scrollback_down()
ViewDown(n) ==
    /\ Change
    /\ n <= back
    /\ back' = back - n
    /\ IF n < Rows
       THEN /\ scrolls' = Damaged("scroll in view", 0, Rows, n)
            /\ Len(scrolls') <= MaxDamage
            /\ dirty' = DirtyView(dirty, ring, back', Rows - n + 1, Rows)
       ELSE /\ dirty' = DirtyView(dirty, ring, back', 1, Rows)
            /\ UNCHANGED scrolls
    /\ UNCHANGED <<ring, shmVars, phase>>

\* term_damage_all(), which marks the screen, and term_damage_view(): a pane
\* that gains or loses the focus, the visual bell, search, other colors.
DamageAll ==
    /\ Change
    /\ \E b \in {0, back} : dirty' = DirtyView(dirty, ring, b, 1, Rows)
    /\ UNCHANGED <<ring, back, scrolls, shmVars, phase>>

(***************************************************************************)
(* Buffers: shm.c                                                          *)
(***************************************************************************)

\* A buffer without references exists until the compositor releases it.
Exists(s, b) == s.buf[b].refs > 0 \/ s.buf[b].busy
Shm == [buf |-> buf, chain |-> chain]

\* shm_unref(), and what shm_purge() and shm_get_buffer() do alike: dropped
\* buffers leave the list; those the compositor still has are deferred.
Unref(s, bs) ==
    LET gone == {b \in bs : s.buf[b].refs = 1}
    IN [buf   |-> [b \in Buffers |->
                     IF b \in gone THEN [NoBuffer EXCEPT !.busy = s.buf[b].busy]
                     ELSE IF b \in bs THEN [s.buf[b] EXCEPT !.refs = @ - 1]
                     ELSE s.buf[b]],
        chain |-> SelectSeq(s.chain, LAMBDA b : b \notin gone)]
\* Mutant of UnrefLast: last_buf is replaced without being unreferenced.
KeepLast(s) == s

UnrefLast(s) == IF last = Null THEN s ELSE Unref(s, {last})
Addref(s, b) == [s EXCEPT !.buf[b].refs = @ + 1]

\* get_new_buffers(), for the chain: at its front, of an age that is not 0 or 1.
NewBuffer(s, b) ==
    [buf |-> [s.buf EXCEPT ![b] = [NoBuffer EXCEPT !.refs = 1, !.busy = TRUE, !.age = 2,
                                                   !.fits = TRUE]],
     chain |-> <<b>> \o s.chain]

\* Nothing is read of the pixels of a buffer that is more than a frame old.
Older(x) == IF x.age = 0 THEN [x EXCEPT !.age = 1]
            ELSE [x EXCEPT !.age = 2, !.region = NoBuffer.region, !.shows = NoBuffer.shows]

\* shm_get_buffer(): buffers of another size go; busy ones are a frame older;
\* the youngest of the others, in the order of the list, is used again, and
\* the rest of them go.  Pairs of the buffers after it and the one to use.
GetBuffer(s) ==
    LET inList == Range(s.chain)
        aged   == [s EXCEPT !.buf = [b \in Buffers |->
                      IF b \in inList /\ s.buf[b].fits /\ s.buf[b].busy
                      THEN Older(s.buf[b]) ELSE s.buf[b]]]
        free   == {b \in inList : s.buf[b].fits /\ ~s.buf[b].busy}
        young  == {b \in free : \A c \in free : s.buf[b].age <= s.buf[c].age}
        first  == SelectInSeq(s.chain, LAMBDA b : b \in young)
        rest   == Unref(aged, {b \in inList : ~s.buf[b].fits}
                              \cup (free \ {s.chain[i] : i \in {first} \ {0}}))
    IN IF first # 0
       THEN {<<[rest EXCEPT !.buf[s.chain[first]].busy = TRUE,
                            !.buf[s.chain[first]].region = NoBuffer.region], s.chain[first]>>}
       ELSE {<<NewBuffer(rest, b), b>> : b \in {c \in Buffers : ~Exists(s, c)}}

\* What pixman copies of one row, clipped to the damage of the last frame.  A
\* part of a row brings one up to date that has missed that frame.
CopiedRow(new, old, part) ==
    IF part = "no" THEN new
    ELSE IF part = "all" \/ new = old THEN old
    ELSE IF new = [old EXCEPT !.miss = 1] /\ old.miss = 0 THEN old
    ELSE Nothing
Copied(s, b, o, part) ==
    [s EXCEPT !.buf[b].shows =
        [r \in 1 .. Rows |-> CopiedRow(@[r], s.buf[o].shows[r], part[r])]]
Everything == [r \in 1 .. Rows |-> "all"]

(***************************************************************************)
(* grid_render()                                                           *)
(***************************************************************************)

\* Mutant of Reapplied: rows to be redrawn are not copied even if they move.
ReappliedWithoutScroll(s, b, d) ==
    IF s.buf[b].age > 1 THEN Copied(s, b, last, Everything)
    ELSE Copied(s, b, last, [r \in 1 .. Rows |->
            IF d[View(r)] = "all" THEN "no" ELSE s.buf[last].region[r]])

\* reapply_old_damage(): rows that will be drawn in full are not copied, unless
\* the pixels have to be moved first.
Reapplied(s, b, d) ==
    IF s.buf[b].age > 1 THEN Copied(s, b, last, Everything)
    ELSE LET old == s.buf[last].region
         IN Copied(s, b, last, [r \in 1 .. Rows |->
                IF scrolls = <<>> /\ d[View(r)] = "all" THEN "no" ELSE old[r]])

\* grid_render_scroll() and grid_render_scroll_reverse(): rows of pixels move
\* within the region and are damage for the next frame.  Of the rows that are
\* scrolled in, SHM scrolling leaves nothing, and memmove() an old row.
Moves(e) == e.lines < e.end - e.start
            /\ (e.type \in {"scroll", "reverse"} => back = 0)
MovedRow(e, r) ==
    IF e.type \in {"scroll", "scroll in view"} THEN r + e.lines ELSE r - e.lines
Moved(s, b, e) ==
    IF ~Moves(e) THEN s
    ELSE [s EXCEPT
        !.buf[b].shows = [r \in 1 .. Rows |->
            IF r \notin e.start + 1 .. e.end THEN @[r]
            ELSE IF MovedRow(e, r) \in e.start + 1 .. e.end THEN @[MovedRow(e, r)]
            ELSE Nothing],
        !.buf[b].region = [r \in 1 .. Rows |->
            IF r \in e.start + 1 .. e.end /\ MovedRow(e, r) \in e.start + 1 .. e.end
            THEN "all" ELSE @[r]]]

\* render_row() of every dirty row of the view, by whichever worker: the dirty
\* cells are drawn, and every other place that shows the line misses them.
Stale(e) == IF e.miss = 0 THEN [e EXCEPT !.miss = 1] ELSE Nothing
Drawn(s, b, d) ==
    LET rows == {r \in 1 .. Rows : d[View(r)] # "no"}
        Shown(c, r) ==
            LET e == s.buf[c].shows[r]
            IN IF c = b /\ r \in rows /\ d[View(r)] = "all"
               THEN [line |-> View(r), miss |-> 0]
               ELSE IF c = b /\ r \in rows
               THEN IF e.line = View(r) /\ e.miss = 0 THEN e ELSE Nothing
               ELSE IF \E q \in rows : View(q) = e.line THEN Stale(e) ELSE e
    IN [s EXCEPT !.buf = [c \in Buffers |-> [s.buf[c] EXCEPT
            !.shows  = [r \in 1 .. Rows |-> Shown(c, r)],
            !.region = IF c # b THEN NoBuffer.region   \* only last_buf's is read
                       ELSE [r \in 1 .. Rows |-> IF @[r] = "all" \/ r \notin rows THEN @[r]
                                                 ELSE d[View(r)]]]]]

\* The whole of grid_render(), which waits for a preapplied frame and for the
\* workers, up to the commit.
Render ==
    /\ Runs
    /\ pre = Null
    /\ \E got \in GetBuffer(Shm) :
       LET b        == got[2]
           s        == got[1]
           noLast   == last = Null \/ (last # Null /\ ~s.buf[last].fits)
           behind   == ~noLast /\ s.buf[b].age > 0
           all      == \A r \in 1 .. Rows : dirty[View(r)] = "all"
           repaint  == noLast \/ (behind /\ s.buf[b].age = 1 /\ all)
           d        == IF repaint THEN DirtyView(dirty, ring, back, 1, Rows) ELSE dirty
           reapplied == IF behind /\ ~repaint THEN Reapplied(s, b, d) ELSE s
           current  == Addref(UnrefLast([reapplied EXCEPT !.buf[b].age = 0]), b)
           moved    == IF repaint THEN current
                       ELSE FoldLeft(LAMBDA t, e : Moved(t, b, e), current, scrolls)
           done     == Drawn(moved, b, d)
       IN /\ buf' = done.buf /\ chain' = done.chain
          /\ last' = b
          /\ IF behind
             THEN /\ slow' = IF slow > Lag THEN slow ELSE slow + 1
                  /\ preapply' = (preapply \/ slow' > Lag)
             ELSE /\ slow' = IF ~noLast /\ ~preapply THEN 0 ELSE slow
                  /\ UNCHANGED preapply
          /\ dirty' = [l \in Lines |-> IF \E r \in 1 .. Rows : View(r) = l THEN "no" ELSE d[l]]
          /\ scrolls' = <<>>
    /\ changes' = 0
    /\ UNCHANGED <<ring, back, pre, copied, phase>>

\* render_resize(), and the reflow after an interactive resize: every row is
\* new, and the next frame copies from no other.
Resize ==
    /\ Runs
    /\ pre = Null
    /\ LET s == UnrefLast(Shm)
       IN /\ \E sameSize \in BOOLEAN :
             buf' = [b \in Buffers |->
                       IF sameSize \/ s.buf[b].refs = 0 THEN s.buf[b]
                       ELSE [NoBuffer EXCEPT !.refs = s.buf[b].refs, !.busy = s.buf[b].busy]]
          /\ chain' = s.chain
    /\ last' = Null
    /\ scrolls' = <<>>
    /\ dirty' = DirtyView(dirty, ring, back, 1, Rows)
    /\ UNCHANGED <<ring, back, changes, pre, copied, slow, preapply, phase>>

(***************************************************************************)
(* The compositor, and the worker that preapplies damage                   *)
(***************************************************************************)

\* Mutant of Release: any buffer that is released is preapplied to.
ReleasePreapplies(b) ==
    /\ buf[b].busy
    /\ IF buf[b].refs = 0
       THEN buf' = [buf EXCEPT ![b] = NoBuffer] /\ UNCHANGED pre
       ELSE /\ buf' = [buf EXCEPT ![b].busy = FALSE]
            /\ pre' = IF preapply /\ last # Null /\ pre = Null THEN b ELSE pre
    /\ UNCHANGED <<gridVars, chain, last, copied, slow, preapply, phase>>

\* buffer_release(), and render_buffer_release_callback() for a buffer that is
\* still referenced: it may start a worker.
Release(b) ==
    /\ buf[b].busy
    /\ IF buf[b].refs = 0
       THEN buf' = [buf EXCEPT ![b] = NoBuffer] /\ UNCHANGED pre
       ELSE /\ buf' = [buf EXCEPT ![b].busy = FALSE]
            /\ pre' = IF buf[b].age = 1 /\ preapply /\ last # Null /\ pre = Null
                         /\ buf[last].age = 0 /\ buf[last].fits = buf[b].fits
                      THEN b ELSE pre
    /\ UNCHANGED <<gridVars, chain, last, copied, slow, preapply, phase>>

\* The worker's job -3, in the two steps others can see: the copy, and the swap
\* of last_buf with which it ends.
Preapply ==
    /\ pre # Null /\ ~copied
    /\ copied' = TRUE
    /\ LET s == CASE buf[pre].age = 0 -> Shm
                  [] buf[pre].age = 1 -> Copied(Shm, pre, last, buf[last].region)
                  [] OTHER            -> Copied(Shm, pre, last, Everything)
       IN buf' = [s.buf EXCEPT ![pre].age = 0]
    /\ UNCHANGED <<gridVars, chain, last, pre, slow, preapply, phase>>
PreapplyDone ==
    /\ pre # Null /\ copied
    /\ LET s == Addref(UnrefLast(Shm), pre)
       IN buf' = s.buf /\ chain' = s.chain
    /\ last' = pre
    /\ pre' = Null
    /\ copied' = FALSE
    /\ UNCHANGED <<gridVars, slow, preapply, phase>>

(***************************************************************************)
(* The end                                                                 *)
(***************************************************************************)

\* No frame follows: what the grid and the buffers show does not matter.
Forgotten ==
    /\ ring' = [i \in 1 .. Size |-> Null] /\ back' = 0 /\ scrolls' = <<>>
    /\ dirty' = [l \in Lines |-> "no"] /\ changes' = 0
    /\ slow' = 0 /\ preapply' = FALSE
Bare(s) == [b \in Buffers |-> [NoBuffer EXCEPT !.refs = s.buf[b].refs, !.busy = s.buf[b].busy]]

\* wayl_win_destroy(): shm_purge() of the chain, after waiting for the worker.
\* A tab that leaves its window to others skips it.
Unmap ==
    /\ Runs
    /\ pre = Null
    /\ LET s == Unref(Shm, Range(chain)) IN buf' = Bare(s) /\ chain' = s.chain
    /\ phase' = "unmapped"
    /\ Forgotten
    /\ UNCHANGED <<last, pre, copied>>

\* term_destroy(), after joining the workers: shm_unref() and shm_chain_free().
Destroy ==
    /\ phase # "destroyed"
    /\ pre = Null
    /\ LET s == UnrefLast(Shm)
           t == Unref(s, Range(s.chain))
       IN buf' = Bare(t) /\ chain' = t.chain
    /\ last' = Null
    /\ phase' = "destroyed"
    /\ Forgotten
    /\ UNCHANGED <<pre, copied>>

Init ==
    /\ ring \in {[i \in 1 .. Size |-> IF i <= History THEN Null ELSE f[i - History]] :
                 f \in {g \in [1 .. Rows -> Lines] : IsInjective(g)}}
    /\ back = 0
    /\ dirty = DirtyRows(ring, 0, Rows)
    /\ scrolls = <<>>
    /\ buf = [b \in Buffers |-> NoBuffer]
    /\ chain = <<>>
    /\ last = Null /\ pre = Null /\ copied = FALSE
    /\ slow = 0 /\ preapply = FALSE
    /\ phase = "runs" /\ changes = 0

Next ==
    \/ \E r \in 1 .. Rows, how \in {"some", "all"} : Write(r, how)
    \/ \E start, end \in 0 .. Rows, n \in 1 .. Rows :
          n <= end - start /\ (Scroll(start, end, n) \/ ScrollReverse(start, end, n))
    \/ \E n \in 1 .. History : ViewUp(n) \/ ViewDown(n)
    \/ DamageAll
    \/ Render
    \/ Resize
    \/ \E b \in Buffers : Release(b)
    \/ Preapply \/ PreapplyDone
    \/ Unmap \/ Destroy

Spec == Init /\ [][Next]_vars

(***************************************************************************)
(* Properties                                                              *)
(***************************************************************************)

\* What the last frame shows, moved by the scrolls that are still to be drawn,
\* is the grid but for the dirty cells: so the next frame shows the grid, however
\* old the buffer it is drawn into and whatever was copied into that before.
\* It is what the damage tracking of term_scroll_partial(), cmd_scrollback_up()
\* and grid_render() is for.
FrameShowsGrid ==
    last # Null /\ phase = "runs" =>
        LET s == FoldLeft(LAMBDA t, e : Moved(t, last, e), Shm, scrolls)
        IN \A r \in 1 .. Rows :
              \/ dirty[View(r)] = "all"
              \/ /\ s.buf[last].shows[r].line = View(r)
                 /\ s.buf[last].shows[r].miss = 0

\* Every buffer is referenced as often as the chain and last_buf hold it, so
\* that it is neither freed under one of them nor kept for ever: shm_chain_free()
\* finds no buffer left in the end.
RefsMatchHolders ==
    /\ phase = "runs" => \A b \in Buffers :
          buf[b].refs = (IF \E i \in DOMAIN chain : chain[i] = b THEN 1 ELSE 0)
                        + (IF last = b THEN 1 ELSE 0)
    /\ phase = "destroyed" => chain = <<>> /\ \A b \in Buffers : buf[b].refs = 0

\* A worker copies into a buffer that exists, that the compositor has returned,
\* and that is not the frame it copies from.
PreappliedIsOurs ==
    pre # Null => /\ buf[pre].refs > 0 /\ ~buf[pre].busy
                  /\ last # Null /\ last # pre /\ buf[last].refs > 0

===============================================================================
