# A verification of foot's terminals, tabs, rendering, input and scrollback

foot is a Wayland terminal emulator: one process, one thread that runs an event
loop (plus render workers), and in this tree several terminals as tabs of one
window, a server mode, and split views. This directory holds TLA+ models of the
parts whose correctness depends on the order of events or on arithmetic that a
test hardly covers, the TLC configurations that check them on small instances,
and proofs, for instances of any size, about eight of them.

Run a configuration with `tlc -config lifecycle.cfg MCLifecycle`, a proof with
`tlapm Lifecycle_proofs.tla`.

1. The system, 2. the modules, 3. the runs, 4. fairness, 5. what is proved,
6. constants that admit known defects, 7. what is not modelled, 8. plan.

## 1. The system

foot is driven by `fdm_poll()`. Every source of events (PTYs, the Wayland socket,
timers, event fds, client sockets, clipboard pipes, helpers' pipes) is a file
descriptor with a handler; SIGCHLD and the theme and termination signals are
delivered only inside `epoll_pwait()`. After each batch of handlers the loop calls
its hooks, of which the renderer's draws what is due. Handlers run to
completion, with two exceptions that dispatch Wayland events in the middle:
`fdm_ptmx()` peeks for input between reads, and `wayl_win_destroy()` waits for the
compositor. So interleavings are those of whole handlers, and of events inside
these two. The render workers are the only threads.

| Component | State it keeps | Operations | Hard because | Correct when |
|---|---|---|---|---|
| Terminal life (`terminal.c`) | `shutdown.*`, ptmx, slave, window pointer | `term_init`, `term_shutdown`, `fdm_shutdown`, `fdm_client_terminated`, `term_destroy` | window and slave end in either order; nested dispatch | freed once, after both; nothing refers to it then; every shutdown ends |
| Event loop, reaper (`fdm.c`, `reaper.c`) | registered fds, batch in progress, children | `fdm_poll`, `fdm_reap` | handlers delete fds of the same batch | a deleted handler is not called |
| Tab list (`tab*.c`) | ordered tabs, active, pinned, hovered pane, menu target | attach, detach, switch, pin, split, menu | indices kept across events | indices mean what they meant |
| Frames (`render.c`, `tab.c`) | frame callbacks, refresh and pending flags | hook, `frame_callback`, switch, split | callbacks in flight across switches | no tab freezes; callbacks go to live terminals |
| Server (`server.c`) | clients, instances | accept, setup, hang-up, exit code, themes | instance, client and terminal end in any order | each outlives who points to it; the right client is answered |
| PTY output (`terminal.c`, `async.c`) | two queues, paste flag, EPOLLOUT | `term_to_slave`, `term_paste_data_to_slave`, `fdm_ptmx_out` | partial writes | nothing lost, reordered or stuck |
| Clipboard (`selection.c`) | offers, sources, receivers, filter, timer | receive, send, enter, drop, cancel | offers replace each other; pipes cut anywhere; timer races data | what was copied is pasted, filtered, and ends |
| Buffers (`render.c`, `shm.c`) | buffers with ages, damage, reference counts | `grid_render`, `reapply_old_damage`, scroll, release | an old frame is brought up to date, not redrawn | the frame shows the grid |
| Workers (`render.c`) | queue, two semaphores, preapply flag | `grid_render`, `render_worker_thread`, join | threads | frames are complete; no deadlock |
| Delayed rendering, app-sync (`terminal.c`) | lower, upper and sync timers, title timer | `fdm_delayed_render`, `term_enable_app_sync_updates`, ... | timers race reads | every change is shown in time |
| Tab activity (`tab-activity.c`, `tab.c`) | output history, pulse timer | record, state, next change | time | marks follow activity |
| VT parser (`vt.c`, `dcs.c`) | state, parameters, strings | `vt_from_slave` | limits, cancellation | what was written is dispatched |
| Sequences (`csi.c`, `osc.c`, `terminal.c`) | cursor, region, modes, charsets, keyboard flags | their handlers | modes bound each other, and are saved and restored apart | bounds hold, the printer fits, what is restored is what was saved |
| Grid, scrollback (`grid.c`, `terminal.c`) | ring of rows, offset, view | scroll, erase, resize, reflow | ring arithmetic | a window onto the last lines |
| Images, ranges (`sixel.c`, `grid.c`) | list of rectangles; ranges of columns | insert, overwrite, scroll, reflow | cut and joined at edges | each cell shows what was drawn last |
| Selection, search (`selection.c`, `search.c`) | points, kind, pivot; match, view | start, update, extend; find, extend | wide characters, the ring's seam | covers what was dragged over; finds what is there |
| Input (`input.c`) | focus, buttons, fingers, repeat, composing | key, pointer and touch events | what is held while focus changes | releases go where presses went |
| URL mode (`url-mode.c`) | labels, typed keys, tokens | enter, type, open, leave | several tabs, late answers | what is opened is what was shown |
| Notifications (`notify.c`) | helpers, pipes, active list | notify, close, output, reaped | helpers outlive, are replaced, write in pieces | reported once, as it was |
| IME, configuration, pure helpers | | | mostly sequential | not modelled |

`PROJECT.json` lists every component with its status and the reason, the
hazards, each at its line, and the findings.

## 2. The modules

The actions carry the names of the functions they model, and `map` in
`PROJECT.json` gives the lines of each. Every module counts as the code does
unless it says otherwise; bounds are CONSTANTS, commented as such.

| Module | Models | Composition |
|---|---|---|
| `TerminalLife` | what the comment "Shutdown logic" (`terminal.c` 1650-1712) promises of one terminal | abstract |
| `Lifecycle` | terminals, windows, the event loop, reaper and shutdown | implements `TerminalLife` |
| `Server` | connections, instances; theme switches by signals to the server or a footclient, by bindings and resets | extends `Lifecycle`, and implements it |
| `PtyWriter` | everything written to one PTY | own |
| `PasteReceive` | one paste from the pipe through the filter, which scans each read in place, and the decoder of text or of URI lists | feeds `PtyWriter`'s `ReceiveOffer` |
| `Clipboard` | which text is offered, sent and received: selections, drags, offers, MIME types | above `PasteReceive` |
| `TabFrames` | refresh flags and frame callbacks of one window | own |
| `RenderTimers` | when one terminal draws | details `TabFrames`' output |
| `RenderWorkers` | the render threads, their queue and semaphores | below `FrameBuffers`' drawing |
| `FrameBuffers` | buffers, ages, damage, preapplied damage | own |
| `TabBar`, `TabActivity` | the ordered tab list; marks and the pulse timer | `Lifecycle` has the list as a set |
| `ScreenLog` | a history of lines, a screen, and how far the user has scrolled back, without a ring | abstract |
| `Scrollback` | the ring of rows, the view, a selection's rows, search's and URL mode's hold on the view | implements `ScreenLog` |
| `Reflow`, `RowRanges`, `Sixel` | rewrapped text, hyperlinks and underlines, images | beside `Scrollback` |
| `Selecting`, `Search`, `UrlMode` | the shape of a selection and its text; matches; labels | beside `Scrollback` |
| `VtParser`, `Screen`, `AsciiPrinter`, `Modes`, `KeyboardFlags` | what a terminal's output drives | own |
| `Pointer`, `Keyboard` | pointer, touch and key events of a seat | own |
| `Notifications` | helper processes of notifications | own |
| `*_proofs` | theorems (section 5) | extend their module; `Lifecycle_proofs` also `Server`, `Windows_proofs` the instances of `Clipboard`, `Pointer`, `Keyboard` and `UrlMode` in `MCWindows`, `Tabs_proofs` those of `TabBar` in `MCTabs` and of `TabFrames` in `MCTabFrames` |
| `MC*` | instances for TLC | see below |

Several `MC` modules put parts that do not interact side by side, for one run: a
variable `part` says which one a behaviour is about, and the others stay at a dummy
or at their initial state. The states of such a run are the sum of its parts',
not their product, and its properties begin with `part = ... =>`.

Notes on the correspondence:

- **Lifecycle.** `heap` is the allocation of `struct terminal`; `closing`, `reaped` and
  `timer` are fields of `term->shutdown`; `evfd` the terminals with an `fdm_shutdown()`
  event pending; `at`, `cur` and `batch` the program counter of the loop. `Poll` returns a
  batch of ready handlers, `Take` consumes one, in any order; `DeliverSIGCHLD` needs that
  nothing certain to be ready is. In `at = "wayland"`, `"pty"` and `"unmap"` Wayland events run.
- **Server.** An instance has the name of the terminal it was made for; `owner[t]` is
  `term->shutdown.cb_data`. `theme` is what a terminal uses, reached as the code does through
  clients and their instances; `asked` is history, the theme last asked of all terminals that
  there are or of this one. `conf` says whose configuration a terminal has: a footclient may override the server's.
- **PtyWriter.** A key event is two bytes, so a write may take all, part or nothing. `out` is
  what the PTY accepted, `receiving` the receivers in flight with the chunks they delivered.
- **PasteReceive.** `SkipOne`, `ScanByte` and `Scan` are the loop over what one `read()` left in
  the buffer: bytes are replaced in place, or skipped with what precedes them passed on and the scan
  begun again behind them. `Sanitised` of the property looks at the whole text instead, however it was cut. It
  excepts one thing, which `cuts` remembers: a read that ends between CR and LF, where the code
  gives two line ends (a finding).
- **RenderTimers.** What a read brings is a pair of items of the output; timers count down,
  `Off` when not armed; a handler whose timer was armed again in the same batch reads nothing.
- **RenderWorkers.** What is done under the queue's lock is one step. `start` and `done` are the
  semaphores, `asked` and `drawn` history.
- **FrameBuffers.** A row of pixels is the line it shows and whether it misses a change; `chain`
  is the list of buffers, `pre` the buffer being preapplied.
- **Scrollback.** Of a row's content only the prompt marker is kept, which moves with the row and
  tells rows apart. `ImplementsScreenLog` maps the allocated rows before the screen to the history.
- **VtParser.** A byte stands for all that the switches treat alike.
- **TabBar** counts tabs from 1, `Search` and `VtParser` have their own abstractions of cells and
  bytes, described in their headers.

## 3. The runs

| Run | Instance | Shows |
|---|---|---|
| `lifecycle` | `MCLifecycle`: a server, 3 terminals (one held at exit, one without a slave), 2 windows | `CallbacksHaveTerminal`: no handler, frame callback or pending event of a freed terminal; `WindowsAndTabsAgree`, `FocusIsActiveTab`; `ShutdownIsDriven`: a terminal being shut down always waits for something that will come; `ImplementsTerminalLife`; `ShutdownCompletes` |
| `server` | `MCServer`: 2 clients, 2 terminals, 2 windows, 2 themes, configurations of their own; 2 notification helpers | `WaitingClientsHaveTerminals`, `AnsweredWhenDestroyed`: a waiting client is answered exactly when its terminal is destroyed; `ThemeIsAsAsked`: signals, bindings and resets switch the terminals they are meant for, no other; `NotificationsAreReported` |
| `pty` | `PtyWriter`: 2 keys, 2 pastes of 2 chunks, any partial write, closing at any time | `DataInOrder`; `BracketsMatch`: pastes come in turn, each whole within its own delimiters, if bracketed; `KeysAreDelivered` |
| `frames` | `MCTabFrames`: 3 tabs | `StaleIsDriven`: a tab with something to show will show it; `FrameHasTerminal`; `ShownIsDrawn` |
| `tabs` | `MCTabs`: a list of up to 4 tabs; the activity of 2 tabs over 5 units of time | `HoverIsPane`: the kept index means the pane that the pointer entered; `MarksAreTrue`: a mark is news, shown in time |
| `scrollback` | `Scrollback`: a ring of 4 rows under a screen of 3, selections, search and URL mode | `RowsAllocated`: no row that is looked at is NULL; `ImplementsScreenLog`; `SelectionStays` |
| `looking` | `MCLooking`: a ring of 8 rows under 2, two rows of wide and narrow text, delimiters and hard line ends | `PromptKeysMoveTheView`; `SelectionIsAsDragged`; `SearchFindsTheText`, also when a match is extended by characters, words or to white space |
| `rendering` | `MCRendering`: 2 buffers, a grid of 2 rows with 1 of history; 3 workers, 3 rows | `FramesShowTheGrid` (and a preapplied buffer is our own), `FrameIsComplete`, `NobodyIsStuck` |
| `timeouts` | `MCTimeouts`: texts, or lists of URIs, of up to 4 characters of 5 classes, cut anywhere, also between CR and LF, with the paste's timer; output, updates and titles with the two render timers | `PasteIsFiltered`, `PasteEndsAtLast`, `DelayIsBounded`, `OutputIsDrawn` |
| `windows` | `MCWindows`: a stand-alone foot, 3 terminals; 2 tabs with 2 buttons, 3 keys, fingers; URL mode; 2 selections and 2 pastes | `TabsArePolled`, `HeldInputIsLetGo`, `UrlsAreOpenedAsShown`, `ClipboardPastesWhatWasCopied` |
| `grid` | `MCGrid`: 3 resizes between narrow and wide; rows of 6 cells; a ring of 4 with 2 images | `ResizeKeepsText`, `CellsAreAsDrawn` |
| `terminal` | `MCTerminal`: sequences of 5 bytes, 2 sizes of screen, 3 charsets, saved modes and flags | `SequencesAsWritten`, `PrinterFits`, `StateIsKept` |

Bounds. Three terminals are enough for an active tab that closes with another
closing and a third that stays; two windows for every pair of a window that is
destroyed and one that takes events meanwhile. Freed names are not used again, so
a run sees as many terminals as there are names. `lifecycle` has its windows in a
server and `windows` its tabs in a stand-alone foot, so that both kinds of
ownership are covered. Two pastes and two keys have every order of begin, chunk,
end and key, also with partial writes; four characters have a CR LF with
something before and after it. In `timeouts` the upper timer is longer than the
lower, and the update's longer than both, so that each may expire inside
another. Three workers and three rows have a worker without a row, and one with
two. Two buffers are what foot uses; a grid of two rows with one of history has
scrolls out of, into and inside the view. A ring of 4 rows under a screen of 3
has one row of history, every position of a selection and of the remembered view,
and regions with rows above, below and both; `Laps` bounds how often a row number
may grow by the ring's size, and the code masks it again when the view goes down.
The ring of 8 under 2 has a history longer than the screen, for the prompt keys.
In `grid` widths 2 and 6 have lines that take one row and three; images of one and two
rows meet at edges and overlap. Four tabs allow two pinned and two others.
In `looking`, `MaxExtended` of 3 has a blank and a word after a first match, which rows of three
cells allow. `Settled`, in `server`, bounds what two notification helpers do at a time, and the
server: no more than two events are ready at a time while themes differ, and one while a terminal,
which is not shutting down then, has a configuration of its own. Batches of any size come with themes
that are all the same, and `ThemeReaches` proves the property without these bounds. In `looking` it keeps
a search to the screen where its match was extended, and a paste to texts of one character.

`CHECK_DEADLOCK FALSE` is stated where the system really stops: foot ends with its
last terminal, a paste with its last byte, and histories when their bounded
names and counters are used up.

Every property of a run has a mutant: a changed definition, kept next to the
original and commented as a mutant, under which TLC finds the property violated.

## 4. Fairness

- `Lifecycle`: weak fairness of polling and of the handlers (the loop runs, handlers
  return), of a process that got SIGKILL ending, strong fairness of an armed timer
  being among the ready fds, and of SIGCHLD delivery: `epoll_pwait()` prefers ready
  events to signals, so delivery is only possible again and again, whenever the
  loop finds nothing ready. This says that other fds are not ready in every single
  iteration for ever, which the code itself needs too.
- `PtyWriter`: the PTY polls writable eventually and a paste ends (which is what
  `PasteEnds` of `PasteReceive` shows, given the timer).
- `PasteReceive`: the loop runs and a timer that is not armed again expires.
- `TabFrames`: the hook runs and the compositor calls frame callbacks.
- `RenderTimers`: the loop handles, polls and calls its hook; time passes again and again
  (strong, since output may keep the loop busy), and the compositor's frame event is polled.
- Everything else is checked for safety only.

## 5. What is proved

tlapm checks every proof. Each rests on an inductive invariant that holds of every
reachable state, for every value of the constants; the steps are proved action by
action.

| Module | Theorems | Of the runs' properties | Hypotheses |
|---|---|---|---|
| `Lifecycle_proofs` | `Invariance`, `NoCallbackOnFreed`, `WindowsAndTabs`, `ShutdownDriven`, `NoSignal`, `Focus`, `ImplementsLife`, `WindowTakesDying`, `Polled` | `CallbacksHaveTerminal`, `WindowsAndTabsAgree`, `ShutdownIsDriven`, `FocusIsActiveTab`, `ImplementsTerminalLife`, `TabsArePolled` | `~TabsOntoDying`, `~DestroyEarly`; `Polled` also `~TabsOntoUnconfigured` |
| `Lifecycle_proofs`, of `Server` | `ServerInvariance`, `ClientsHaveTerminals`, `ThemeReaches`, `InstancesOutlive`, `NoNull`, `ServerIsLifecycle`, `Answered` | `WaitingClientsHaveTerminals`, `ThemeIsAsAsked`, `AnsweredWhenDestroyed` | those and `~UserTabs`; `NoNull` only `~SwitchDuringSetup` and `~SwitchUnmapped` |
| `Tabs_proofs`, of `TabFrames` | `NoTabIsStranded`, `FramesAreAlive`, `OnlyActiveDraws` | `StaleIsDriven`, `FrameHasTerminal` | `~SplitsDuringFrame` |
| `PtyWriter_proofs` | `Invariance`, `Ordered`, `Polled`, `Bracketed`, `Receiving` | `DataInOrder`, `BracketsMatch` | none; `Bracketed`: `~ModeSwitches` and `~DropDuringPaste`; `Receiving`: `~DropDuringPaste` |
| `RenderWorkers_proofs` | `Invariance`, `FrameComplete`, `QueueIsNotEmpty`, `Unstuck` | `FrameIsComplete`, `NobodyIsStuck` | none |
| `RenderTimers_proofs` | `Invariance`, `DelayBounded`, `NothingIsForgotten`, `UpdatesHeld` | `DelayIsBounded` | none |
| `Terminal_proofs` | `Invariance`, `PrinterKept`; `PartsKept`, `StateKept` | `PrinterFits`; `StateIsKept` | `"single shift" \notin Defects`; `Defects = {}` |
| `Tabs_proofs` | `Invariance`, `MarksTrue`, `HoverPane` | `MarksAreTrue`, `HoverIsPane` | `Admitted = {}`; `HoverPane` none |
| `Scrollback_proofs` | `NoRowIsNull`, `NoLineIsLost`, `SelectedTextStays`, `PromptKeysMoveIt` | `RowsAllocated`, `ImplementsScreenLog`, `SelectionStays` | neither `"dangling start"` nor `"stale view"` in `Admitted`; `NoLineIsLost` also neither `"reordered"` nor `"overtaken view"`, `SelectedTextStays` not `"moved selection"`, `PromptKeysMoveIt` not `"wrapped prompt"` |
| `Windows_proofs` | `PastesAreWhatWasCopied`, `PressesAreLetGo`, `UrlsAreAsShown` | `ClipboardPastesWhatWasCopied`, `HeldInputIsLetGo`, `UrlsAreOpenedAsShown` | `Admitted = {}` |

The hypotheses leave out the steps of section 6, each a defect of the code that makes
the property false. Assumptions on constants are named in the modules: a finite
set of workers that is not empty, delays that are natural numbers, `NoTerm` not a
terminal, `"none"` neither a tab nor a key, and two letters at least for the labels of URLs, each
of them once. The code needs the last one but does not check `url.label-letters`:
with one letter and two URLs `generate_key_combos()` does not end. The bounds of TLC's instances (`MaxKeys`, `MaxSyncs`, ...) are constants of any size.

The arguments:

- **Lifecycle.** `IInv` says what is known in each stage of a terminal's life (`StageInv`),
  how slave, timer and event fd go together (`SlaveInv`), who will finish its shutdown
  (`EventInv`), that a tab list is who points to its window (`WindowInv`), and where the loop
  may be (`LoopInv`). The conjunct that carries the proof is in `EventInv`: while children are
  reaped an event fd can only belong to a terminal that was just reaped. It holds because
  signals come only when no event is ready, and is why `fdm_client_terminated()`, which calls
  `shutdown_maybe_done()` without knowing of the event fd, is not too early.
  `ImplementsLife` shows step by step that a terminal is destroyed only when window and
  client are gone. `WindowTakesDying` is an action property from the same invariant, and
  `Polled` has an invariant of its own on top: a tab of a window that is not yet configured
  is the window's only one.
- **Server.** Every step is one of Lifecycle's (`ServerIsLifecycle`), so `IInv` is at hand;
  `SInv` adds that an instance and its terminal have the same life, and that its client waits
  or has hung up while it lives: so clients with an instance and the `--no-wait` instances lead to every
  terminal, and each terminal has the theme last asked of it.
- **RenderWorkers.** Three invariants, one per phase. In a frame the queue ends in as many
  ends-of-frame as were not counted by `done`, and as many threads are started or at work
  as there are (`start + Cardinality(Active) = Ends`): so a thread that is started finds a job,
  the main thread is woken once each row is drawn, and nobody waits for what will not come.
  While threads are joined, the same counting over the exit commands.
- **PtyWriter.** The n-th byte of each kind that the PTY got, then the queue, is the n-th given.
  The lemmas on `Count` and `Places` say how counts of a kind behave under `\o` and `Tail`;
  the invariant adds which queue may be non-empty in which state. `BracketsMatch` needs
  more: the only paste that is received is the latest (`One`), it has begun and not ended where
  the bytes are given (`PastesFollow`), and so each byte that is given follows the last
  one in turn (`TInv`), which `DataInOrder` carries over to what the PTY got.
- **RenderTimers.** Output that has waited is about to be drawn, or the second timer is armed
  and has not more than the rest of its time left (`Waits`); a stale terminal has a flag, a
  frame, a timer or an update that will draw it (`Driven`), given what the flags say of the
  timers (`Flags`) and where the loop is (`Loop`). That output may be parsed in between is a
  lemma on `Parsed`, composed over the items of a read.
- **AsciiPrinter.** Each bit is what it stands for, and the printer what the bits ask for; while
  a single shift waits for its character the charset's bit is not looked at.
- **Screen.** `Fits` is what a screen's cursors may be: all four on the screen, each with a wrap
  pending only in the last column, the one in use inside the region in origin mode. `Rough`
  is what holds of the record between the steps of one handler; a lemma per operator
  (`Advanced`, `Linefeed`, `Restored`, `Clamped`, ...) says that it leads from the one to the other.
- **Modes.** What was saved is true of one state (`Kept`): of two modes that exclude each other at
  most one is set, and those that share a place agree. So an entry of a list that is restored
  changes an earlier one only to what was saved. `KeptRestores` follows the list to its end by its
  least counterexample, since induction itself is out of reach.
- **KeyboardFlags.** `Layered`: counted down from the index, the ring holds the entries of a stack
  and then nothing. A push, which may overwrite the oldest entry, and a pop of more than there are
  keep it; the lemmas on `Place` are what they need of remainders, for any number of levels.
- **TabFrames.** `FramesMatch` says whose callbacks may be in flight in which mode.
- **TabActivity.** Between two looks of the code at who is visible, output that may earn a mark is
  younger than the last time the tab was seen (`News`), or there is nothing to earn one; no tab enters
  split mode with a mark (`Looked`). The timer fires before a mark changes (`Timed`): the lemma
  `Later` shows, for any delays, that the time to the next change runs down by one when a unit
  passes, from a lemma on remainders. `OutputKeepsState`: output never changes what the bar
  shows of its tab at once, only time does. `Least` proves from the library's well-founded order of the
  natural numbers that a set of them has a minimum, which the timer is set to.
- **TabBar.** `HoverIsPane` is inductive: whatever moves a tab clears the index or is impossible in split mode.
- **Scrollback.** Rows are reasoned about by their place, the distance from the scrollback's start
  that `AbsToSb` computes (`RowAt`, `PlaceOfOne`). `RInv` says that there is a first place from which
  on rows are allocated, and none before it, and that the view and the ends of what is selected, or
  of a press that is held, are at or after it; the row that is looked at lies between them and
  the screen (`LookedAt`, `InvAllocated`). A scroll turns all places and the loops that keep
  the fixed rows turn theirs back: `SwappedBy` says what a loop of disjoint swaps does to any row,
  by induction over the swaps (a least counterexample, `InductiveUpTo`); with it `RingUp` and `RingDown` show
  that the first place moves by the lines scrolled, or stays, and `SelectionUp` and `SelectionDown` that
  selections which would be left before it are cancelled. The lemmas on `Wrap` are the
  modular arithmetic, for a ring of any size: the proof does not use that it is a power of two.
  Two defects have to be left out, the others do not matter to it.

  For `SelectedTextStays`, `ChangedUp` and `ChangedDown` say which rows a scroll changes: those it
  erases or frees and those its loops swap (`SwappedKeeps`), and a selection that
  `selection_on_rows()` does not find on them has none of them (`NotOn`). TLC finds that
  `SelectionStays` itself needs only `"moved selection"` left out; the other two hypotheses are those of `RInv`.
  `PromptKeysMoveIt` compares distances from the scrollback's start, which do not lap between the view
  and the row that is found.

  For `NoLineIsLost`, a line is a row by its distance from the offset (`Line`). Scrolling changes all
  distances; then each loop lifts or lowers its lines by as many as are scrolled (`LiftsAll`,
  `LowersAll`, by induction over the swaps), so that `LinesUp` and `LinesDown` can say which line is
  where after a scroll. The loop above the region leaves the lines it displaces rotated by `from` modulo
  `n`, in order only if that is 0 (`InTurn`): this is where `"reordered"` has to be left out. `MappingIs` says that
  the history are the lines before the offset and the screen those after it; the lemmas on
  pieces of sequences turn that into ScreenLog's `SubSeq` and `\o`. `BackUp` and `BackDown` do
  the same for how far the view is back, where `"overtaken view"` is excluded: the screen has then
  turned exactly onto the view, which follows it from there on. All steps that only move the
  view are `Look` because `RInv` bounds it.
- **Clipboard.** `CInv` says of the events under way what makes them harmless whenever they are
  handled: the last that tells of a selection, if the window has the focus, is of its owner's text
  (`Latest`); a source that is cancelled is not the one that foot owns a selection with (`Cancels`),
  and one that foot still has without owning it will be cancelled (`Sources`); of a drag that was
  accepted nothing but its drop may come (`Drags`); what is asked of foot is for a paste that has
  got nothing yet, and each is asked for once (`Requests`). Each has a lemma for an event that is
  taken from the front and one for an event that is added, and each step cites those. That
  `SelectMimeType` ends with the best type of any sequence (`MimeTypeIs`) is by a least
  counterexample, as for `KeptRestores`.
- **Pointer.** `DInv` is about one place, the pointer's or the finger's: all buttons that are down
  were pressed on the surface under it, a selection has one that was pressed on the grid, and each
  press that was reported one that remembers so, of the terminal in focus, which asks for reports. A
  lemma each for presses, releases and motion shows that they keep it (`MousePressedOk`,
  `MouseReleasedOk`, `MouseMovedOk`). `MInv` says whose place it is: while a finger drags, the one
  that the handlers see after `AsTouched`; otherwise the pointer's, and then each button over
  the grid is one that the user holds, so that the pointer can only be taken away from another
  surface. A title bar's timer belongs to a left button pressed there, so a handler that finds
  the timer also finds the button and the focus; and a tab that is switched to while the pointer stays in the
  one before has the tab bar's surface (`Settled`), which is why the surface under the pointer
  remains the same. The lemmas on `Entries` say what removing and adding does to the list.
- **Keyboard.** `Taken` says what is remembered of each key that is down: one that a shortcut took
  is the shortcut's, one that an application got, which asks for releases, is one it was told of.
  `Telling`: only the tab in focus has been told of keys, each is down, and while keys are composed
  there are none, since releases are not reported then. A step is one of three things to a key (fed, sent or
  executed), each with a lemma, whatever mode the tab is in.
- **URL mode.** Labels are leaves of a tree (`Tree`: none begins another), which stays one when its first
  leaf gives way to longer ones (`TreeGrows`), and each time there is one leaf more at least, so after as
  many rounds as there are URLs there are enough (`KeyCombosAre`). Two URLs that differ take different
  leaves, because the last places where they are found do (`PlacesDiffer`, `LabelledIs`); each URL has a label
  at its last place. `VInv` says of a terminal that what was typed begins a label and does not end it, that
  out of URL mode the input method is as the application asked and in it that is what is remembered
  (`Ime`), and that what is hovered was found on what is shown (`Hovering`); `UInv`, that only the tab that
  is shown is in URL mode, its labels are all there are, and that who waits for a token lives and has
  the launcher that was chosen (`Waits`). What is computed one after another, labels and the URLs
  that are kept, is reasoned about through `OneByOne`, by a least counterexample once more.

Only model-checked, because the prover does not reach it:

- liveness, in all modules (`ShutdownCompletes`, `KeysAreDelivered`, `ShownIsDrawn`,
  `PasteEndsAtLast`, `OutputIsDrawn`): no rule for fairness and ENABLED;
- induction over data, where no least counterexample of a simple form stands in for it (it did for
  a list of modes, an offer's types, the labels of URLs, swaps of rows and for timers): what `Scan` does to a text of any length (`PasteIsFiltered`), what a
  sequence of bytes of any length parses to (`SequencesAsWritten`), rewrapped lines
  (`ResizeKeepsText`), images cut to pieces (`CellsAreAsDrawn`), matches
  (`SearchFindsTheText`) and the text of a selection (`SelectionIsAsDragged`).

Only model-checked so far, and left for later: `FramesShowTheGrid`, `NotificationsAreReported`. The
property of run `looking`, `PromptKeysMoveTheView`, is `PromptKeysMove` of `Scrollback`, which
`PromptKeysMoveIt` proves, in a module that also reaches recursive operators.

## 6. Constants that admit known defects

While modelling, many places were found where the code does not do what it, or
its documentation, says. So that the rest can be checked, each is behind a constant: with
FALSE, or left out of the set `Admitted` or `Defects`, the model leaves out exactly that
step. Setting it in the run's cfg shows the violation. The findings in `PROJECT.json` quote the
lines.

| Constant | Admits | Then falls |
|---|---|---|
| `Lifecycle.TabsOntoDying` | `tab_new()` on a window whose terminal shuts down | `WindowTakesOnlyDyingTabs` |
| `Lifecycle.TabsOntoUnconfigured` | `footclient --tab` on a window not configured yet | `TabsArePolled` |
| `Lifecycle.DestroyEarly` | `term_destroy()` with the event fd pending | `CallbacksHaveTerminal` |
| `Server.UserTabs` | `tab_new()` in a server | `InstancesOutliveTerminals`, `ThemeIsAsAsked` |
| `Server.SwitchDuringSetup` | SIGUSR1 before a client's setup packet | `NoNullPointer` |
| `Server.SwitchUnmapped` | a theme switch that reaches a terminal whose window is gone | `NoNullPointer` |
| `PtyWriter.DropDuringPaste` | a drop after another paste began | `ReceivingIsSending`, `BracketsMatch` |
| `PtyWriter.ModeSwitches` | mode 2004 switched during a paste | `BracketsMatch` |
| `PtyWriter.ClosesDuringPaste` | a terminal destroyed during a paste (TRUE in run `pty`) | `ReceiversHaveTerminal` |
| `TabFrames.SplitsDuringFrame` | split mode entered or left with a frame in flight | `StaleIsDriven`, `FrameHasTerminal`, `OneFrameInFlight` |
| `Scrollback.Admitted` | scrolls that put fixed rows back in another order, move rows under a selection they do not look at, or overtake the view; a view that URL mode or a cancelled search leaves behind; a selection without an end; prompt-next across the ring's seam | `ImplementsScreenLog`, `SelectionStays`, `RowsAllocated`, `PromptKeysMove` |
| `FrameBuffers.Admitted` | the view moved over a scroll not drawn yet; a region scrolled below a scrolled-back view | `FramesShowTheGrid` |
| `TabActivity.Admitted` | a tab left at work; one seen in split mode | `MarksAreTrue` |
| `Clipboard.Admitted` | a paste after a drag; a drop while pasting; a selection made during a drag | `ClipboardPastesWhatWasCopied` |
| `Pointer.Admitted`, `Keyboard.Admitted` | broken grabs, tab switches, cancelled touches, devices that come and go; keys held over modes, shortcuts, modifiers and enter events | `HeldInputIsLetGo` |
| `UrlMode.Admitted` | tabs switched or closed in URL mode or while a token is awaited; another launcher meanwhile; IME; resizes | `UrlsAreOpenedAsShown` |
| `Selecting.Admitted`, `Search.Admitted` | edges listed in the modules' headers | `SelectionIsAsDragged`, `SearchFindsTheText` |
| `Reflow.Admitted`, `Sixel.Admitted` | edges listed in the modules' headers | `ResizeKeepsText`, `CellsAreAsDrawn` |
| `Notifications.Admitted` | helpers that do not start, are replaced early, outlive a reset, write much at the end | `NotificationsAreReported` |
| `VtParser.Defects`, `Screen.Defects`, `AsciiPrinter.Defects` | a broken UTF-8 sequence that goes on; a cursor restored outside the region; sequences between a single shift and its character | `SequencesAsWritten`, `StateIsKept`, `PrinterFits` |

`PtyWriter.DrainsUnpolled` is an environment assumption, TRUE in the run: the
slave may have made room for a write although the PTY has not been polled since it
was full. Three properties fail without any constant and are in no run:
`PasteIsContiguous`, `KeysAreContiguous` (add them to `pty.cfg`) and `MenuClosesItsTab`
(of `TabBar`, under its `Spec`).

## 7. Not modelled, and limits

- Failing system calls (`timerfd_create`, `eventfd`, `fdm_add`) in `term_shutdown()`,
  errors other than a full PTY in writes, allocation failures.
- The three round trips of `wayl_win_destroy()` are one period in which the window
  and its tab list still exist.
- One seat. How keys and buttons are encoded, colours, pixels, cursors, margins and
  decorations, fonts, titles and the geometry of the rendered bar.
- `hold-at-exit` terminals, once their slave ended, are closed by the user only.
- In `Scrollback`: the alternate grid and columns. What is erased, and reports, in `Screen`.
- Of the text/uri-list decoder, how a URI is parsed and its path quoted, and the blanks between
  them: a line is a whole URI. Sixel decoding, matching regular expressions, unicode mode.
- The SIGUSR handler of a stand-alone foot (`main.c` 48-75), which switches the one terminal it was made for.
- IME, configuration, base64 and URI helpers: see `PROJECT.json`.

## 8. Plan

1. `RefsMatchHolders` of `FrameBuffers`; `FrameShowsGrid` once damage is a function of rows.
2. The invariant of `Notifications`, whose lists are folded and filtered.
3. `Ime`: preedit and commits against enter, leave and disable, with serials.
