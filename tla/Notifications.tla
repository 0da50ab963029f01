---------------------------- MODULE Notifications ----------------------------
(***************************************************************************)
(* Desktop notifications (notify.c, osc.c kitty_notification()): an        *)
(* application describes one in chunks; a helper process shows it and      *)
(* writes what the user does with it to a pipe; when the helper exits, the *)
(* reaper's callback tells the application.  Meanwhile the application     *)
(* may replace or close the notification, and reset the terminal, and the  *)
(* terminal may go.                                                        *)
(*                                                                         *)
(* Texts, urgency, sounds and what the helper's command line is made of    *)
(* are left out, and a command to close with, which is not set by default. *)
(***************************************************************************)
EXTENDS Integers, Sequences, SequencesExt

CONSTANTS
    Helpers,  \* 1..n: the helper processes that may be started, by their pids
    Ids,      \* that applications give their notifications, beside none
    Requests, \* what chunks ask for: [a, c]; a is a subset of {"focus", "report"}, or Unset
    Icons,    \* the names under which applications give icons
    MaxIcons, \* ALEN(term.notification_icons)
    Lines,    \* that a helper may write: a subset of {"id", "default", "button", "token"}
    MaxLines, \* bound on what one helper writes
    MaxRead,  \* fdm_notify_stdout()'s buffer, in lines and line ends
    Admitted  \* see below

\* What is known to go wrong, unless left out: a helper that cannot be started leaves its notification
\* with a closed file and the pid -1; a notification that is replaced before the daemon's number for it was
\* read reports nevertheless; one that was replaced is closed instead of the
\* one that replaced it; a reset forgets a helper whose callback outlives the terminal; what a helper
\* writes while others are reaped, or beyond one buffer, is lost when it exits; a notification is
\* activated when its window has gone; and an icon without data has no name.
Defects == {"not started", "replaced early", "closed when replaced", "reset", "exits while reaping",
            "long output", "no window", "empty icon"}

VARIABLES
    helper,   \* the processes
    active,   \* term.active_notifications
    pending,  \* term.kitty_notification
    icons,    \* term.notification_icons
    fdm,      \* <<fd, helper>>: the pipes that are polled
    children, \* of the reaper, those with notif_done() as their callback
    reaping,  \* in fdm_reap()
    term,     \* "running", "stopping" (without a shell and a window) or "freed"
    log,      \* what applications and the compositor were told
    faults    \* what must not be done

notifyVars == <<helper, active, pending, icons, fdm, children, reaping, term, log, faults>>

None == "none"
Unset == {"unset"}

\* Which requests a notification makes; those of kitty_notification may be closed.
NoNotification == [id |-> None, title |-> FALSE, focus |-> TRUE, reportActivated |-> FALSE,
                   reportClosed |-> FALSE, closable |-> FALSE, icon |-> None, iconData |-> None]

NoHelper == [state |-> None, said |-> <<>>, unread |-> <<>>, asked |-> NoNotification,
             replaced |-> FALSE, forgotten |-> FALSE, interrupted |-> FALSE, toClose |-> FALSE]

NoIcon == [id |-> None, name |-> None]

(***************************************************************************)
(* The icon cache                                                          *)
(***************************************************************************)

Slots == 1..MaxIcons
\* add_icon(): data are written to a file, whose name is used; no data has no name.
Icon(n) == [id |-> n.icon, name |-> IF n.iconData = "empty" THEN None ELSE n.iconData]

\* notify_icon_del()
IconDel(id) == [s \in Slots |-> IF icons[s].id = id THEN NoIcon ELSE icons[s]]
\* notify_icon_add(): in the first free slot, or after all others but the first.
IconAdd(cache, icon) ==
    LET free == {s \in Slots : cache[s].id = None}
    IN IF free # {} THEN [cache EXCEPT ![Min(free)] = icon]
       ELSE [s \in Slots |-> IF s = MaxIcons THEN icon ELSE cache[s + 1]]

Cached(n) == IF n.icon # None /\ n.iconData # None THEN IconAdd(IconDel(n.icon), Icon(n)) ELSE icons

(***************************************************************************)
(* Showing and closing                                                     *)
(***************************************************************************)

\* notify_notify(): a notification that is replaced reports nothing any more
\* once the daemon's number for it is known.
Replaces(n, e) == n.id # None /\ e.id = n.id /\ e.externalId
\* Mutant of Replaced: the one that is replaced goes on to report that it was closed.
ReplacedIsClosed(n) == [i \in DOMAIN active |-> IF Replaces(n, active[i])
                        THEN [active[i] EXCEPT !.reportActivated = FALSE] ELSE active[i]]
Replaced(n) == [i \in DOMAIN active |-> IF Replaces(n, active[i])
                THEN [active[i] EXCEPT !.reportActivated = FALSE, !.reportClosed = FALSE] ELSE active[i]]

Entry(n, pid, fd) ==
    [pid |-> pid, fd |-> fd, id |-> n.id, focus |-> n.focus, reportActivated |-> n.reportActivated,
     reportClosed |-> n.reportClosed, externalId |-> FALSE, activated |-> None, token |-> FALSE, data |-> <<>>]

FreeFd == Min({fd \in 1..Cardinality(Helpers) + 1 : \A p \in fdm : p[1] # fd})
Known == \A i \in DOMAIN active : active[i].externalId

\* The helper is started, or cannot be.
Started(n) ==
    \E h \in Helpers :
       /\ helper[h].state = None /\ \A k \in Helpers : k < h => helper[k].state # None
       /\ "replaced early" \in Admitted \/ \A i \in DOMAIN active : active[i].id = n.id /\ n.id # None => active[i].externalId
       /\ helper' = [k \in Helpers |->
              IF k = h THEN [NoHelper EXCEPT !.state = "running", !.asked = [n EXCEPT !.icon = None]]
              ELSE [helper[k] EXCEPT !.replaced = @ \/ (n.id # None /\ helper[k].asked.id = n.id /\ helper[k].state # "reaped")]]
       /\ active' = Append(Replaced(n), Entry(n, h, FreeFd))
       /\ fdm' = fdm \cup {<<FreeFd, h>>}
       /\ children' = children \cup {h}
NotStarted(n) ==
    /\ "not started" \in Admitted
    /\ active' = Append(Replaced(n), Entry(n, -1, FreeFd))
    /\ UNCHANGED <<helper, fdm, children>>

\* The icon is looked for by the name that was given, and must have one itself.
NotifyNotify(n, cache) ==
    /\ Started(n) \/ NotStarted(n)
    /\ faults' = IF \E s \in Slots : cache[s].id = n.icon /\ n.icon # None /\ cache[s].name = None
                 THEN faults \cup {"an icon without a name"} ELSE faults

\* notify_close(): the first of this name is interrupted, by its helper's pid.
NotifyClose(id) ==
    LET named == {i \in DOMAIN active : active[i].id = id}
        pid == active[Min(named)].pid
        last == {h \in Helpers : helper[h].state = "running" /\ helper[h].asked.id = id
                                 /\ ~helper[h].replaced /\ ~helper[h].forgotten}
    IN /\ "closed when replaced" \in Admitted
          \/ \A i \in named : active[i].pid \in Helpers => ~helper[active[i].pid].replaced
       /\ helper' = IF id = None THEN helper
                    ELSE [h \in Helpers |->
                             [helper[h] EXCEPT !.toClose = @ \/ h \in last,
                                 !.interrupted = @ \/ (named # {} /\ helper[h].state = "running" /\ pid \in {h, -1})]]
       /\ UNCHANGED <<active, fdm, children, faults>>

\* kitty_notification(): a chunk of another name begins a new notification.
KittyNotification(id, ask, payload, done) ==
    LET base == IF pending.id = id /\ pending.closable THEN pending
                ELSE [NoNotification EXCEPT !.id = id, !.closable = TRUE]
        asked == [base EXCEPT !.focus = IF ask.a = Unset THEN @ ELSE "focus" \in ask.a,
                              !.reportActivated = IF ask.a = Unset THEN @ ELSE "report" \in ask.a,
                              !.reportClosed = @ \/ ask.c]
        n == CASE payload.type = "title" -> [asked EXCEPT !.title = TRUE, !.icon = IF payload.icon = None THEN @ ELSE payload.icon]
               [] payload.type = "icon" -> [asked EXCEPT !.icon = payload.icon, !.iconData = payload.data]
               [] OTHER -> asked
        shows == payload.type \in {"title", "icon"} /\ n.title
    IN /\ term = "running" /\ ~reaping
       /\ pending' = IF done THEN NoNotification ELSE n
       /\ icons' = IF done THEN Cached(n) ELSE icons
       /\ CASE done /\ shows -> NotifyNotify([n EXCEPT !.iconData = None], Cached(n))
            [] done /\ payload.type = "close" -> NotifyClose(n.id)
            [] OTHER -> UNCHANGED <<helper, active, fdm, children, faults>>
       /\ UNCHANGED <<reaping, term, log>>

\* The window has the keyboard's focus: nothing is shown.
Inhibited ==
    /\ term = "running" /\ ~reaping /\ pending.title
    /\ pending' = NoNotification /\ icons' = Cached(pending)
    /\ UNCHANGED <<helper, active, fdm, children, reaping, term, log, faults>>

\* osc_notify(), and term_bell() when it is configured to
OscNotify ==
    /\ term = "running" /\ ~reaping
    /\ NotifyNotify([NoNotification EXCEPT !.title = TRUE], icons)
    /\ UNCHANGED <<pending, icons, reaping, term, log>>

(***************************************************************************)
(* The helper processes                                                    *)
(***************************************************************************)

\* A line, or the end of one; a helper that writes to nobody exits by SIGPIPE.
Said(h) == SelectSeq(helper[h].said, LAMBDA l : l # "eol")
HelperWrites(h, line) ==
    LET said == helper[h].said
    IN /\ helper[h].state = "running" /\ \E p \in fdm : p[2] = h
       /\ IF said # <<>> /\ said[Len(said)] # "eol" THEN line = "eol"
          ELSE line # "eol" /\ Len(Said(h)) < MaxLines /\ \A i \in DOMAIN said : said[i] # line
       /\ helper' = [helper EXCEPT ![h].said = Append(@, line), ![h].unread = Append(@, line)]
       /\ UNCHANGED <<active, pending, icons, fdm, children, reaping, term, log, faults>>

HelperExits(h) ==
    /\ helper[h].state = "running"
    /\ ~reaping \/ "exits while reaping" \in Admitted
    /\ helper' = [helper EXCEPT ![h].state = "zombie"]
    /\ UNCHANGED <<active, pending, icons, fdm, children, reaping, term, log, faults>>

(***************************************************************************)
(* The event loop                                                          *)
(***************************************************************************)

\* consume_stdout(): of one line; the first number is the daemon's, a later one
\* that of a button.
ConsumeLine(e, line) ==
    CASE line = "id" /\ ~e.externalId -> [e EXCEPT !.externalId = TRUE]
      [] line = "default" -> [e EXCEPT !.activated = IF @ = None THEN "default" ELSE @]
      [] line = "button" /\ ~e.externalId -> [e EXCEPT !.externalId = TRUE]
      [] line \in {"button", "id"} -> [e EXCEPT !.activated = "button"]
      [] line = "token" -> [e EXCEPT !.token = TRUE]

\* ... line by line; what has no end yet waits, unless there is no more to come.
ConsumeStdout(e, eof) ==
    LET n == (Len(e.data) + IF eof THEN 1 ELSE 0) \div 2
        lines == [i \in 1..n |-> e.data[2 * i - 1]]
    IN FoldLeft(ConsumeLine, [e EXCEPT !.data = SubSeq(@, 2 * n + 1, Len(@))], lines)

\* fdm_notify_stdout(): one buffer is read; when the helper has gone, so has the rest.
FdmNotifyStdout(p) ==
    LET h == p[2]
        gone == helper[h].state # "running"
        unread == helper[h].unread
        n == IF Len(unread) > MaxRead THEN MaxRead ELSE Len(unread)
        found == {i \in DOMAIN active : active[i].fd = p[1]}
    IN /\ p \in fdm /\ ~reaping
       /\ "long output" \in Admitted \/ Len(unread) <= MaxRead
       /\ \E hup \in {FALSE, gone} :
             /\ hup \/ unread # <<>>
             /\ helper' = [helper EXCEPT ![h].unread = IF hup THEN <<>> ELSE SubSeq(unread, n + 1, Len(unread))]
             /\ active' = IF found = {} THEN active
                          ELSE LET i == Min(found)
                                   e == [active[i] EXCEPT !.data = @ \o SubSeq(unread, 1, n)]
                                   read == IF n > 0 THEN ConsumeStdout(e, FALSE) ELSE e
                               IN [active EXCEPT ![i] = IF hup THEN [ConsumeStdout(read, TRUE) EXCEPT !.fd = -1] ELSE read]
             /\ fdm' = IF hup THEN fdm \ {p} ELSE fdm
       /\ UNCHANGED <<pending, icons, children, reaping, term, log, faults>>

\* SIGCHLD is seen by fdm_poll() when no file is ready.
Signalled ==
    /\ ~reaping /\ \E h \in Helpers : helper[h].state = "zombie"
    /\ \A p \in fdm : helper[p[2]].unread = <<>> /\ helper[p[2]].state = "running"
    /\ reaping' = TRUE
    /\ UNCHANGED <<helper, active, pending, icons, fdm, children, term, log, faults>>

Told(h, e) ==
    (IF e.activated # None /\ e.focus /\ e.token THEN {[helper |-> h, what |-> "focus", button |-> None]} ELSE {})
    \cup (IF e.activated # None /\ e.reportActivated /\ term = "running"
          THEN {[helper |-> h, what |-> "activated", button |-> e.activated]} ELSE {})
    \cup (IF e.reportClosed /\ term = "running" THEN {[helper |-> h, what |-> "closed", button |-> None]} ELSE {})

\* fdm_reap() and, for a helper with a callback, notif_done()
FdmReap(h) ==
    LET found == {i \in DOMAIN active : active[i].pid = h}
        told == IF found = {} THEN {} ELSE Told(h, active[Min(found)])
        focused == \E t \in told : t.what = "focus"
    IN /\ reaping /\ helper[h].state = "zombie"
       /\ children' = children \ {h}
       /\ helper' = [helper EXCEPT ![h].state = "reaped", ![h].forgotten = @ \/ term # "running"]
       /\ "no window" \in Admitted \/ term # "stopping" \/ h \notin children \/ found = {} \/ ~focused
       /\ IF h \in children /\ found # {} /\ term # "freed"
          THEN /\ log' = log \cup told
               /\ active' = SelectSeq(active, LAMBDA e : e.pid # h)
               /\ fdm' = {p \in fdm : p[1] # active[Min(found)].fd}
          ELSE UNCHANGED <<log, active, fdm>>
       /\ faults' = faults \cup (IF h \in children /\ term = "freed" THEN {"a callback for a freed terminal"} ELSE {})
                           \cup (IF h \in children /\ found # {} /\ focused /\ term = "stopping"
                                 THEN {"focus without a window"} ELSE {})
       /\ UNCHANGED <<pending, icons, reaping, term>>
FdmReapEnds ==
    /\ reaping /\ \A h \in Helpers : helper[h].state # "zombie"
    /\ reaping' = FALSE
    /\ UNCHANGED <<helper, active, pending, icons, fdm, children, term, log, faults>>

(***************************************************************************)
(* The terminal                                                            *)
(***************************************************************************)

Forgotten == [h \in Helpers |-> IF helper[h].state \in {None, "reaped"} THEN helper[h]
                                ELSE [helper[h] EXCEPT !.forgotten = TRUE, !.unread = <<>>]]
\* notify_free() of all
Freed ==
    /\ active' = <<>> /\ pending' = NoNotification /\ icons' = [s \in Slots |-> NoIcon]
    /\ helper' = Forgotten
    /\ fdm' = {p \in fdm : \A i \in DOMAIN active : active[i].pid > 0 => active[i].fd # p[1]}

\* term_reset(): the helpers' callbacks stay.
TermReset ==
    /\ term = "running" /\ ~reaping
    /\ "reset" \in Admitted \/ active = <<>>
    /\ Freed
    /\ UNCHANGED <<children, reaping, term, log, faults>>

\* term_shutdown() and fdm_shutdown()
TermShutdown ==
    /\ term = "running" /\ ~reaping
    /\ term' = "stopping"
    /\ UNCHANGED <<helper, active, pending, icons, fdm, children, reaping, log, faults>>

\* term_destroy(): those that are still known lose their callbacks.
TermDestroy ==
    /\ term = "stopping" /\ ~reaping
    /\ term' = "freed"
    /\ Freed
    /\ children' = {h \in children : \A i \in DOMAIN active : active[i].pid # h}
    /\ UNCHANGED <<reaping, log, faults>>

Payloads ==
    [type : {"title"}, icon : {None} \cup Icons, data : {None}]
    \cup [type : {"icon"}, icon : Icons, data : IF "empty icon" \in Admitted THEN {"file", "empty"} ELSE {"file"}]
    \cup [type : {"close", "alive"}, icon : {None}, data : {None}]

Next ==
    \/ \E id \in Ids \cup {None}, ask \in Requests, payload \in Payloads, done \in BOOLEAN :
          KittyNotification(id, ask, payload, done)
    \/ Inhibited \/ OscNotify
    \/ \E h \in Helpers : (\E line \in Lines \cup {"eol"} : HelperWrites(h, line)) \/ HelperExits(h) \/ FdmReap(h)
    \/ \E p \in fdm : FdmNotifyStdout(p)
    \/ Signalled \/ FdmReapEnds
    \/ TermReset \/ TermShutdown \/ TermDestroy

Init ==
    /\ helper = [h \in Helpers |-> NoHelper]
    /\ active = <<>> /\ pending = NoNotification /\ icons = [s \in Slots |-> NoIcon]
    /\ fdm = {} /\ children = {} /\ reaping = FALSE /\ term = "running" /\ log = {} /\ faults = {}

Spec == Init /\ [][Next]_notifyVars

---------------------------------------------------------------------------
(***************************************************************************)
(* Properties                                                              *)
(***************************************************************************)

\* What the user did, from all that a helper wrote: the first number is the daemon's.
Numbers(h) == {i \in DOMAIN Said(h) : Said(h)[i] \in {"id", "button"}}
PressedButton(h) == Cardinality(Numbers(h)) > 1
Activated(h) == PressedButton(h) \/ \E i \in DOMAIN Said(h) : Said(h)[i] = "default"
HasToken(h) == \E i \in DOMAIN Said(h) : Said(h)[i] = "token"

\* When a helper has exited, the application was told what it asked for, once, and by the last helper
\* of those that replaced each other (the comment in notify_notify()), however the output arrived; the
\* window was focused if it was to be; a notification that is to be closed is interrupted, and no
\* other; and no callback finds its terminal freed (the comment in term_destroy()).
NotificationsAreReported ==
    /\ faults = {}
    /\ \A s, t \in Slots : icons[s].id # None /\ icons[s].id = icons[t].id => s = t
    /\ term = "freed" => children = {}
    /\ \A i \in DOMAIN active : active[i].pid \in Helpers /\ helper[active[i].pid].state # "reaped"
    /\ \A h \in Helpers :
          /\ helper[h].interrupted = helper[h].toClose
          /\ helper[h].state = "reaped" /\ ~helper[h].forgotten =>
                LET asked == helper[h].asked
                    reports == ~helper[h].replaced
                IN {[what |-> r.what, button |-> r.button] : r \in {l \in log : l.helper = h}} =
                   (IF Activated(h) /\ HasToken(h) /\ asked.focus
                    THEN {[what |-> "focus", button |-> None]} ELSE {})
                   \cup (IF Activated(h) /\ reports /\ asked.reportActivated
                         THEN {[what |-> "activated", button |-> IF PressedButton(h) THEN "button" ELSE "default"]} ELSE {})
                   \cup (IF reports /\ asked.reportClosed THEN {[what |-> "closed", button |-> None]} ELSE {})
===============================================================================
