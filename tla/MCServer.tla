------------------------------ MODULE MCServer -------------------------------
(***************************************************************************)
(* Small instances for TLC of the other processes that wait for a terminal *)
(* or work for it: a server's footclients, and the notification helpers.   *)
(* Each is checked by itself: part says which.                             *)
(***************************************************************************)
EXTENDS Server, Sequences, TLC

CONSTANTS Helpers, Ids, Requests, Icons, MaxIcons, Lines, MaxLines, MaxRead, Admitted

VARIABLES part, helper, notifications, pending, icons, fdm, children, reaping, term, log, faults

Notifying == INSTANCE Notifications WITH active <- notifications

notifyVars == <<helper, notifications, pending, icons, fdm, children, reaping, term, log, faults>>

NoNotifying ==
    /\ helper = 0 /\ notifications = 0 /\ pending = 0 /\ icons = 0 /\ fdm = 0
    /\ children = 0 /\ reaping = 0 /\ term = 0 /\ log = 0 /\ faults = 0

\* The server stays as it is at first when a behaviour is about notifications.
MCInit ==
    /\ ServerInit
    /\ \/ part = "server" /\ NoNotifying
       \/ part = "notifications" /\ Notifying!Init
MCNext ==
    \/ part = "server" /\ ServerNext /\ UNCHANGED <<part, notifyVars>>
    \/ part = "notifications" /\ Notifying!Next /\ UNCHANGED <<part, allVars>>
MCSpec == MCInit /\ [][MCNext]_<<part, allVars, notifyVars>>

Symmetry == Permutations(Terms) \cup Permutations(Clients) \cup Permutations(Themes)

\* What an application asks of a notification: nothing, or a report and to be told of the end.
TheRequests == {[a |-> {"unset"}, c |-> FALSE], [a |-> {"report"}, c |-> TRUE]}

\* Bounds of the server: no more than two events are ready at a time while themes differ, and
\* one while a terminal, not yet shutting down, has a configuration of its own.  Bounds of
\* notifications: one is described while no helper's output is under way; icons are
\* given while no more than one helper runs; and what two helpers write at a time.
Settled ==
    /\ part = "server" =>
         \/ \A t \in Terms : theme[t] \in {"none", initial} /\ conf[t] = "server"
         \/ Cardinality(batch) <= 2 /\ \A t \in Terms : conf[t] = "server"
         \/ /\ Cardinality(batch) <= 1
            /\ \E t \in Terms : /\ ~closing[t]
                               /\ \A u \in Terms \ {t} : conf[u] = "server"
    /\ part = "notifications" =>
         /\ pending # Notifying!NoNotification =>
              /\ term = "running"
              /\ \A h \in Helpers : /\ helper[h].unread = <<>> /\ helper[h].state # "zombie"
                                    /\ helper[h].said # <<>> => helper[h].said[Len(helper[h].said)] = "eol"
         /\ pending.iconData # Notifying!None \/ (\E i \in Notifying!Slots : icons[i] # Notifying!NoIcon) =>
              \A h \in Helpers : helper[h].said = <<>> /\ (helper[h].state = Notifying!None \/ h = 1)
         /\ helper[2].state # Notifying!None =>
              /\ helper[2].asked.id # Notifying!None
              /\ Len(helper[1].said) <= 4 /\ helper[2].said \in {<<>>, <<"id">>, <<"id", "eol">>}

\* An application that asked for it is told what became of its notification, once and
\* under the name that it gave, whatever its helper writes and whenever it ends (notify.c).
NotificationsAreReported == part = "notifications" => Notifying!NotificationsAreReported
==============================================================================
