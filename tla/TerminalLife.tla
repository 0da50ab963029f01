---------------------------- MODULE TerminalLife -----------------------------
(***************************************************************************)
(* What the shutdown logic promises of each terminal, as the comment above *)
(* shutdown_maybe_done() in terminal.c puts it: a terminal owns a window   *)
(* (its place in one) and a client; it is shut down when either goes, and  *)
(* destroyed when both are gone, exactly once.  Neither ever comes back.   *)
(***************************************************************************)
CONSTANT Terms
VARIABLES stage, hasWindow, hasClient

vars == <<stage, hasWindow, hasClient>>

TypeOK ==
    /\ stage \in [Terms -> {"none", "running", "closing", "freed"}]
    /\ hasWindow \in [Terms -> BOOLEAN]
    /\ hasClient \in [Terms -> BOOLEAN]

Stays(t) ==
    /\ stage'[t] = stage[t]
    /\ hasWindow'[t] = hasWindow[t] /\ hasClient'[t] = hasClient[t]

Opens(t) ==
    /\ stage[t] = "none" /\ stage'[t] = "running"
    /\ hasWindow'[t]

\* The window is never lost before the shutdown begins; a client may be, when
\* the terminal is held.
Loses(t) ==
    /\ hasWindow'[t] => hasWindow[t]
    /\ hasClient'[t] => hasClient[t]

ClientEnds(t) ==
    /\ stage[t] = "running" /\ stage'[t] = "running"
    /\ Loses(t) /\ hasWindow'[t]

Begins(t) ==
    /\ stage[t] = "running" /\ stage'[t] = "closing"
    /\ Loses(t)

Progresses(t) ==
    /\ stage[t] = "closing" /\ stage'[t] = "closing"
    /\ Loses(t)

Destroyed(t) ==
    /\ stage[t] = "closing" /\ stage'[t] = "freed"
    /\ Loses(t) /\ ~hasWindow'[t] /\ ~hasClient'[t]

Init ==
    /\ stage \in [Terms -> {"none", "running"}]
    /\ hasWindow = [t \in Terms |-> stage[t] = "running"]
    /\ hasClient = [t \in Terms |-> stage[t] = "running"]

\* Several terminals may take a step at once: closing a window shuts down
\* every tab of it.
Next == \A t \in Terms :
    \/ Stays(t) \/ Opens(t) \/ ClientEnds(t) \/ Begins(t)
    \/ Progresses(t) \/ Destroyed(t)

Spec == Init /\ [][Next]_vars
==============================================================================
