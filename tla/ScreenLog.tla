----------------------------- MODULE ScreenLog -----------------------------
(* What a terminal with scrollback promises, without a ring: the lines that *)
(* were scrolled out (history, oldest first), the screen, and how many lines *)
(* the user has scrolled back. The scrollback of foot (module Scrollback)   *)
(* implements it. *)
EXTENDS Naturals, Sequences

CONSTANTS ScreenRows,    \* lines of the screen
          HistoryRows    \* lines the history holds at most

VARIABLES history, screen, back

vars == <<history, screen, back>>

Blank(n) == [i \in 1..n |-> "plain"]
Least(a, b) == IF a < b THEN a ELSE b
Rest(a, b) == IF a > b THEN a - b ELSE 0

LastLines(s) == SubSeq(s, Rest(Len(s), HistoryRows) + 1, Len(s))

Init == history = <<>> /\ screen = Blank(ScreenRows) /\ back = 0

Mark(i) ==
  /\ screen' = [screen EXCEPT ![i] = "prompt"]
  /\ UNCHANGED <<history, back>>

\* The first n lines of the lines from .. to - 1 go to the end of the history.
\* Who has scrolled back keeps seeing the same lines, as long as they exist.
Up(from, to, n) ==
  /\ history' = LastLines(history \o SubSeq(screen, from, from + n - 1))
  /\ screen' = SubSeq(screen, 1, from - 1) \o SubSeq(screen, from + n, to - 1)
                 \o Blank(n) \o SubSeq(screen, to, ScreenRows)
  /\ back' = IF back = 0 THEN 0 ELSE Least(back + n, Len(history'))

\* Blank lines are inserted, and the last lines of the history make room.
Down(from, to, n) ==
  /\ history' = SubSeq(history, 1, Rest(Len(history), n))
  /\ screen' = SubSeq(screen, 1, from - 1) \o Blank(n)
                 \o SubSeq(screen, from, to - n - 1) \o SubSeq(screen, to, ScreenRows)
  /\ back' = Rest(back, n)

Look(b) ==
  /\ b \in 0..Len(history)
  /\ back' = b
  /\ UNCHANGED <<history, screen>>

EraseHistory == history' = <<>> /\ back' = 0 /\ UNCHANGED screen

Reset == history' = <<>> /\ back' = 0 /\ screen' = Blank(ScreenRows)

Next ==
  \/ \E i \in 1..ScreenRows: Mark(i)
  \/ \E from \in 1..ScreenRows, to \in 2..ScreenRows + 1, n \in 1..ScreenRows:
        from + n <= to /\ (Up(from, to, n) \/ Down(from, to, n))
  \/ \E b \in 0..HistoryRows: Look(b)
  \/ EraseHistory
  \/ Reset

Spec == Init /\ [][Next]_vars
=============================================================================
