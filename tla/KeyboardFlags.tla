----------------------------- MODULE KeyboardFlags ----------------------------
(***************************************************************************)
(* The flags of the kitty keyboard protocol (csi.c): each screen has a     *)
(* stack of them, kept in a ring of fixed size whose oldest entry is       *)
(* overwritten when it is full and which wraps when too many are popped.   *)
(***************************************************************************)
EXTENDS Integers, Sequences

CONSTANTS
    Levels,    \* entries of kitty_kbd.flags
    Bits,      \* KITTY_KBD_SUPPORTED
    MaxPop     \* a bound on the entries popped at once

Grids == {"normal", "alt"}

VARIABLES
    kitty,     \* each grid's kitty_kbd: ring and idx
    current,   \* term->grid
    stack      \* each grid's stack of the last Levels entries (history)

kittyVars == <<kitty, current, stack>>

Ring == kitty[current].ring
Idx == kitty[current].idx
Stack == stack[current]
Below(i, n) == (i - n) % Levels
Above(i) == IF i + 1 >= Levels THEN 0 ELSE i + 1

Becomes(ring, i, entries) ==
    /\ kitty' = [kitty EXCEPT ![current] = [ring |-> ring, idx |-> i]]
    /\ stack' = [stack EXCEPT ![current] = entries]
    /\ UNCHANGED current

\* Mutant of KittyPush: when the ring is full the newest entry is overwritten.
KittyPushOver ==
    \E f \in SUBSET Bits :
        LET i == IF Idx + 1 >= Levels THEN Idx ELSE Idx + 1
        IN Becomes([Ring EXCEPT ![i] = f], i,
                   Append(IF Len(Stack) = Levels THEN Tail(Stack) ELSE Stack, f))

\* CSI > u
KittyPush ==
    \E f \in SUBSET Bits :
        Becomes([Ring EXCEPT ![Above(Idx)] = f], Above(Idx),
                Append(IF Len(Stack) = Levels THEN Tail(Stack) ELSE Stack, f))

\* CSI = u: sets, adds or removes flags.
KittySet ==
    \E f \in SUBSET Bits : \E top \in {f, Ring[Idx] \cup f, Ring[Idx] \ f} :
        Becomes([Ring EXCEPT ![Idx] = top], Idx, [Stack EXCEPT ![Len(Stack)] = top])

Popped(n) == IF n < Len(Stack) THEN SubSeq(Stack, 1, Len(Stack) - n) ELSE <<{}>>

\* CSI < u: the entries that are popped are emptied.
KittyPop ==
    \E n \in 1 .. MaxPop :
        Becomes([i \in DOMAIN Ring |->
                    IF \E j \in 0 .. n - 1 : i = Below(Idx, j) THEN {} ELSE Ring[i]],
                Below(Idx, n), Popped(n))

\* Modes 47, 1047 and 1049
AltScreen ==
    /\ current' \in Grids
    /\ UNCHANGED <<kitty, stack>>

NoFlags == [g \in Grids |-> [ring |-> [i \in 0 .. Levels - 1 |-> {}], idx |-> 0]]

TermReset ==
    /\ kitty' = NoFlags
    /\ stack' = [g \in Grids |-> <<{}>>]
    /\ current' = "normal"

Init ==
    /\ kitty = NoFlags
    /\ stack = [g \in Grids |-> <<{}>>]
    /\ current = "normal"
Next == KittyPush \/ KittySet \/ KittyPop \/ AltScreen \/ TermReset
Spec == Init /\ [][Next]_kittyVars

(***************************************************************************)
(* Properties                                                              *)
(***************************************************************************)

\* The flags in force on each screen are those on top of a stack that forgets
\* its oldest entries, and none once more were popped than pushed.
FlagsAreOnTop ==
    \A g \in Grids : kitty[g].ring[kitty[g].idx] = stack[g][Len(stack[g])]
===============================================================================
