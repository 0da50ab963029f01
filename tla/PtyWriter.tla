------------------------------ MODULE PtyWriter ------------------------------
(***************************************************************************)
(* What one terminal writes to its PTY (terminal.c term_to_slave() ...     *)
(* fdm_ptmx_out()).  Key presses, mouse reports and replies are "normal"   *)
(* data.  Pastes (selection.c, and osc.c for OSC-52 replies) are fed chunk *)
(* by chunk by whoever owns the clipboard.  What cannot be written at once *)
(* is queued, normal and paste data separately, and written when the PTY   *)
(* polls writable.                                                         *)
(*                                                                         *)
(* Every buffer is two bytes long, so that it may be written in part.      *)
(***************************************************************************)
EXTENDS Integers, Sequences, FiniteSets, SequencesExt

CONSTANTS
    MaxKeys, MaxPastes, MaxChunks, \* bounds: how much is typed and pasted
    DrainsUnpolled,     \* may the slave make room before the PTY is polled?
    DropDuringPaste,    \* may a drag be dropped after another paste began?
    ModeSwitches,       \* may the slave switch mode 2004 during a paste?
    ClosesDuringPaste   \* may the terminal be destroyed during a paste?

ASSUME BoundAssumption ==
    /\ {MaxKeys, MaxPastes, MaxChunks} \subseteq Nat
    /\ {DrainsUnpolled, DropDuringPaste, ModeSwitches, ClosesDuringPaste}
         \subseteq BOOLEAN

VARIABLES
    open,        \* term->ptmx >= 0
    freed,       \* term_destroy() was called
    bracketed,   \* term->bracketed_paste (mode 2004)
    sending,     \* term->is_sending_paste_data
    armed,       \* ptmx is polled for EPOLLOUT
    normal,      \* term->ptmx_buffers: the bytes left in them
    paste,       \* term->ptmx_paste_buffers, likewise
    out,         \* what the PTY has accepted
    receiving,   \* struct clipboard_receive: <<paste, chunks received>>
    target,      \* seat->clipboard.window is this terminal's: a drag hovers
    keys, pastes,\* how much was typed, how many pastes were begun
    pasted       \* all bytes given to term_paste_data_to_slave()

vars == <<open, freed, bracketed, sending, armed, normal, paste, out,
          receiving, target, keys, pastes, pasted>>

Key(n)      == <<"key", n, 0>>
Start(p)    == <<"start", p, 0>>
Chunk(p, n) == <<"chunk", p, n>>
End(p)      == <<"end", p, 0>>
IsKey(b)    == b[1] = "key"
IsPaste(b)  == ~IsKey(b)

\* The bytes of a buffer.
Bytes(b) == <<b, b>>

(***************************************************************************)
(* Writing.  Each operator gives the possible outcomes for the channel     *)
(* c == [out, normal, paste, armed].                                       *)
(***************************************************************************)

Channel == [out |-> out, normal |-> normal, paste |-> paste, armed |-> armed]

SetChannel(c) ==
    /\ out' = c.out /\ normal' = c.normal
    /\ paste' = c.paste /\ armed' = c.armed

\* async_write(), tried at once: how many bytes the PTY accepts.  None, when
\* it was full and has not been polled since, unless the slave was reading.
Accepted(c) == IF c.armed /\ ~DrainsUnpolled THEN {0} ELSE {0, 1, 2}

\* data_to_slave(): what is not written at once is queued, and the PTY polled.
DataToSlave(c, b, queue) ==
    {[c EXCEPT !.out = @ \o SubSeq(Bytes(b), 1, k),
               ![queue] = @ \o SubSeq(Bytes(b), k + 1, 2),
               !.armed = @ \/ k < 2] : k \in Accepted(c)}

\* Mutant of TermToSlaveOutcomes: queued data is no reason to wait.
TermToSlaveUnordered(c, b) ==
    IF sending THEN {[c EXCEPT !.normal = @ \o Bytes(b)]}
               ELSE DataToSlave(c, b, "normal")

\* term_to_slave()
TermToSlaveOutcomes(c, b) ==
    IF c.normal # <<>> \/ sending
    THEN {[c EXCEPT !.normal = @ \o Bytes(b)]}
    ELSE DataToSlave(c, b, "normal")

\* term_paste_data_to_slave(); on a closed PTY it fails.
PasteOutcomes(c, b) ==
    IF ~open THEN {c}
    ELSE IF c.paste # <<>> THEN {[c EXCEPT !.paste = @ \o Bytes(b)]}
    ELSE DataToSlave(c, b, "paste")

\* The delimiters of a bracketed paste, written only in mode 2004.
Delimiter(c, b) == IF bracketed THEN PasteOutcomes(c, b) ELSE {c}

Given(b) == IF open THEN Bytes(b) ELSE <<>>

(***************************************************************************)
(* Operations and handlers                                                 *)
(***************************************************************************)

TermToSlave ==
    /\ ~freed /\ open
    /\ keys < MaxKeys
    /\ keys' = keys + 1
    /\ \E c \in TermToSlaveOutcomes(Channel, Key(keys + 1)) : SetChannel(c)
    /\ UNCHANGED <<open, freed, bracketed, sending, receiving, target, pastes, pasted>>

\* selection_from_clipboard() and drop() after their guards: the start
\* delimiter is sent, and the clipboard's owner asked for the data.
BeginReceive ==
    /\ pastes < MaxPastes
    /\ pastes' = pastes + 1
    /\ sending' = TRUE
    /\ \E c \in Delimiter(Channel, Start(pastes + 1)) : SetChannel(c)
    /\ pasted' = IF bracketed THEN pasted \o Given(Start(pastes + 1)) ELSE pasted
    /\ receiving' = receiving \cup {<<pastes + 1, 0>>}
    /\ UNCHANGED <<open, freed, bracketed, keys>>

\* Mutant of SelectionFromClipboard: a paste is begun while another goes on.
SelectionFromClipboardTwice ==
    /\ ~freed
    /\ BeginReceive
    /\ UNCHANGED target

\* selection_from_clipboard(), selection_from_primary() and
\* osc_from_clipboard().  (Without data to paste, done() is called at once:
\* that is ReceiveDone with no chunk received.)
SelectionFromClipboard ==
    /\ ~freed /\ ~sending
    /\ BeginReceive
    /\ UNCHANGED target

\* Drag-and-drop: enter() accepts the offer unless a paste is under way,
\* leave() forgets it, and drop() pastes.
DragEnter ==
    /\ ~freed /\ ~target /\ ~sending
    /\ target' = TRUE
    /\ UNCHANGED <<open, freed, bracketed, sending, armed, normal, paste, out,
                   receiving, keys, pastes, pasted>>

DragLeave ==
    /\ target
    /\ target' = FALSE
    /\ UNCHANGED <<open, freed, bracketed, sending, armed, normal, paste, out,
                   receiving, keys, pastes, pasted>>

Drop ==
    /\ ~freed /\ target
    /\ DropDuringPaste \/ ~sending
    /\ BeginReceive
    /\ target' = FALSE

\* fdm_receive() and receive_offer(): a chunk of the paste has arrived.
ReceiveOffer(r) ==
    /\ r[2] < MaxChunks
    /\ receiving' = (receiving \ {r}) \cup {<<r[1], r[2] + 1>>}
    /\ \E c \in PasteOutcomes(Channel, Chunk(r[1], r[2] + 1)) : SetChannel(c)
    /\ pasted' = pasted \o Given(Chunk(r[1], r[2] + 1))
    /\ UNCHANGED <<open, freed, bracketed, sending, target, keys, pastes>>

\* fdm_receive() at the end of the data, or fdm_receive_timeout() after two
\* seconds without any: receive_offer_done().
ReceiveOfferDone(r) ==
    /\ receiving' = receiving \ {r}
    /\ sending' = FALSE
    /\ pasted' = IF bracketed THEN pasted \o Given(End(r[1])) ELSE pasted
    /\ \E c \in Delimiter(Channel, End(r[1])) :
         SetChannel([c EXCEPT !.armed = @ \/ (open /\ c.normal # <<>>)])
    /\ UNCHANGED <<open, freed, bracketed, target, keys, pastes>>

FdmPtmxOutStops ==
    /\ open /\ armed
    /\ LET queued == paste \o (IF sending THEN <<>> ELSE normal) IN
       \E m \in 0 .. Len(queued) :
         /\ queued # <<>> => m > 0
         /\ out' = out \o SubSeq(queued, 1, m)
         /\ paste' = SubSeq(paste, m + 1, Len(paste))
         /\ normal' = IF m > Len(paste)
                      THEN SubSeq(normal, m - Len(paste) + 1, Len(normal)) ELSE normal
    /\ armed' = FALSE
    /\ UNCHANGED <<open, freed, bracketed, sending, receiving, target,
                   keys, pastes, pasted>>

\* fdm_ptmx_out(): paste data first, then, unless a paste is under way, normal
\* data, as much as the PTY accepts; once all is written, it is not polled.
FdmPtmxOut ==
    /\ open /\ armed
    /\ LET queued == paste \o (IF sending THEN <<>> ELSE normal) IN
       \E m \in 0 .. Len(queued) :
         /\ queued # <<>> => m > 0
         /\ out' = out \o SubSeq(queued, 1, m)
         /\ paste' = SubSeq(paste, m + 1, Len(paste))
         /\ normal' = IF m > Len(paste)
                      THEN SubSeq(normal, m - Len(paste) + 1, Len(normal)) ELSE normal
         /\ armed' = (m < Len(queued))
    /\ UNCHANGED <<open, freed, bracketed, sending, receiving, target,
                   keys, pastes, pasted>>

\* decset(): the slave's output switches mode 2004.
SetBracketedPaste ==
    /\ open
    /\ ModeSwitches \/ receiving = {}
    /\ bracketed' = ~bracketed
    /\ UNCHANGED <<open, freed, sending, armed, normal, paste, out, receiving,
                   target, keys, pastes, pasted>>

\* fdm_ptmx() on EPOLLHUP, and term_shutdown(): the PTY is closed.
ClosePty ==
    /\ open
    /\ open' = FALSE /\ armed' = FALSE
    /\ UNCHANGED <<freed, bracketed, sending, normal, paste, out, receiving,
                   target, keys, pastes, pasted>>

\* term_destroy(), once the terminal was shut down.
TermDestroy ==
    /\ ~open /\ ~freed
    /\ ClosesDuringPaste \/ receiving = {}
    /\ freed' = TRUE /\ normal' = <<>> /\ paste' = <<>>
    /\ UNCHANGED <<open, bracketed, sending, armed, out, receiving, target,
                   keys, pastes, pasted>>

Init ==
    /\ open = TRUE /\ freed = FALSE /\ bracketed = FALSE
    /\ sending = FALSE /\ armed = FALSE
    /\ normal = <<>> /\ paste = <<>> /\ out = <<>> /\ pasted = <<>>
    /\ receiving = {} /\ target = FALSE
    /\ keys = 0 /\ pastes = 0

Next ==
    \/ TermToSlave \/ SelectionFromClipboard \/ DragEnter \/ DragLeave \/ Drop
    \/ \E r \in receiving : ReceiveOffer(r) \/ ReceiveOfferDone(r)
    \/ FdmPtmxOut \/ SetBracketedPaste \/ ClosePty \/ TermDestroy

\* The PTY is written to when it polls writable, and a paste comes to its end,
\* or to its timeout.
Fairness ==
    /\ WF_vars(FdmPtmxOut)
    /\ WF_vars(\E r \in receiving : ReceiveOfferDone(r))

Spec     == Init /\ [][Next]_vars
FairSpec == Spec /\ Fairness

(***************************************************************************)
(* Properties                                                              *)
(***************************************************************************)

\* Where, and how many, of the first n bytes of s are of this kind.
Kind(b) == IF IsKey(b) THEN "key" ELSE "paste"
Places(s, kind, n) == {i \in 1 .. n : Kind(s[i]) = kind}
Count(s, kind, n) == Cardinality(Places(s, kind, n))

\* The bytes of a kind in s, followed by those in its queue, are those given.
InOrder(s, kind, queue, given) ==
    LET written == Count(s, kind, Len(s)) IN
    /\ Len(given) = written + Len(queue)
    /\ \A i \in 1 .. Len(s) : Kind(s[i]) = kind => s[i] = given[Count(s, kind, i)]
    /\ \A i \in 1 .. Len(queue) : queue[i] = given[written + i]

\* All bytes given to term_to_slave()
Typed == [i \in 1 .. 2 * keys |-> Key((i + 1) \div 2)]

\* Nothing typed or pasted is lost, duplicated or reordered: what was written
\* and what is queued is what term_to_slave(), respectively
\* term_paste_data_to_slave(), was given, in its order.
DataInOrder ==
    open => InOrder(out, "key", normal, Typed) /\ InOrder(out, "paste", paste, pasted)

\* Nothing else gets in between the bytes of a paste ("do not mix that stream
\* with other events", term_to_slave()).
PasteIsContiguous ==
    \A i, k \in 1 .. Len(out) :
        i < k /\ IsPaste(out[i]) /\ IsPaste(out[k]) /\ out[i][2] = out[k][2]
            => \A j \in i .. k : IsPaste(out[j])

\* No paste gets in between the bytes of a key sequence or reply that had
\* already been written in part ("that would result in events arriving out of
\* order", term_paste_data_to_slave()).
KeysAreContiguous ==
    \A i, k \in 1 .. Len(out) :
        i < k /\ IsKey(out[i]) /\ out[i] = out[k] => \A j \in i .. k : IsKey(out[j])

\* While chunks are still to come, is_sending_paste_data is set: the assertion
\* of receive_offer() and term_paste_data_to_slave().
ReceivingIsSending == receiving # {} => sending

\* The callbacks of a paste have a terminal to paste into.
ReceiversHaveTerminal == receiving # {} => ~freed

\* The PTY is not polled for nothing (fdm_ptmx_out()'s assertion: "If there is
\* no queued data, then we shouldn't be in asynchronous mode"), and queued data
\* has something to write it: the PTY is polled, or the data waits for the end
\* of a paste that is still being received.
PollsForData ==
    /\ armed => normal # <<>> \/ paste # <<>>
    /\ open /\ paste # <<>> => armed
    /\ open /\ normal # <<>> => armed \/ receiving # {}

\* May this byte come before that one?  Pastes come one after the other, and of
\* each the start delimiter first and the end delimiter last.
InTurn(e, f) ==
    /\ e[2] <= f[2]
    /\ e[2] = f[2] => /\ e[1] = "end" => f[1] = "end"
                      /\ f[1] = "start" => e[1] = "start"

\* Each byte given to term_paste_data_to_slave() is in its turn.
PastesInTurn ==
    \A i, k \in 1 .. Len(pasted) : i < k => InTurn(pasted[i], pasted[k])

\* A slave that was told that a paste began is told that it ended.
PastesEnd ==
    \A p \in 1 .. pastes :
        (open /\ \A r \in receiving : r[1] # p)
            => (Contains(pasted, Start(p)) <=> Contains(pasted, End(p)))

\* Bracketed pastes neither nest nor mix ("Terminal is already busy sending
\* paste data", enter(); "We're already pasting...", selection_from_clipboard()):
\* between the delimiters of a paste there is all of its data, and nothing of
\* another; and the delimiters come in pairs.
BracketsMatch == PastesInTurn /\ PastesEnd

\* Whatever is typed, before, during or after a paste, reaches the slave,
\* unless the terminal is closed.
KeysAreDelivered ==
    \A n \in 1 .. MaxKeys : keys = n ~> (~open \/ Len(SelectSeq(out, IsKey)) >= 2 * n)
==============================================================================
