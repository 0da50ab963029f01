------------------------------ MODULE Clipboard ------------------------------
(***************************************************************************)
(* The clipboard and the primary selection (selection.c): what is copied   *)
(* is offered to others and written to them when they ask; what others     *)
(* copy, or drag onto a window, is offered to foot and received into a     *)
(* terminal, one text at a time.  The compositor's events arrive later, in *)
(* order, and those for a source that was destroyed do not.                *)
(*                                                                         *)
(* There is one window, with tabs.  How the text is cut and filtered is in *)
(* PasteReceive, what is written to the shell in PtyWriter.                *)
(***************************************************************************)
EXTENDS Integers, Sequences, FiniteSets

CONSTANTS
    Selections, \* a subset of {"clipboard", "primary"}
    Tabs,
    Offered,    \* the sequences of types that come with an offer: "plain", "utf8", "uris", "other"
    MaxMade,    \* bound on the sources and offers
    MaxPastes,  \* bound on the texts received
    MaxQueue,   \* bound on the compositor's events under way
    Admitted    \* see below

\* What is known to go wrong, unless left out: what is dragged takes the place of the
\* clipboard's offer; a drop is accepted for one tab and received in another that is
\* receiving a text already; and a selection that is made during a drag takes the drag's place.
Defects == {"paste after a drag", "drop while pasting", "selected during a drag"}

VARIABLES
    clip,    \* seat.clipboard and seat.primary
    owner,   \* whose the selections are, as the compositor knows
    queue,   \* its events under way
    focused, \* the window has the keyboard's focus
    drag,    \* the offer over the window, and whether it was "accepted" or "dropped"
    shown,   \* the tab in the window
    pasting, \* term.is_sending_paste_data
    pastes,  \* the texts that are being received
    writes,  \* fdm_send()'s contexts
    made, begun, \* how many sources and offers, each the number of a text, and how many pastes, there were
    current, \* what the last of the compositor's events said is selected
    faults   \* assertions that failed

clipVars == <<clip, owner, queue, focused, drag, shown, pasting, pastes, writes, made, begun, current, faults>>

None == "none"
NoOffer == [n |-> 0, mimes |-> <<>>, drag |-> FALSE, by |-> None]
NoOwner == [n |-> 0, by |-> None]
NoDrag == [n |-> 0, is |-> None]
Fault(f) == faults' = faults \cup f

(***************************************************************************)
(* The types of an offer                                                   *)
(***************************************************************************)

\* Mutant of SelectMimeType: plain text replaces what is better.
SelectAnyMimeType(type, mime) == IF mime = "other" THEN type ELSE mime
\* select_mime_type_for_offer(): text/plain if there is nothing else, utf-8 rather than that, and
\* text/uri-list always.
SelectMimeType(type, mime) ==
    CASE mime = "uris" -> mime
      [] mime = "utf8" /\ type \in {None, "plain"} -> mime
      [] mime = "plain" /\ type = None -> mime
      [] OTHER -> type
MimeType(offer) ==
    LET type[i \in 0..Len(offer.mimes)] == IF i = 0 THEN None ELSE SelectMimeType(type[i - 1], offer.mimes[i])
    IN type[Len(offer.mimes)]

(***************************************************************************)
(* The compositor                                                          *)
(***************************************************************************)

\* What it sends when a selection changes, to the client that has the focus.
Announced(s, own) ==
    IF ~focused THEN <<>>
    ELSE <<[type |-> "selection", selection |-> s, offer |-> own]>>
OfferOf(own, mimes) == [n |-> own.n, mimes |-> mimes, drag |-> FALSE, by |-> own.by]
Sends(events) == Len(queue) + Len(events) <= MaxQueue /\ queue' = queue \o events
Makes == made < MaxMade /\ made' = made + 1

OtherCopies(s, mimes) ==
    LET own == [n |-> made + 1, by |-> "other"]
    IN /\ Makes
       /\ owner' = [owner EXCEPT ![s] = own]
       /\ Sends((IF owner[s].by = "foot" THEN <<[type |-> "cancelled", selection |-> s, n |-> owner[s].n]>> ELSE <<>>)
                \o Announced(s, OfferOf(own, mimes)))
       /\ UNCHANGED <<clip, focused, drag, shown, pasting, pastes, writes, begun, current, faults>>

Focus ==
    /\ focused' = ~focused
    /\ \E order \in {f \in [1..Cardinality(Selections) -> Selections] :
                         \A i, j \in DOMAIN f : f[i] = f[j] => i = j} :
         Sends(IF focused THEN <<>>
               ELSE [i \in DOMAIN order |->
                       [type |-> "selection", selection |-> order[i],
                        offer |-> IF owner[order[i]] = NoOwner THEN NoOffer ELSE OfferOf(owner[order[i]], <<"utf8">>)]])
    /\ UNCHANGED <<clip, owner, drag, shown, pasting, pastes, writes, made, begun, current, faults>>

DragEnters(mimes) ==
    /\ drag = NoDrag /\ Makes
    /\ drag' = [n |-> made + 1, is |-> "over"]
    /\ Sends(<<[type |-> "enter", offer |-> [n |-> made + 1, mimes |-> mimes, drag |-> TRUE, by |-> "other"]]>>)
    /\ UNCHANGED <<clip, owner, focused, shown, pasting, pastes, writes, begun, current, faults>>
DragLeaves ==
    /\ drag.is \in {"over", "accepted"}
    /\ drag' = NoDrag /\ Sends(<<[type |-> "leave"]>>)
    /\ UNCHANGED <<clip, owner, focused, shown, pasting, pastes, writes, made, begun, current, faults>>
\* Only what was accepted is dropped.
DragDrops ==
    /\ drag.is = "accepted"
    /\ drag' = [drag EXCEPT !.is = "dropped"] /\ Sends(<<[type |-> "drop"]>>)
    /\ UNCHANGED <<clip, owner, focused, shown, pasting, pastes, writes, made, begun, current, faults>>

\* The owner of an offer writes its text, and closes the pipe.
OtherWrites(p) ==
    /\ p \in pastes /\ p.by = "other" /\ p.got = <<>>
    /\ pastes' = (pastes \ {p}) \cup {[p EXCEPT !.got = <<p.offer.n, p.offer.n>>]}
    /\ UNCHANGED <<clip, owner, queue, focused, drag, shown, pasting, writes, made, begun, current, faults>>

(***************************************************************************)
(* Copying                                                                 *)
(***************************************************************************)

\* The old source is killed first, then the new one set; copying is by keys,
\* so that foot has the focus.
TextTo(s) ==
    LET own == [n |-> made + 1, by |-> "foot"]
        killed == clip[s].source # 0 /\ owner[s].by = "foot"
    IN /\ focused /\ Makes
       /\ clip' = [clip EXCEPT ![s].source = made + 1]
       /\ owner' = [owner EXCEPT ![s] = own]
       /\ Sends((IF owner[s].by = "other" THEN <<>>
                 ELSE IF killed THEN Announced(s, NoOffer) ELSE <<>>)
                \o Announced(s, OfferOf(own, <<"utf8", "plain">>)))
       /\ UNCHANGED <<focused, drag, shown, pasting, pastes, writes, begun, current, faults>>
\* text_to_clipboard() and text_to_primary()
TextToClipboard == "clipboard" \in Selections /\ TextTo("clipboard")
TextToPrimary == "primary" \in Selections /\ TextTo("primary")

\* An empty text from an application (osc_to_clipboard())
Unset(s) ==
    /\ focused /\ clip[s].source # 0
    /\ clip' = [clip EXCEPT ![s].source = 0]
    /\ owner' = [owner EXCEPT ![s] = IF @.by = "foot" THEN NoOwner ELSE @]
    /\ Sends(IF owner[s].by = "foot" THEN Announced(s, NoOffer) ELSE <<>>)
    /\ UNCHANGED <<focused, drag, shown, pasting, pastes, writes, made, begun, current, faults>>
SelectionClipboardUnset == "clipboard" \in Selections /\ Unset("clipboard")
SelectionPrimaryUnset == "primary" \in Selections /\ Unset("primary")

IsNext(type) == queue # <<>> /\ Head(queue).type = type
Handled == queue' = Tail(queue)

\* cancelled() and primary_cancelled()
Cancelled ==
    /\ IsNext("cancelled") /\ Handled
    /\ LET e == Head(queue)
       IN clip' = IF clip[e.selection].source = e.n THEN [clip EXCEPT ![e.selection].source = 0] ELSE clip
    /\ UNCHANGED <<owner, focused, drag, shown, pasting, pastes, writes, made, begun, current, faults>>

Got(id, pieces) == {IF p.id = id THEN [p EXCEPT !.got = @ \o pieces, !.closed = TRUE] ELSE p : p \in pastes}
\* send_clipboard_or_primary(): what is not written at once is copied.
SendClipboardOrPrimary(e, source, all) ==
    /\ pastes' = {IF p.id # e.paste THEN p
                  ELSE IF all THEN [p EXCEPT !.got = <<source, source>>, !.closed = TRUE]
                  ELSE [p EXCEPT !.got = <<source>>] : p \in pastes}
    /\ writes' = IF all THEN writes ELSE writes \cup {[paste |-> e.paste, text |-> source]}

\* send() and primary_send(); nothing is written for a source that was destroyed.
Send(all) ==
    LET e == Head(queue)
        source == clip[e.selection].source
    IN /\ IsNext("send") /\ Handled
       /\ IF source = e.n THEN SendClipboardOrPrimary(e, source, all)
          ELSE pastes' = Got(e.paste, <<>>) /\ UNCHANGED writes
       /\ UNCHANGED <<clip, owner, focused, drag, shown, pasting, made, begun, current, faults>>

\* fdm_send()
FdmSend(w) ==
    /\ w \in writes
    /\ writes' = writes \ {w} /\ pastes' = Got(w.paste, <<w.text>>)
    /\ UNCHANGED <<clip, owner, queue, focused, drag, shown, pasting, made, begun, current, faults>>

(***************************************************************************)
(* Pasting                                                                 *)
(***************************************************************************)

\* text_from_clipboard() and begin_receive_clipboard(); foot may be the owner itself.
Receives(term, s, offer, expected) ==
    LET paste == [id |-> begun + 1, term |-> term, by |-> offer.by, type |-> MimeType(offer),
                  offer |-> offer, expected |-> expected, got |-> <<>>, closed |-> offer.by = "other"]
    IN /\ begun < MaxPastes /\ begun' = begun + 1
       /\ pasting' = [pasting EXCEPT ![term] = TRUE]
       /\ pastes' = pastes \cup {paste}

\* selection_from_clipboard(), or osc_from_clipboard() for an application: unless
\* the terminal is receiving a text; without a type of text, nothing is received.
From(s) ==
    LET offer == clip[s].offer
        receives == ~pasting[shown] /\ offer # NoOffer /\ clip[s].type # None
    IN /\ focused
       /\ "paste after a drag" \in Admitted \/ current[s] = offer
       /\ Fault(IF ~pasting[shown] /\ current[s] # offer THEN {"not what was copied"} ELSE {})
       /\ IF receives
          THEN /\ Receives(shown, s, offer, current[s].n)
               /\ Sends(IF offer.by = "foot" THEN <<[type |-> "send", selection |-> s, n |-> offer.n, paste |-> begun + 1]>> ELSE <<>>)
          ELSE UNCHANGED <<begun, pasting, pastes, queue>>
       /\ UNCHANGED <<clip, owner, focused, drag, shown, writes, made, current>>
SelectionFromClipboard == "clipboard" \in Selections /\ From("clipboard")
SelectionFromPrimary == "primary" \in Selections /\ From("primary")

\* receive_offer_done() and receive_dnd_done(): the end of the pipe, or nothing for two seconds.
ReceiveDone(p) ==
    /\ p \in pastes /\ (p.got # <<>> \/ p.closed)
    /\ pastes' = pastes \ {p}
    /\ pasting' = [pasting EXCEPT ![p.term] = FALSE]
    /\ writes' = {w \in writes : w.paste # p.id}
    /\ UNCHANGED <<clip, owner, queue, focused, drag, shown, made, begun, current, faults>>

(***************************************************************************)
(* Offers                                                                  *)
(***************************************************************************)

\* data_offer_reset() and data_offer(), offer() for each of its types
Offers(s, offer) == clip' = [clip EXCEPT ![s].offer = offer, ![s].type = MimeType(offer), ![s].window = FALSE]

\* data_offer() and selection(), or primary_data_offer() and primary_selection()
Selection ==
    LET e == Head(queue)
    IN /\ IsNext("selection") /\ Handled
       /\ "selected during a drag" \in Admitted
          \/ ~(clip[e.selection].window /\ clip[e.selection].offer.drag)
       /\ Offers(e.selection, e.offer)
       /\ current' = [current EXCEPT ![e.selection] = e.offer]
       /\ UNCHANGED <<owner, focused, drag, shown, pasting, pastes, writes, made, begun, faults>>

\* enter(): accepted if some tab of the window is not receiving a text.
Enter ==
    LET offer == Head(queue).offer
        accepts == MimeType(offer) # None /\ \E t \in Tabs : ~pasting[t]
    IN /\ IsNext("enter") /\ Handled
       /\ clip' = [clip EXCEPT !["clipboard"] = [@ EXCEPT !.offer = offer, !.type = MimeType(offer), !.window = accepts]]
       /\ drag' = IF drag.n = offer.n /\ accepts THEN [drag EXCEPT !.is = "accepted"] ELSE drag
       /\ UNCHANGED <<owner, focused, shown, pasting, pastes, writes, made, begun, current, faults>>

Leave ==
    /\ IsNext("leave") /\ Handled
    /\ clip' = [clip EXCEPT !["clipboard"].window = FALSE]
    /\ UNCHANGED <<owner, focused, drag, shown, pasting, pastes, writes, made, begun, current, faults>>

\* drop(): to the tab that is shown now; the offer is the receiver's from now on.
Drop ==
    LET offer == clip["clipboard"].offer
    IN /\ IsNext("drop") /\ Handled
       /\ "drop while pasting" \in Admitted \/ ~pasting[shown]
       /\ Fault((IF ~clip["clipboard"].window THEN {"dropped nowhere"} ELSE {})
                \cup (IF ~offer.drag THEN {"not what was dragged"} ELSE {}))
       /\ IF clip["clipboard"].type = None
          THEN UNCHANGED <<clip, pasting, pastes, begun>>
          ELSE /\ Receives(shown, "clipboard", offer, offer.n)
               /\ clip' = [clip EXCEPT !["clipboard"] = [@ EXCEPT !.offer = NoOffer, !.type = None]]
       /\ drag' = NoDrag
       /\ UNCHANGED <<owner, focused, shown, writes, made, current>>

SwitchTab(t) ==
    /\ t # shown /\ shown' = t
    /\ UNCHANGED <<clip, owner, queue, focused, drag, pasting, pastes, writes, made, begun, current, faults>>

Next ==
    \/ \E s \in Selections, mimes \in Offered : OtherCopies(s, mimes)
    \/ \E mimes \in Offered : DragEnters(mimes)
    \/ Focus \/ DragLeaves \/ DragDrops
    \/ TextToClipboard \/ TextToPrimary
    \/ SelectionClipboardUnset \/ SelectionPrimaryUnset
    \/ SelectionFromClipboard \/ SelectionFromPrimary
    \/ Cancelled \/ Selection \/ Enter \/ Leave \/ Drop
    \/ \E all \in BOOLEAN : Send(all)
    \/ \E w \in writes : FdmSend(w)
    \/ \E p \in pastes : OtherWrites(p) \/ ReceiveDone(p)
    \/ \E t \in Tabs : SwitchTab(t)

Init ==
    /\ clip = [s \in Selections |-> [source |-> 0, offer |-> NoOffer, type |-> None, window |-> FALSE]]
    /\ owner = [s \in Selections |-> NoOwner]
    /\ queue = <<>> /\ focused = TRUE /\ drag = NoDrag /\ shown \in Tabs
    /\ pasting = [t \in Tabs |-> FALSE] /\ pastes = {} /\ writes = {} /\ made = 0 /\ begun = 0
    /\ current = [s \in Selections |-> NoOffer] /\ faults = {}

Spec == Init /\ [][Next]_clipVars

---------------------------------------------------------------------------
(***************************************************************************)
(* Properties                                                              *)
(***************************************************************************)

Rank(type) == CASE type = None -> 0 [] type = "plain" -> 1 [] type = "utf8" -> 2 [] type = "uris" -> 3

\* What is received is the text that was copied, or dragged, of the best type there is, and nothing else
\* even when another text is copied meanwhile; one at a time in each terminal;
\* foot keeps its text while it owns the selection; and once all events have arrived, it has the offer of what is selected
\* (selection_from_clipboard(), drop(), and the assertions in cancelled(), selection() and drop()).
ClipboardPastesWhatWasCopied ==
    /\ faults = {}
    /\ \A p \in pastes :
          /\ \A i \in DOMAIN p.got : p.got[i] = p.expected
          /\ Len(p.got) <= 2 /\ pasting[p.term]
          /\ \A q \in pastes : q # p => q.term # p.term
          /\ \A i \in DOMAIN p.offer.mimes : p.offer.mimes[i] # "other" => Rank(p.offer.mimes[i]) <= Rank(p.type)
    /\ \A t \in Tabs : pasting[t] => \E p \in pastes : p.term = t
    /\ \A s \in Selections :
          /\ owner[s].by = "foot" => clip[s].source = owner[s].n
          /\ queue = <<>> => (clip[s].source # 0 <=> owner[s].by = "foot")
          /\ queue = <<>> /\ focused => current[s].n = owner[s].n
===============================================================================
