---------------------------- MODULE PasteReceive ----------------------------
(***************************************************************************)
(* Receiving a paste (selection.c begin_receive_clipboard() ...            *)
(* fdm_receive()): the owner of the clipboard writes text to a pipe; foot  *)
(* reads and filters it, read() by read(), until the end of the file or    *)
(* until nothing has come for two seconds.  Both the pipe and the timer    *)
(* may be ready in the same batch of events, in any order.  Text is passed *)
(* on as it comes; of a list of URIs, line by line, each line whole.       *)
(***************************************************************************)
EXTENDS Integers, Sequences, FiniteSets, SequencesExt

CONSTANTS
    Chars,   \* a subset of Classes
    MaxText, \* bound on the length of the text
    MaxRead  \* the size of fdm_receive()'s buffer

\* What the filter tells apart: newline, carriage return, C0 controls that are
\* always stripped, those stripped without bracketed paste, and the rest.
Classes == {"nl", "cr", "c0", "bs", "text"}

VARIABLES
    text, sent, closed,   \* the owner: its text, how much is written, EOF
    bracketed,            \* ctx->bracketed
    uris,                 \* ctx->decoder: that of URI lists, or of plain text
    line,                 \* ctx->buf: what came of the URI that is not whole yet
    pos,                  \* how much was read
    out,                  \* what was given to ctx->cb(): bytes, or whole URIs
    cuts,                 \* history: where a read() ended between a CR and its LF
    timer,                \* ctx->timeout_fd: armed, expired
    at,                   \* poll, dispatch, reading (in fdm_receive())
    batch,                \* the ready fds not handled yet: data, timeout
    done,                 \* how often ctx->done() was called
    whole                 \* history: ctx->finish() was called, the end was reached

ownVars  == <<text, sent, closed>>
ctxVars  == <<bracketed, uris>>
outVars  == <<line, pos, out, cuts>>
loopVars == <<timer, at, batch, done, whole>>
vars == <<ownVars, ctxVars, outVars, loopVars>>

(***************************************************************************)
(* The filter: what one read() left in the buffer is scanned in place.     *)
(* buf is the buffer, of which the first p bytes are dealt with; i is the  *)
(* index from there, and given the pieces passed to ctx->decoder() so far. *)
(***************************************************************************)

\* Mutant of SkipOne: the scan goes on at the old index (goto again is missing).
SkipOneGoesOn(s, i) ==
    [s EXCEPT !.given = Append(@, SubSeq(s.buf, s.p + 1, s.p + i)),
              !.p = @ + i + 1, !.i = i + 1]

\* skip_one() and goto again: what precedes byte i is passed on, and the scan starts
\* again behind it.
SkipOne(s, i) ==
    [s EXCEPT !.given = Append(@, SubSeq(s.buf, s.p + 1, s.p + i)),
              !.p = @ + i + 1, !.i = 0]

\* The switch over byte p[i].  CR LF is one line end if the LF was read with the CR.
ScanByte(s) ==
    LET b == s.p + s.i + 1
    IN CASE s.buf[b] = "c0" \/ (s.buf[b] = "bs" /\ ~bracketed) -> SkipOne(s, s.i)
         [] /\ s.buf[b] = "cr" /\ ~bracketed
            /\ b < Len(s.buf) /\ s.buf[b + 1] = "nl" -> SkipOne(s, s.i + 1)
         [] s.buf[b] = "nl" /\ ~bracketed -> [s EXCEPT !.buf[b] = "cr", !.i = @ + 1]
         [] OTHER -> [s EXCEPT !.i = @ + 1]

RECURSIVE Scan(_)
Scan(s) ==
    IF s.p + s.i < Len(s.buf)
    THEN Scan(ScanByte(s))
    ELSE Append(s.given, SubSeq(s.buf, s.p + 1, Len(s.buf)))

Filter(buf) == Scan([buf |-> buf, p |-> 0, i |-> 0, given |-> <<>>])

(***************************************************************************)
(* The decoders                                                            *)
(***************************************************************************)

\* decode_one_uri(): an empty line is not one.
DecodeOneUri(given, uri) == IF uri = <<>> THEN given ELSE Append(given, uri)

\* fdm_receive_decoder_uri(): every line that ends in the buffer is decoded, and what
\* is left is moved to its front.
DecodeUris(d, data) ==
    LET b == d.line \o data
        next(a, e) == IF b[e] \notin {"cr", "nl"} THEN a
                      ELSE [out |-> DecodeOneUri(a.out, SubSeq(b, a.start, e - 1)),
                            start |-> e + 1]
        end == FoldLeftDomain(next, [out |-> d.out, start |-> 1], b)
    IN [out |-> end.out, line |-> SubSeq(b, end.start, Len(b))]

\* fdm_receive_decoder_plain(): passed on as it is.
Decode(d, data) ==
    IF uris THEN DecodeUris(d, data) ELSE [d EXCEPT !.out = @ \o data]

(***************************************************************************)
(* The owner of the clipboard                                              *)
(***************************************************************************)

Send ==
    /\ ~closed /\ sent < Len(text)
    /\ sent' \in sent + 1 .. Len(text)
    /\ UNCHANGED <<text, closed, ctxVars, outVars, loopVars>>

Close ==
    /\ ~closed /\ sent = Len(text)
    /\ closed' = TRUE
    /\ UNCHANGED <<text, sent, ctxVars, outVars, loopVars>>

TimerExpires ==
    /\ timer = "armed" /\ at = "poll"
    /\ timer' = "expired"
    /\ UNCHANGED <<ownVars, ctxVars, outVars, at, batch, done, whole>>

(***************************************************************************)
(* The event loop and the handlers                                         *)
(***************************************************************************)

Ready == {e \in {"data", "timeout"} :
            \/ e = "data" /\ (sent > pos \/ closed)
            \/ e = "timeout" /\ timer = "expired"}

Poll ==
    /\ at = "poll" /\ done = 0
    /\ Ready # {}
    /\ batch' = Ready
    /\ at' = "dispatch"
    /\ UNCHANGED <<ownVars, ctxVars, outVars, timer, done, whole>>

BatchDone ==
    /\ at = "dispatch" /\ batch = {}
    /\ at' = "poll"
    /\ UNCHANGED <<ownVars, ctxVars, outVars, timer, batch, done, whole>>

\* clipboard_receive_done(): both fds are deleted, so that fdm_poll() skips
\* what the batch still holds of them.
ReceiveDone ==
    /\ done' = done + 1
    /\ at' = "dispatch" /\ batch' = {}
    /\ UNCHANGED timer

\* ctx->finish() and clipboard_receive_done(): the last URI needs no line end.
Finish ==
    /\ out' = IF uris THEN DecodeOneUri(out, line) ELSE out
    /\ whole' = TRUE
    /\ ReceiveDone
    /\ UNCHANGED <<line, pos, cuts>>

\* fdm_receive(): hung up and nothing to read, or the timer is armed again and
\* the pipe read.
FdmReceive ==
    /\ at = "dispatch" /\ "data" \in batch
    /\ IF closed /\ sent = pos
       THEN Finish
       ELSE /\ timer' = "armed"
            /\ at' = "reading" /\ batch' = batch \ {"data"}
            /\ UNCHANGED <<outVars, done, whole>>
    /\ UNCHANGED <<ownVars, ctxVars>>

\* read() returns the bytes up to n, which are filtered and decoded.
ReadTo(n) ==
    LET d == FoldLeft(Decode, [out |-> out, line |-> line], Filter(SubSeq(text, pos + 1, n)))
    IN /\ pos' = n
       /\ out' = d.out /\ line' = d.line
       /\ cuts' = cuts \cup {i \in {n} : /\ i < Len(text)
                                         /\ text[i] = "cr" /\ text[i + 1] = "nl"}

\* ... until it is empty, or its end is reached.
Read ==
    /\ at = "reading"
    /\ \/ \E n \in pos + 1 .. sent :
            /\ n - pos <= MaxRead
            /\ ReadTo(n)
            /\ UNCHANGED loopVars
       \/ sent = pos /\ closed /\ Finish
       \/ /\ sent = pos /\ ~closed
          /\ at' = "dispatch"
          /\ UNCHANGED <<outVars, timer, batch, done, whole>>
    /\ UNCHANGED <<ownVars, ctxVars>>

\* Mutant of FdmReceiveTimeout: an expired timer is only read.
FdmReceiveTimeoutIgnored ==
    /\ at = "dispatch" /\ "timeout" \in batch
    /\ batch' = batch \ {"timeout"} /\ UNCHANGED <<timer, at, done>>
    /\ UNCHANGED <<ownVars, ctxVars, outVars, whole>>

\* fdm_receive_timeout(): reading a timer that was armed again since it expired
\* fails with EAGAIN, and the paste goes on.
FdmReceiveTimeout ==
    /\ at = "dispatch" /\ "timeout" \in batch
    /\ IF timer = "expired"
       THEN ReceiveDone
       ELSE batch' = batch \ {"timeout"} /\ UNCHANGED <<timer, at, done>>
    /\ UNCHANGED <<ownVars, ctxVars, outVars, whole>>

Init ==
    /\ text \in UNION {[1 .. n -> Chars] : n \in 0 .. MaxText}
    /\ bracketed \in BOOLEAN /\ uris \in BOOLEAN
    /\ sent = 0 /\ closed = FALSE
    /\ pos = 0 /\ out = <<>> /\ line = <<>> /\ cuts = {}
    /\ timer = "armed" /\ at = "poll" /\ batch = {} /\ done = 0 /\ whole = FALSE

Next == \/ Send \/ Close \/ TimerExpires \/ Poll \/ BatchDone
        \/ FdmReceive \/ Read \/ FdmReceiveTimeout

Spec == Init /\ [][Next]_vars

\* The loop runs, and time passes: a timer that is not armed again expires.
FairSpec ==
    /\ Spec
    /\ WF_vars(Poll \/ BatchDone \/ FdmReceive \/ Read \/ FdmReceiveTimeout)
    /\ WF_vars(TimerExpires)

(***************************************************************************)
(* Properties                                                              *)
(***************************************************************************)

\* The comment in fdm_receive(), as a definition over the whole text: LF and CR LF
\* become CR, and non-formatting controls go; BS, DEL and NUL too, but in a bracketed
\* paste, which keeps its line ends.  A CR LF that was cut becomes two CRs.
Dropped(s, i) ==
    \/ s[i] = "c0"
    \/ ~bracketed /\ (s[i] = "bs" \/ (/\ s[i] = "nl" /\ i > 1 /\ s[i - 1] = "cr"
                                      /\ i - 1 \notin cuts))

Sanitised(s) ==
    LET kept == {i \in DOMAIN s : ~Dropped(s, i)}
        nth(k) == CHOOSE i \in kept : Cardinality({j \in kept : j <= i}) = k
    IN [k \in 1 .. Cardinality(kept) |->
          IF s[nth(k)] = "nl" /\ ~bracketed THEN "cr" ELSE s[nth(k)]]

\* The lines of s that are not empty, with the last one if it is to count as ended.
Lines(s, last) ==
    LET ends == {i \in DOMAIN s : s[i] \in {"cr", "nl"}}
                  \cup {0} \cup (IF last THEN {Len(s) + 1} ELSE {})
        begins == {i \in ends : i + 1 \notin ends /\ \E j \in ends : i < j}
        nth(k) == CHOOSE i \in begins : Cardinality({j \in begins : j <= i}) = k
        next(i) == CHOOSE j \in ends : i < j /\ \A e \in ends : e <= i \/ j <= e
    IN [k \in 1 .. Cardinality(begins) |-> SubSeq(s, nth(k) + 1, next(nth(k)) - 1)]

\* However the text is cut into reads and these into pieces, what is pasted is the
\* filtered text, or each URI of it whole and once: as far as it was read, and to its end
\* when the paste was not aborted.
OutputIsFiltered ==
    at = "reading" \/ done > 0 =>
        LET s == Sanitised(SubSeq(text, 1, pos))
        IN /\ out = IF uris THEN Lines(s, whole) ELSE s
           /\ whole => pos = Len(text)

\* is_sending_paste_data does not stay set: the paste ends, even when the owner
\* of the clipboard never closes the pipe.
PasteEnds == <>(done > 0)
==============================================================================
