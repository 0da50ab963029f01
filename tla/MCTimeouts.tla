------------------------------ MODULE MCTimeouts ------------------------------
(***************************************************************************)
(* Small instances of RenderTimers and PasteReceive for TLC, each by       *)
(* itself: part says which.  In both an event loop polls timers together   *)
(* with the file whose reads start them again.  The part that a behaviour  *)
(* is not about stays at its initial state.  What is pasted is any text in *)
(* part filter; whether it ends, in part paste, does not depend on it.     *)
(***************************************************************************)
EXTENDS RenderTimers

CONSTANTS Chars, MaxText, MaxRead

VARIABLES part, text, sent, closed, bracketed, uris, line, pos, out, cuts,
          timer, at, ready, done, whole

Pasting == INSTANCE PasteReceive WITH batch <- ready

pasteVars == <<text, sent, closed, bracketed, uris, line, pos, out, cuts,
               timer, at, ready, done, whole>>

\* Nothing is pasted.
NoPaste ==
    /\ text = <<>> /\ sent = 0 /\ closed = FALSE /\ bracketed = FALSE /\ uris = FALSE
    /\ line = <<>> /\ pos = 0 /\ out = <<>> /\ cuts = {}
    /\ timer = "armed" /\ at = "poll" /\ ready = {} /\ done = 0 /\ whole = FALSE

MCInit ==
    /\ Init
    /\ \/ part = "filter" /\ Pasting!Init
       \/ /\ part = "paste" /\ Pasting!Init
          /\ \A i \in DOMAIN text : text[i] = "text"
       \/ part = "drawing" /\ NoPaste
MCNext ==
    \/ part \in {"filter", "paste"} /\ Pasting!Next /\ UNCHANGED <<part, vars>>
    \/ part = "drawing" /\ Next /\ UNCHANGED <<part, pasteVars>>

\* The fairness of both modules, each for its own part.
MCSpec ==
    /\ MCInit /\ [][MCNext]_<<part, vars, pasteVars>>
    /\ WF_pasteVars(/\ part = "paste"
                    /\ \/ Pasting!Poll \/ Pasting!BatchDone
                       \/ Pasting!FdmReceive \/ Pasting!Read \/ Pasting!FdmReceiveTimeout)
    /\ WF_pasteVars(part = "paste" /\ Pasting!TimerExpires)
    /\ WF_vars(part = "drawing" /\ Handle)
    /\ WF_vars(part = "drawing" /\ FdmHook)
    /\ WF_vars(part = "drawing" /\ Poll)
    /\ SF_vars(part = "drawing" /\ Tick)
    /\ SF_vars(part = "drawing" /\ Poll /\ "frame" \in batch')

\* However the text is cut into reads and pieces, what is pasted is the filtered text, or
\* each URI of it whole and once (fdm_receive(), fdm_receive_decoder_uri()).
PasteIsFiltered == part # "drawing" => Pasting!OutputIsFiltered

\* A paste ends, even when the owner of the clipboard never closes the pipe
\* (fdm_receive_timeout()).
PasteEndsAtLast == (part = "paste") => Pasting!PasteEnds
===============================================================================
