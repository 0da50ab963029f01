------------------------------- MODULE VtParser --------------------------------
(***************************************************************************)
(* The parser of the slave's output (vt.c) with the strings it hands to     *)
(* dcs.c.  One byte is fed at a time: vt_from_slave() saves the state after *)
(* each, so that it makes no difference how the output is cut into reads.   *)
(*                                                                          *)
(* A byte stands for all bytes that the state switches treat alike.         *)
(* Printing, executing and the handlers of complete sequences are events.   *)
(***************************************************************************)
EXTENDS Integers, Sequences, SequencesExt, FiniteSetsExt, Functions

CONSTANTS
    MaxParams,   \* entries of vt.params.v (16)
    MaxSubs,     \* entries of a parameter's sub.value (16)
    MaxPrivate,  \* characters of vt.private (4)
    Wrap,        \* number of values of an unsigned (2^32)
    MaxSeq,      \* bound on the bytes of a sequence
    StringBytes, \* the bytes that OSC and DCS strings are made of
    Defects      \* what the properties do not hold for: see Feed

VARIABLES
    vt,       \* term->vt
    events,   \* what the last byte led to
    seq       \* the bytes of the current sequence (history)

vtVars == <<vt, events, seq>>

Controls == {"ctl", "bel"}                   \* 0x00-0x1f but CAN, SUB and ESC
Digits   == {"1"}
Private  == {"?"}                            \* < = > ?
Collects == {"$"}                            \* 0x20-0x2f
Finals   == {"@", "c", "P", "X", "[", "]"}   \* 0x40-0x7e
Leads    == {"lead2", "lead3", "lead4"}
Bytes    == Controls \cup Digits \cup Private \cup Collects \cup Finals \cup Leads
            \cup {":", ";", "can", "esc", "del", "c1", "cont", "bad"}
    \* c1: 0x80-0x9f; cont: 0xa0-0xbf; bad: never in UTF-8 (0xc0, 0xc1, 0xf5-0xff)
Printable == Digits \cup Private \cup Collects \cup Finals \cup {":", ";"}

Unknown == {"bad", "del"}                    \* what the ground state ignores

DigitOf(b) == 1
LengthOf(lead) == CASE lead = "lead2" -> 2 [] lead = "lead3" -> 3 [] OTHER -> 4

\* params.v[0 .. idx - 1]; dummy: params.cur is the dummy; sub: sub.cur is NULL,
\* the last sub-parameter or the dummy; left: UTF-8 bytes to come.
Vt0 == [state |-> "ground", params |-> <<>>, dummy |-> FALSE, sub |-> "none",
        private |-> <<>>, utf8 |-> <<>>, left |-> 0,
        osc |-> <<>>, dcs |-> <<>>, handler |-> "none"]

(***************************************************************************)
(* The actions.  Each returns the new vt; Out adds an event.               *)
(***************************************************************************)

Result(v, out) == [vt |-> v, out |-> out]
Go(v, state) == Result([v EXCEPT !.state = state], <<>>)
Out(v, event, state) == Result([v EXCEPT !.state = state], <<event>>)

ActionClear(v) == [v EXCEPT !.params = <<>>, !.private = <<>>]

\* action_param_lazy_init()
LazyInit(v) ==
    IF v.params # <<>> THEN v
    ELSE [v EXCEPT !.params = <<[value |-> 0, subs |-> <<>>]>>, !.dummy = FALSE, !.sub = "none"]

\* Mutant of ActionParamNew: an empty first parameter is not counted.
ActionParamNewAlone(v) ==
    IF Len(v.params) >= MaxParams THEN [v EXCEPT !.dummy = TRUE, !.sub = "none"]
    ELSE [v EXCEPT !.params = Append(@, [value |-> 0, subs |-> <<>>]), !.sub = "none"]

ActionParamNew(v) ==
    LET w == LazyInit(v)
    IN IF Len(w.params) >= MaxParams THEN [w EXCEPT !.dummy = TRUE, !.sub = "none"]
       ELSE [w EXCEPT !.params = Append(@, [value |-> 0, subs |-> <<>>]), !.sub = "none"]

ActionParamNewSubparam(v) ==
    LET w == LazyInit(v)
    IN IF w.dummy THEN w
       ELSE IF Len(w.params[Len(w.params)].subs) >= MaxSubs THEN [w EXCEPT !.sub = "dummy"]
       ELSE [w EXCEPT !.params[Len(w.params)].subs = Append(@, 0), !.sub = "last"]

ActionParam(v, b) ==
    LET w == LazyInit(v)
        n == Len(w.params)
        Digit(value) == (value * 10 + DigitOf(b)) % Wrap
    IN IF w.dummy \/ w.sub = "dummy" THEN w
       ELSE IF w.sub = "none" THEN [w EXCEPT !.params[n].value = Digit(@)]
       ELSE [w EXCEPT !.params[n].subs[Len(w.params[n].subs)] = Digit(@)]

ActionCollect(v, b) ==
    IF Len(v.private) < MaxPrivate THEN [v EXCEPT !.private = Append(@, b)] ELSE v

\* action_osc_end(); the buffer keeps what is in it.
ActionOscEnd(v) == <<"osc", v.osc>>

\* dcs_hook(), dcs_put() and dcs_unhook(); the sixel, query (DECRQSS, XTGETTCAP)
\* and synchronised update handlers differ in what they keep.
ActionHook(v, b) ==
    LET handler == IF b # "@" THEN "none"
                   ELSE CASE v.private = <<>> -> "sixel" [] v.private = <<"$">> -> "query"
                          [] v.private = <<"?">> /\ v.params # <<>> -> "sync" [] OTHER -> "none"
    IN Out([v EXCEPT !.handler = handler], <<"hook", v.private, v.params>>, "dcs passthrough")
ActionPut(v, b) == IF v.handler = "query" THEN [v EXCEPT !.dcs = Append(@, b)] ELSE v
Unhooked(v) == [v EXCEPT !.handler = "none", !.dcs = <<>>]
ActionUnhook(v) == <<"unhook", v.handler, v.dcs>>

(***************************************************************************)
(* The state switches                                                      *)
(***************************************************************************)

Anywhere(v, b) ==
    IF b = "can" THEN Out(v, <<"execute", b>>, "ground")
    ELSE IF b = "esc" THEN Go(ActionClear(v), "escape")
    ELSE IF b = "c1" THEN Go(v, "ground")
    ELSE Go(v, v.state)

GroundSwitch(v, b) ==
    IF b \in Controls THEN Out(v, <<"execute", b>>, "ground")
    ELSE IF b \in Printable THEN Out(v, <<"print", <<b>>>>, "ground")
    ELSE IF b \in Leads THEN Go([v EXCEPT !.utf8 = <<b>>, !.left = LengthOf(b) - 1], "utf8")
    ELSE Anywhere(v, b)

\* action_esc_dispatch(); ESC c resets the terminal, with its parser.
EscDispatch(v, b) ==
    Out(IF b = "c" /\ v.private = <<>> THEN Vt0 ELSE v, <<"esc", v.private>>, "ground")

EscapeSwitch(v, b) ==
    IF b \in Controls THEN Out(v, <<"execute", b>>, v.state)
    ELSE IF b \in Collects THEN Go(ActionCollect(v, b), "escape intermediate")
    ELSE IF b = "P" THEN Go(ActionClear(v), "dcs entry")
    ELSE IF b = "X" THEN Go(v, "sos pm apc")
    ELSE IF b = "[" THEN Go(ActionClear(v), "csi entry")
    ELSE IF b = "]" THEN Go([v EXCEPT !.osc = <<>>], "osc string")
    ELSE IF b \in Printable THEN EscDispatch(v, b)
    ELSE Anywhere(v, b)

EscapeIntermediateSwitch(v, b) ==
    IF b \in Controls THEN Out(v, <<"execute", b>>, v.state)
    ELSE IF b \in Collects THEN Go(ActionCollect(v, b), "escape intermediate")
    ELSE IF b \in Printable THEN EscDispatch(v, b)
    ELSE Anywhere(v, b)

\* Of a CSI or DCS state, once controls and final bytes are out of the way
ParamSwitch(v, b, entry, param, intermediate, ignore) ==
    IF b \in Collects THEN Go(ActionCollect(v, b), intermediate)
    ELSE IF v.state = intermediate THEN Go(v, ignore)
    ELSE IF b \in Private THEN
        IF v.state = entry THEN Go(ActionCollect(v, b), param) ELSE Go(v, ignore)
    ELSE IF b \in Digits THEN Go(ActionParam(v, b), param)
    ELSE IF b = ";" THEN Go(ActionParamNew(v), param)
    ELSE IF ignore = "dcs ignore" THEN Go(v, ignore)
    ELSE Go(ActionParamNewSubparam(v), param)

\* state_csi_entry_switch(), _param_, _intermediate_ and _ignore_
CsiSwitch(v, b) ==
    IF b \in Controls THEN Out(v, <<"execute", b>>, v.state)
    ELSE IF b \notin Printable THEN Anywhere(v, b)
    ELSE IF v.state = "csi ignore" THEN Go(v, IF b \in Finals THEN "ground" ELSE v.state)
    ELSE IF b \in Finals THEN Out(v, <<"csi", v.private, v.params>>, "ground")
    ELSE ParamSwitch(v, b, "csi entry", "csi param", "csi intermediate", "csi ignore")

\* state_dcs_entry_switch(), _param_, _intermediate_ and _ignore_
DcsSwitch(v, b) ==
    IF b \in Controls THEN Go(v, v.state)
    ELSE IF b \notin Printable THEN Anywhere(v, b)
    ELSE IF v.state = "dcs ignore" THEN Go(v, v.state)
    ELSE IF b \in Finals THEN ActionHook(v, b)
    ELSE ParamSwitch(v, b, "dcs entry", "dcs param", "dcs intermediate", "dcs ignore")

OscStringSwitch(v, b) ==
    IF b = "bel" THEN Out(v, ActionOscEnd(v), "ground")
    ELSE IF b = "ctl" THEN Go(v, v.state)
    ELSE IF b = "can" THEN Result([v EXCEPT !.state = "ground"],
                                  <<ActionOscEnd(v), <<"execute", b>>>>)
    ELSE IF b = "esc" THEN Out(ActionClear(v), ActionOscEnd(v), "escape")
    ELSE Go([v EXCEPT !.osc = Append(@, b)], v.state)

DcsPassthroughSwitch(v, b) ==
    IF b \in Controls \cup Printable THEN Go(ActionPut(v, b), v.state)
    ELSE IF b = "can" THEN Result([Unhooked(v) EXCEPT !.state = "ground"],
                                  <<ActionUnhook(v), <<"execute", b>>>>)
    ELSE IF b = "esc" THEN Out(ActionClear(Unhooked(v)), ActionUnhook(v), "escape")
    ELSE IF b = "c1" THEN Out(Unhooked(v), ActionUnhook(v), "ground")
    ELSE Go(v, v.state)

SosPmApcSwitch(v, b) ==
    IF b \in {"can", "esc", "c1"} THEN Anywhere(v, b) ELSE Go(v, v.state)

\* Of state_utf8_21_switch() to _43_: a sequence cut short is replaced, and the byte
\* taken as if it came first.  Anywhere() stays in the state for a byte that the ground
\* state ignores, and the next byte goes on with the broken sequence (C3 7F A9).
Utf8Switch(v, b) ==
    IF b \in {"c1", "cont"}
    THEN LET w == [v EXCEPT !.utf8 = Append(@, b), !.left = @ - 1]
         IN IF v.left = 1 THEN Out([w EXCEPT !.utf8 = <<>>], <<"print", w.utf8>>, "ground") ELSE Go(w, "utf8")
    ELSE LET r == GroundSwitch(IF b \in Unknown THEN v ELSE [v EXCEPT !.utf8 = <<>>, !.left = 0], b)
         IN [r EXCEPT !.out = <<<<"replace">>>> \o @]

Switch(v, b) ==
    CASE v.state = "ground" -> GroundSwitch(v, b)
      [] v.state = "escape" -> EscapeSwitch(v, b)
      [] v.state = "escape intermediate" -> EscapeIntermediateSwitch(v, b)
      [] v.state \in {"csi entry", "csi param", "csi intermediate", "csi ignore"} -> CsiSwitch(v, b)
      [] v.state \in {"dcs entry", "dcs param", "dcs intermediate", "dcs ignore"} -> DcsSwitch(v, b)
      [] v.state = "osc string" -> OscStringSwitch(v, b)
      [] v.state = "dcs passthrough" -> DcsPassthroughSwitch(v, b)
      [] v.state = "sos pm apc" -> SosPmApcSwitch(v, b)
      [] v.state = "utf8" -> Utf8Switch(v, b)

(***************************************************************************)
(* vt_from_slave()                                                         *)
(***************************************************************************)

\* The bytes that are part of what they appear in; after a CSI or DCS has gone
\* wrong, and in strings nobody reads, it does not matter which come.
IsKept(v, b) ==
    \/ v.state \in {"ground", "utf8"}
    \/ v.state = "osc string" /\ b \notin Controls
    \/ v.state = "dcs passthrough" /\ v.handler = "query" /\ b \in Controls \cup Printable
    \/ v.state \in {"escape", "escape intermediate", "csi entry", "csi param", "csi intermediate",
                    "dcs entry", "dcs param", "dcs intermediate"} /\ b \in Printable

Ends == {"can", "esc", "c1", "bel"}

Feed(b) ==
    LET r == Switch(vt, b)
        before == IF vt.state \in {"ground", "escape"} \/ <<"replace">> \in Range(r.out)
                  THEN <<>> ELSE seq
    IN /\ Len(before) < MaxSeq \/ b \in Ends \/ ~IsKept(vt, b)
       /\ IsKept(vt, b) /\ vt.state \in {"osc string", "dcs passthrough"} => b \in StringBytes
       /\ "broken sequence" \in Defects \/ ~(vt.state = "utf8" /\ b \in Unknown)
       /\ vt' = r.vt
       /\ events' = r.out
       /\ seq' = IF IsKept(vt, b) /\ b \notin {"can", "esc"} THEN Append(before, b) ELSE before

Init == vt = Vt0 /\ events = <<>> /\ seq = <<>>

Next == \E b \in Bytes : Feed(b)

Spec == Init /\ [][Next]_vtVars

(***************************************************************************)
(* Properties                                                              *)
(***************************************************************************)

Split(s, sep) ==
    LET at == SetToSortSeq({0, Len(s) + 1} \cup {i \in DOMAIN s : s[i] = sep}, LAMBDA i, j : i < j)
    IN [i \in 1 .. Len(at) - 1 |-> SubSeq(s, at[i] + 1, at[i + 1] - 1)]
First(s, n) == SubSeq(s, 1, IF Len(s) < n THEN Len(s) ELSE n)
Number(digits) == FoldLeft(LAMBDA n, b : n * 10 + DigitOf(b), 0, digits) % Wrap

\* The parameters and the private characters that a sequence spells.
Spelled(s) ==
    LET text == SelectSeq(s, LAMBDA b : b \in Digits \cup {";", ":"})
        Param(field) == LET parts == [i \in DOMAIN Split(field, ":") |-> Number(Split(field, ":")[i])]
                        IN [value |-> parts[1], subs |-> First(Tail(parts), MaxSubs)]
        fields == First(Split(text, ";"), MaxParams)
    IN IF text = <<>> THEN <<>> ELSE [i \in DOMAIN fields |-> Param(fields[i])]
Collected(s) == First(SelectSeq(s, LAMBDA b : b \in Private \cup Collects), MaxPrivate)

\* What is printed, dispatched or handed to a string's handler is what the bytes
\* since the sequence began spell, up to the limits: nothing is left over from a
\* sequence that was cancelled, and a character is never made of bytes that were
\* not next to each other.
SequencesAsWritten ==
    \A i \in DOMAIN events :
        LET e == events[i]
            body == Tail(Front(seq))
            final == Min({j \in 2 .. Len(seq) : seq[j] \in Finals})
        IN CASE e[1] = "print"  -> e[2] = seq
             [] e[1] = "esc"    -> e[2] = Collected(Front(seq))
             [] e[1] \in {"csi", "hook"} -> e[2] = Collected(body) /\ e[3] = Spelled(body)
             [] e[1] = "osc"    -> e[2] = Tail(seq)
             [] e[1] = "unhook" /\ e[2] = "query" -> e[3] = SubSeq(seq, final + 1, Len(seq))
             [] OTHER -> TRUE
===============================================================================
