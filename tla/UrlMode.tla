-------------------------------- MODULE UrlMode --------------------------------
(***************************************************************************)
(* URL mode, and URLs that are hovered or clicked (url-mode.c): finding    *)
(* them, their labels, the keys that select one, the labels' surfaces,     *)
(* which belong to the window and not to its tabs, the input method that   *)
(* is off meanwhile, and the activation token that is awaited before the   *)
(* launcher runs (wayland.c).                                              *)
(*                                                                         *)
(* What a terminal shows is one of a few screens; a cell is its number     *)
(* from the screen's first.  How a regular expression matches is not       *)
(* modelled, nor are the rows of the ring: they are in Scrollback.         *)
(***************************************************************************)
EXTENDS Integers, Sequences, FiniteSets

CONSTANTS
    Tabs,       \* the terminals of one window
    Screens,    \* what one may show: [osc8, auto], the ranges [first, last, url, id] of its hyperlinks
                \* and of what looks like a URL, in order
    Cells,      \* where the pointer may be
    Letters,    \* url.label-letters, at least two: a sequence of distinct letters
    Launchers,  \* of URLs, and of regular expressions
    MaxTokens,  \* bounds how many tokens are awaited
    Admitted    \* see below

\* What is known to show a label of another tab or of a URL that was freed, to open a URL
\* otherwise than it was chosen, or to leave the input method or a hovered URL in another state, unless left out:
\* another tab is shown, or a shell exits, in URL mode; a tab is closed while it waits for a token;
\* another launcher is chosen meanwhile; the application switches the input method in URL
\* mode; and a resize keeps what is known of the hovered URL.
Defects == {"switched in URL mode", "closed in URL mode", "closed while waiting", "other launcher",
            "IME in URL mode", "resized"}

VARIABLES
    win,    \* active; labels: win->urls, those that have a surface, as <<tab, its n-th URL>>
    term,   \* each terminal, see Fresh
    tokens, \* win->xdg_tokens: who waits, for what, and what was chosen
    opened  \* whether everything that was opened was opened as it was chosen

urlVars == <<win, term, tokens, opened>>

None == "none"
Fresh(screen) == [shows |-> screen, cols |-> "wide", urls |-> <<>>, keys |-> <<>>, launch |-> None,
                  action |-> None, ime |-> TRUE, reenable |-> FALSE, appIme |-> TRUE,
                  hover |-> {}, tagged |-> {}, cache |-> {}, lives |-> TRUE]

Covers(u, cell) == u.first <= cell /\ cell <= u.last

\* remove_overlapping(): a detected URL gives way to a hyperlink.
Overlap(u, v) == Covers(u, v.first) \/ Covers(u, v.last) \/ Covers(v, u.first)

\* urls_collect(): first the hyperlinks, then what the regular expression matches. Only
\* hyperlinks have identities of their own.
UrlsCollect(screen, osc8) ==
    LET links == IF osc8 THEN screen.osc8 ELSE <<>>
        kept[k \in 0..Len(screen.auto)] ==
            IF k = 0 THEN <<>>
            ELSE IF \E i \in 1..Len(links) : Overlap(links[i], screen.auto[k]) THEN kept[k - 1]
            ELSE Append(kept[k - 1], screen.auto[k])
    IN links \o kept[Len(screen.auto)]

\* generate_key_combos(): the first n leaves of a tree that is grown, oldest leaf first, until it has
\* as many; each time it has one more at least.
KeyCombos(n) ==
    LET grown[k \in 0..n] ==
            IF k = 0 THEN [i \in 1..Len(Letters) |-> <<Letters[i]>>]
            ELSE LET leaves == grown[k - 1]
                 IN IF Len(leaves) >= n THEN leaves
                    ELSE Tail(leaves) \o [i \in 1..Len(Letters) |-> Append(Head(leaves), Letters[i])]
    IN SubSeq(grown[n], 1, n)

\* urls_assign_key_combos(), from the last URL to the first: the parts of one link get one label, and the
\* same URL the same label, wherever it is.
Labelled(urls) ==
    LET n == Len(urls)
        Part(i) == \E j \in i + 1..n : urls[j].id = urls[i].id /\ urls[j].url = urls[i].url
        Again(i) == \E j \in i + 1..n : urls[j].url = urls[i].url
        new == {i \in 1..n : ~Again(i)}
        combo(i) == KeyCombos(n)[Cardinality({j \in new : j >= i})]
        Key(i) == IF Part(i) THEN <<>>
                  ELSE combo(CHOOSE j \in new : urls[j].url = urls[i].url)
    IN [i \in 1..n |-> [url |-> urls[i].url, key |-> Key(i)]]

InUrlMode(t) == term[t].urls # <<>>

\* Mutant of UrlsReset: the keys that were typed are kept.
UrlsResetKeepsKeys(s) ==
    [s EXCEPT !.urls = <<>>, !.action = None, !.ime = IF s.urls # <<>> /\ s.reenable THEN TRUE ELSE @,
              !.reenable = IF s.urls # <<>> THEN FALSE ELSE @]

\* urls_reset(), of a terminal
UrlsReset(s) ==
    IF s.urls = <<>> THEN s
    ELSE [s EXCEPT !.urls = <<>>, !.action = None, !.keys = <<>>, !.reenable = FALSE, !.ime = @ \/ s.reenable]

\* and of its window: every label goes, whoever's it is.
LabelsReset(t) == IF InUrlMode(t) THEN {} ELSE win.labels

\* urls_hover_clear()
HoverCleared(s) == [s EXCEPT !.hover = {}, !.tagged = {}, !.cache = {}]

---------------------------------------------------------------------------
\* fdm_ptmx(): what the slave writes hides the hovered URL.
Output(t, screen) ==
    /\ term[t].lives /\ screen # term[t].shows
    /\ term' = [term EXCEPT ![t] = [HoverCleared(@) EXCEPT !.shows = screen]]
    /\ UNCHANGED <<win, tokens, opened>>

\* An application switches the input method on or off (mode 737769).
AppIme(t) ==
    /\ term[t].lives /\ ("IME in URL mode" \in Admitted \/ ~InUrlMode(t))
    /\ term' = [term EXCEPT ![t].ime = ~term[t].appIme, ![t].appIme = ~@]
    /\ UNCHANGED <<win, tokens, opened>>

\* BIND_ACTION_SHOW_URLS_LAUNCH and the like, BIND_ACTION_REGEX_LAUNCH; urls_render()
UrlsRender(launcher, action, osc8) ==
    LET t == win.active
        urls == Labelled(UrlsCollect(term[t].shows, osc8))
    IN /\ ~InUrlMode(t) /\ urls # <<>>
       /\ "other launcher" \in Admitted \/ \A k \in tokens : k.tab # t \/ k.launch = "own"
       /\ term' = [term EXCEPT ![t].urls = urls, ![t].launch = launcher, ![t].action = action,
                               ![t].reenable = @ \/ term[t].ime, ![t].ime = FALSE]
       /\ win' = [win EXCEPT !.labels = @ \cup {<<t, i>> : i \in 1..Len(urls)}]
       /\ UNCHANGED <<tokens, opened>>

\* wayl_get_activation_token(): the callback runs later. What is clicked remembers its
\* launcher; URL mode looks it up when the token comes.
Awaited(t, url, launch) == tokens \cup {[tab |-> t, url |-> url, launch |-> launch, chosen |-> term[t].launch]}
MayAwait == Cardinality(tokens) < MaxTokens

StartsWith(key, keys) == Len(key) >= Len(keys) /\ SubSeq(key, 1, Len(keys)) = keys

\* urls_input(): the letter that ends a label, or goes on with one, and activate_url()
UrlsInput(letter) ==
    LET t == win.active
        s == term[t]
        keys == Append(s.keys, letter)
        valid == {i \in 1..Len(s.urls) : s.urls[i].key # <<>> /\ StartsWith(s.urls[i].key, keys)}
        matches == {i \in valid : s.urls[i].key = keys}
        match == CHOOSE i \in matches : \A j \in matches : i <= j
    IN /\ InUrlMode(t) /\ valid # {}
       /\ CASE matches = {} ->
                 /\ term' = [term EXCEPT ![t].keys = keys]
                 /\ UNCHANGED <<win, tokens>>
            [] matches # {} /\ s.action = "persistent" ->
                 /\ MayAwait /\ tokens' = Awaited(t, s.urls[match].url, "term's")
                 /\ term' = [term EXCEPT ![t].keys = <<>>]
                 /\ UNCHANGED win
            [] matches # {} /\ s.action = "launch" ->
                 /\ MayAwait /\ tokens' = Awaited(t, s.urls[match].url, "term's")
                 /\ term' = [term EXCEPT ![t] = UrlsReset(@)]
                 /\ win' = [win EXCEPT !.labels = LabelsReset(t)]
            [] matches # {} /\ s.action = "copy" ->
                 /\ term' = [term EXCEPT ![t] = UrlsReset(@)]
                 /\ win' = [win EXCEPT !.labels = LabelsReset(t)]
                 /\ UNCHANGED tokens
       /\ UNCHANGED opened

BackSpace ==
    LET t == win.active
    IN /\ InUrlMode(t) /\ term[t].keys # <<>>
       /\ term' = [term EXCEPT ![t].keys = SubSeq(@, 1, Len(@) - 1)]
       /\ UNCHANGED <<win, tokens, opened>>

\* BIND_ACTION_URL_CANCEL
UrlCancel ==
    LET t == win.active
    IN /\ InUrlMode(t)
       /\ term' = [term EXCEPT ![t] = UrlsReset(@)]
       /\ win' = [win EXCEPT !.labels = LabelsReset(t)]
       /\ UNCHANGED <<tokens, opened>>

\* A press on the grid leaves URL mode; with Ctrl held, urls_open_at_position() opens what it hits.
UrlsOpenAtPosition(cell, ctrl) ==
    LET t == win.active
        hit == {u \in {UrlsCollect(term[t].shows, TRUE)[i] :
                       i \in 1..Len(UrlsCollect(term[t].shows, TRUE))} : Covers(u, cell)}
    IN /\ InUrlMode(t) \/ ctrl
       /\ ctrl => MayAwait
       /\ term' = [term EXCEPT ![t] = IF ctrl THEN HoverCleared(UrlsReset(@)) ELSE UrlsReset(@)]
       /\ win' = [win EXCEPT !.labels = LabelsReset(t)]
       /\ tokens' = IF ctrl /\ hit # {} THEN Awaited(t, (CHOOSE u \in hit : TRUE).url, "own") ELSE tokens
       /\ UNCHANGED opened

\* activation_token_done(): the launcher runs, of the terminal that asked.
ActivationTokenDone(k) ==
    /\ tokens' = tokens \ {k}
    /\ opened' = (opened /\ term[k.tab].lives /\ (k.launch = "own" \/ term[k.tab].launch = k.chosen))
    /\ UNCHANGED <<win, term>>

\* urls_hover_update(): the URLs are looked for again when the view has moved, or output
\* came; then the one under the pointer is underlined.
UrlsHoverUpdate(cell) ==
    LET t == win.active
        s == term[t]
        cache == IF s.cache = {} THEN UrlsCollect(s.shows, TRUE) ELSE CHOOSE c \in s.cache : TRUE
        hit == {i \in 1..Len(cache) : Covers(cache[i], cell)}
        same == \E u \in s.hover : Covers(u, cell)
    IN /\ term' = [term EXCEPT
             ![t].cache = {cache},
             ![t].hover = IF same THEN @
                          ELSE {cache[i] : i \in {j \in hit : \A k \in hit : j <= k}},
             ![t].tagged = IF same THEN @ ELSE {s.cols : i \in hit}]
       /\ UNCHANGED <<win, tokens, opened>>

UrlsHoverClear ==
    /\ term[win.active].hover # {}
    /\ term' = [term EXCEPT ![win.active] = HoverCleared(@)]
    /\ UNCHANGED <<win, tokens, opened>>

\* The view moves (not in URL mode): what was found is looked for again on the next motion.
ScrollbackUp(screen) ==
    LET t == win.active
    IN /\ ~InUrlMode(t) /\ screen # term[t].shows
       /\ term' = [term EXCEPT ![t] = [HoverCleared(@) EXCEPT !.shows = screen]]
       /\ UNCHANGED <<win, tokens, opened>>

\* render_resize(): URL mode ends; the hovered URL is kept, though its cells are elsewhere.
RenderResize(cols) ==
    LET t == win.active
    IN /\ cols # term[t].cols
       /\ "resized" \in Admitted \/ term[t].cache = {}
       /\ term' = [term EXCEPT ![t] = [UrlsReset(@) EXCEPT !.cols = cols]]
       /\ win' = [win EXCEPT !.labels = LabelsReset(t)]
       /\ UNCHANGED <<tokens, opened>>

\* do_tab_switch(): the tab that is shown is resized, which ends its URL mode, if any.
Switched(t) ==
    /\ win' = [win EXCEPT !.active = t, !.labels = LabelsReset(t)]
    /\ term' = [term EXCEPT ![t] = [UrlsReset(@) EXCEPT !.cols = term[win.active].cols]]

TabSwitch(t) ==
    /\ t # win.active /\ term[t].lives
    /\ "switched in URL mode" \in Admitted \/ ~InUrlMode(win.active)
    /\ "resized" \in Admitted \/ term[t].cache = {} \/ term[t].cols = term[win.active].cols
    /\ Switched(t) /\ UNCHANGED <<tokens, opened>>

\* A tab's shell exits: tab_detach() shows another one, and term_destroy() frees its URLs, without the
\* window that still has their labels.
ShellExits(t) ==
    LET gone(f) == [f EXCEPT ![t] = [HoverCleared(UrlsReset(@)) EXCEPT !.lives = FALSE]]
    IN \E other \in Tabs \ {t} :
       /\ term[t].lives /\ term[other].lives
       /\ "closed in URL mode" \in Admitted \/ ~InUrlMode(t)
       /\ "closed while waiting" \in Admitted \/ \A k \in tokens : k.tab # t
       /\ "resized" \in Admitted \/ term[other].cache = {} \/ term[other].cols = term[t].cols
       /\ IF t = win.active
          THEN /\ win' = [win EXCEPT !.active = other, !.labels = LabelsReset(other)]
               /\ term' = gone([term EXCEPT ![other] = [UrlsReset(@) EXCEPT !.cols = term[t].cols]])
          ELSE win' = win /\ term' = gone(term)
       /\ UNCHANGED <<tokens, opened>>

Init ==
    /\ \E t \in Tabs : win = [active |-> t, labels |-> {}]
    /\ \E screen \in Screens : term = [t \in Tabs |-> Fresh(screen)]
    /\ tokens = {} /\ opened = TRUE

Next ==
    \/ \E t \in Tabs, screen \in Screens : Output(t, screen)
    \/ \E t \in Tabs : AppIme(t) \/ TabSwitch(t) \/ ShellExits(t)
    \/ \E launcher \in Launchers, action \in {"copy", "launch", "persistent"}, osc8 \in BOOLEAN :
          UrlsRender(launcher, action, osc8)
    \/ \E i \in 1..Len(Letters) : UrlsInput(Letters[i])
    \/ BackSpace \/ UrlCancel \/ UrlsHoverClear
    \/ \E cell \in Cells, ctrl \in BOOLEAN : UrlsOpenAtPosition(cell, ctrl)
    \/ \E k \in tokens : ActivationTokenDone(k)
    \/ \E cell \in Cells : UrlsHoverUpdate(cell)
    \/ \E screen \in Screens : ScrollbackUp(screen)
    \/ \E cols \in {"wide", "narrow"} : RenderResize(cols)

Spec == Init /\ [][Next]_urlVars

\* What is shown can be chosen: every label in the window is of the tab that is shown, which
\* is in URL mode; what was typed begins a label of it, no label begins another, and
\* different URLs have different ones.  What is chosen is opened, by the launcher it was
\* chosen for.  A hovered URL is one that is there; and out of URL mode the input method is as the
\* application asked.
UrlsAreOpenedAsShown ==
    /\ win.labels = {<<win.active, i>> : i \in 1..Len(term[win.active].urls)}
    /\ \A t \in Tabs :
          LET s == term[t]
              keyed == {i \in 1..Len(s.urls) : s.urls[i].key # <<>>}
          IN /\ s.keys # <<>> => \E i \in keyed : StartsWith(s.urls[i].key, s.keys) /\ s.urls[i].key # s.keys
             /\ \A i, j \in keyed : StartsWith(s.urls[i].key, s.urls[j].key) => s.urls[i].url = s.urls[j].url
             /\ \A i \in 1..Len(s.urls) : \E j \in keyed : s.urls[j].url = s.urls[i].url
             /\ \A u \in s.hover : s.tagged = {s.cols}
                                    /\ \E i \in 1..Len(UrlsCollect(s.shows, TRUE)) : UrlsCollect(s.shows, TRUE)[i] = u
             /\ s.lives /\ ~InUrlMode(t) => s.ime = s.appIme
    /\ opened
===============================================================================
