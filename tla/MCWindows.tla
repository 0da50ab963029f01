------------------------------- MODULE MCWindows -------------------------------
(***************************************************************************)
(* Small instances for TLC of what goes on in the window of a stand-alone  *)
(* foot: how its tabs come and go (Lifecycle), and in one with two tabs,   *)
(* the pointer, the keyboard, URL mode and the clipboard.  Each is checked *)
(* by itself, in all its interleavings: part says which.                   *)
(***************************************************************************)
EXTENDS Lifecycle, Sequences, TLC

CONSTANTS Tabs, Admitted
CONSTANTS Buttons, Keys                                      \* of Pointer and Keyboard
CONSTANTS Screens, Letters, Launchers, Cells, MaxTokens      \* of UrlMode
CONSTANTS Selections, Offered, MaxMade, MaxPastes, MaxQueue  \* of Clipboard

\* There is a clipboard at least, and types are those that select_mime_type_for_offer()
\* tells apart.
ASSUME ClipboardAssumption ==
    /\ Selections \in {{"clipboard"}, {"clipboard", "primary"}}
    /\ Offered \subseteq Seq({"plain", "utf8", "uris", "other"})

\* No tab or key has the name that stands for none.
ASSUME InputAssumption == "none" \notin Tabs \cup Keys

\* What a screen shows is in order, and there are two letters at least for the labels, each of
\* them once (generate_key_combos() does not end with one letter and two URLs).
InOrder(q) == q \in Seq({q[i] : i \in DOMAIN q})
ASSUME UrlAssumption ==
    /\ \A screen \in Screens : InOrder(screen.osc8) /\ InOrder(screen.auto)
    /\ InOrder(Letters) /\ Len(Letters) >= 2
    /\ \A i, j \in DOMAIN Letters : Letters[i] = Letters[j] => i = j

VARIABLES part,
          s, inside, held, given,
          keyboard, shown, down, told, stray,
          labels, term, tokens, opened,
          clip, owner, queue, focused, drag, pasteTab, pasting, pastes, writes,
          made, begun, current, faults

Mouse   == INSTANCE Pointer
Keyb    == INSTANCE Keyboard WITH kbd <- keyboard, win <- shown
Urls    == INSTANCE UrlMode WITH win <- labels
Copying == INSTANCE Clipboard WITH shown <- pasteTab

mouseVars == <<s, inside, held, given>>
keyVars   == <<keyboard, shown, down, told, stray>>
urlVars   == <<labels, term, tokens, opened>>
clipVars  == <<clip, owner, queue, focused, drag, pasteTab, pasting, pastes, writes,
               made, begun, current, faults>>

\* The variables of the parts that a behaviour is not about.
NoMouse == s = 0 /\ inside = 0 /\ held = 0 /\ given = 0
NoKeys  == keyboard = 0 /\ shown = 0 /\ down = 0 /\ told = 0 /\ stray = 0
NoUrls  == labels = 0 /\ term = 0 /\ tokens = 0 /\ opened = 0
NoClips ==
    /\ clip = 0 /\ owner = 0 /\ queue = 0 /\ focused = 0 /\ drag = 0 /\ pasteTab = 0 /\ pasting = 0
    /\ pastes = 0 /\ writes = 0 /\ made = 0 /\ begun = 0 /\ current = 0 /\ faults = 0

\* The tabs stay as they are at first when a behaviour is about another part.
MCInit ==
    /\ Init
    /\ \/ part = "windows"   /\ NoMouse /\ NoKeys /\ NoUrls /\ NoClips
       \/ part = "pointer"   /\ Mouse!Init /\ NoKeys /\ NoUrls /\ NoClips
       \/ part = "keyboard"  /\ Keyb!Init /\ NoMouse /\ NoUrls /\ NoClips
       \/ part = "urls"      /\ Urls!Init /\ NoMouse /\ NoKeys /\ NoClips
       \/ part = "clipboard" /\ Copying!Init /\ NoMouse /\ NoKeys /\ NoUrls
    /\ part # "windows" => heap[CHOOSE t \in Terms : TRUE] = "live"
MCNext ==
    \/ part = "windows"   /\ Next         /\ UNCHANGED <<part, mouseVars, keyVars, urlVars, clipVars>>
    \/ part = "pointer"   /\ Mouse!Next   /\ UNCHANGED <<part, vars, keyVars, urlVars, clipVars>>
    \/ part = "keyboard"  /\ Keyb!Next    /\ UNCHANGED <<part, vars, mouseVars, urlVars, clipVars>>
    \/ part = "urls"      /\ Urls!Next    /\ UNCHANGED <<part, vars, mouseVars, keyVars, clipVars>>
    \/ part = "clipboard" /\ Copying!Next /\ UNCHANGED <<part, vars, mouseVars, keyVars, urlVars>>
MCSpec == MCInit /\ [][MCNext]_<<part, vars, mouseVars, keyVars, urlVars, clipVars>>

\* Two screens for UrlMode: hyperlinks on two rows, next to text that looks like a URL;
\* and that text alone.
Range1(first, last, url, id) == [first |-> first, last |-> last, url |-> url, id |-> id]
TheScreens == {
    [osc8 |-> <<Range1(2, 3, "u", 1), Range1(4, 4, "u", 1), Range1(5, 5, "v", 2)>>,
     auto |-> <<Range1(1, 2, "w", 3), Range1(6, 6, "x", 4)>>],
    [osc8 |-> <<>>, auto |-> <<Range1(1, 2, "w", 5)>>] }
TheLetters == <<"a", "b">>
TheOffered == {<<>>, <<"utf8">>, <<"uris", "plain">>}

\* Whatever windows, modes and shortcuts take a press, its release is not lost: no drag,
\* button or timer outlives the pointer or the finger that began it (input.c), no
\* key repeats that is up, and no application is told of half a key stroke.
HeldInputIsLetGo ==
    /\ part = "pointer"  => Mouse!DragsEnd
    /\ part = "keyboard" => Keyb!KeysAreLetGo

\* A URL that is chosen by its label, or clicked, is the one that is opened, by the
\* launcher it was chosen for (url-mode.c).
UrlsAreOpenedAsShown == part = "urls" => Urls!UrlsAreOpenedAsShown

\* A paste or a drop receives what was copied or dragged, of the best type there
\* is and once, though selections change meanwhile (selection.c).
ClipboardPastesWhatWasCopied == part = "clipboard" => Copying!ClipboardPastesWhatWasCopied
===============================================================================
