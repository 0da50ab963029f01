------------------------------- MODULE Server --------------------------------
(***************************************************************************)
(* foot --server (server.c): footclient connections, the instances they    *)
(* ask for, and the terminals of Lifecycle.  A client either waits for its *)
(* terminal, and is sent the exit code when it is destroyed, or leaves at  *)
(* once (--no-wait) and the server keeps the instance.  The terminals are  *)
(* those of Lifecycle; an instance has the name of the terminal it was     *)
(* created for.                                                            *)
(***************************************************************************)
EXTENDS Lifecycle

CONSTANTS
    Clients,          \* struct client, one name per accepted connection
    NoClient,
    Themes,           \* COLOR_THEME_DARK and COLOR_THEME_LIGHT
    UserTabs,         \* may the user open tabs in server windows (tab_new)?
    SwitchDuringSetup, \* may SIGUSR1 or SIGUSR2 arrive while a client is being set up?
    SwitchUnmapped    \* ... may a terminal that has no window any more be switched?

ASSUME ServerAssumption ==
    /\ ServerMode /\ NoChild = {}
    /\ NoClient \notin Clients /\ "server" \notin Themes
    /\ {UserTabs, SwitchDuringSetup, SwitchUnmapped} \subseteq BOOLEAN

VARIABLES
    cst,      \* none, setup (connected), waiting (has an instance),
              \* hungup (fd closed, instance shutting down), answered, gone
    inst,     \* struct terminal_instance: none, live, freed
    iclient,  \* instance->client
    owner,    \* term->shutdown.cb_data: the instance to tell of the end
    theme,    \* term->colors.active_theme, of terminals that exist
    conf,     \* term->conf: the server's, or a copy with an initial theme of its own
    initial,  \* server->conf->initial_color_theme
    asked,    \* history: the theme that was last asked of each terminal
    crashed   \* a NULL pointer was dereferenced

themeVars  == <<theme, conf, initial, asked, crashed>>
serverVars == <<cst, inst, iclient, owner, themeVars>>
allVars    == <<vars, serverVars>>

ServerTypeOK ==
    /\ cst \in [Clients -> {"none", "setup", "waiting", "hungup", "answered", "gone"}]
    /\ inst \in [Terms -> {"none", "live", "freed"}]
    /\ iclient \in [Terms -> Clients \cup {NoClient}]
    /\ owner \in [Terms -> Terms \cup {NoTerm}]
    /\ theme \in [Terms -> Themes \cup {"none"}]
    /\ conf \in [Terms -> Themes \cup {"server"}]
    /\ asked \in [Terms -> Themes \cup {"none"}]
    /\ initial \in Themes /\ crashed \in BOOLEAN

ServerInit ==
    /\ Init
    /\ cst = [c \in Clients |-> "none"]
    /\ inst = [t \in Terms |-> "none"]
    /\ iclient = [t \in Terms |-> NoClient]
    /\ owner = [t \in Terms |-> NoTerm]
    /\ theme = [t \in Terms |-> "none"] /\ asked = [t \in Terms |-> "none"]
    /\ conf = [t \in Terms |-> "server"]
    /\ initial \in Themes /\ crashed = FALSE

\* Mutants of InstanceDestroy: the client is left; every client is answered.
InstanceDestroyKeepsClient(i, answer) ==
    /\ inst' = [inst EXCEPT ![i] = "freed"]
    /\ UNCHANGED <<cst, iclient>>
InstanceDestroyAnswersAll(i, answer) ==
    /\ inst' = [inst EXCEPT ![i] = "freed"]
    /\ cst' = [c \in Clients |-> IF cst[c] = "waiting" THEN answer
                                 ELSE IF c = iclient[i] THEN "gone" ELSE cst[c]]
    /\ UNCHANGED iclient

\* instance_destroy(): its client, if any, is sent the exit code, unless its
\* socket was closed, and destroyed with it.
InstanceDestroy(i, answer) ==
    /\ inst' = [inst EXCEPT ![i] = "freed"]
    /\ cst' = [c \in Clients |->
                 IF c # iclient[i] THEN cst[c]
                 ELSE IF cst[c] = "waiting" THEN answer ELSE "gone"]
    /\ UNCHANGED iclient

\* The configuration of t, and with it its initial theme, is the server's or a copy.
ConfTheme(t) == IF conf[t] = "server" THEN initial ELSE conf[t]

\* A terminal that ends takes its theme and its configuration along.
Forget(t) ==
    /\ theme' = [theme EXCEPT ![t] = "none"]
    /\ asked' = [asked EXCEPT ![t] = "none"]
    /\ conf' = [conf EXCEPT ![t] = "server"]

\* Terminals destroyed by shutdown_maybe_done() call term_shutdown_handler(),
\* which destroys the instance they were given.  tab_new() gives a tab the
\* instance and the configuration of the terminal it was opened from.
Callbacks ==
    LET ended  == {t \in Terms : heap[t] = "live" /\ heap'[t] = "freed"}
        opened == {t \in Terms : heap[t] = "none" /\ heap'[t] = "live"}
    IN /\ IF ended = {} THEN UNCHANGED <<inst, cst, iclient>>
          ELSE \E t \in ended : InstanceDestroy(owner[t], "answered")
       /\ owner' = [t \in Terms |-> IF t \in opened THEN owner[kbd] ELSE owner[t]]
       /\ theme' = [t \in Terms |-> IF t \in ended THEN "none"
                                    ELSE IF t \in opened THEN ConfTheme(kbd) ELSE theme[t]]
       /\ asked' = [t \in Terms |-> IF t \in ended THEN "none"
                                    ELSE IF t \in opened THEN ConfTheme(kbd) ELSE asked[t]]
       /\ conf' = [t \in Terms |-> IF t \in ended THEN "server"
                                   ELSE IF t \in opened THEN conf[kbd] ELSE conf[t]]
       /\ UNCHANGED <<initial, crashed>>

\* Everything that does not involve a connection.
Terminals ==
    /\ Core
    /\ UserTabs \/ \A t \in Terms : heap[t] = "none" => heap'[t] = "none"
    /\ Callbacks

\* fdm_server(): a connection is accepted.
Accept(c) ==
    /\ Take(<<"server", NoTerm>>)
    /\ cst[c] = "none"
    /\ cst' = [cst EXCEPT ![c] = "setup"]
    /\ UNCHANGED <<termVars, winVars, at, cur, inst, iclient, owner, themeVars>>

\* fdm_client(): the setup packet is complete.  --tab asks for a tab in the
\* focused window, else in that of some terminal, else for a window.  Overrides
\* and --hold give the terminal a copy of the configuration, with the theme
\* that it has now or, if that is what is overridden, another one.
Instantiate(c) ==
    /\ Take(<<"server", NoTerm>>)
    /\ cst[c] = "setup"
    /\ \E t \in Terms :
         /\ \E w \in Windows :
              \/ OpenWindow(t, w)
              \/ OpenTab(t, w) /\ (kbd # NoTerm => win[kbd] \in {w, NoWin})
         /\ inst' = [inst EXCEPT ![t] = "live"]
         /\ owner' = [owner EXCEPT ![t] = t]
         /\ \E k \in Themes \cup {"server"} :
              /\ conf' = [conf EXCEPT ![t] = k]
              /\ theme' = [theme EXCEPT ![t] = IF k = "server" THEN initial ELSE k]
              /\ asked' = [asked EXCEPT ![t] = IF k = "server" THEN initial ELSE k]
         /\ \/ /\ cst' = [cst EXCEPT ![c] = "waiting"]
               /\ iclient' = [iclient EXCEPT ![t] = c]
            \/ /\ cst' = [cst EXCEPT ![c] = "answered"]    \* --no-wait
               /\ UNCHANGED iclient
    /\ UNCHANGED <<at, cur, initial, crashed>>

\* fdm_client(): the client hangs up, or sends what is not a setup packet,
\* before it has an instance.
Reject(c) ==
    /\ Take(<<"server", NoTerm>>)
    /\ cst[c] = "setup"
    /\ cst' = [cst EXCEPT ![c] = "gone"]
    /\ UNCHANGED <<termVars, winVars, at, cur, inst, iclient, owner, themeVars>>

\* fdm_client(): a waiting client hangs up, and its terminal is shut down ...
ClientHup(c, i) ==
    /\ Take(<<"server", NoTerm>>)
    /\ cst[c] = "waiting" /\ inst[i] = "live" /\ iclient[i] = c
    /\ heap[i] = "live" /\ ~closing[i]
    /\ ShutDown(win[i], {i})
    /\ cst' = [cst EXCEPT ![c] = "hungup"]
    /\ UNCHANGED <<at, cur, inst, iclient, owner, themeVars>>

\* ... or, when it already was, the client is destroyed, and with it the
\* instance and at once the terminal.
ClientHupClosing(c, i) ==
    /\ Take(<<"server", NoTerm>>)
    /\ cst[c] = "waiting" /\ inst[i] = "live" /\ iclient[i] = c
    /\ DestroyNow(i)
    /\ inst' = [inst EXCEPT ![i] = "freed"]
    /\ cst' = [cst EXCEPT ![c] = "gone"]
    /\ Forget(i)
    /\ UNCHANGED <<at, cur, iclient, owner, initial, crashed>>

\* term_theme_switch_to_dark() and term_theme_switch_to_light() of the terminals S.
SwitchTo(S, x) == theme' = [t \in Terms |-> IF t \in S THEN x ELSE theme[t]]

\* A terminal whose theme changes follows term->window (wayl_win_alpha_changed()), which
\* is NULL when it was detached or its window destroyed.
Unmapped(S, x) == \E t \in S : theme[t] # x /\ win[t] = NoWin
Switchable(S, x) == SwitchUnmapped \/ ~Unmapped(S, x)

\* The history: theme x is asked of the terminals S.
Ask(S, x) == asked' = [t \in Terms |-> IF t \in S THEN x ELSE asked[t]]

\* server->clients with an instance, and server->terminals, those of --no-wait
OfClients == {i \in Terms : /\ inst[i] = "live" /\ iclient[i] # NoClient
                            /\ cst[iclient[i]] \in {"waiting", "hungup"}}
OfServer == {i \in Terms : inst[i] = "live" /\ iclient[i] = NoClient}

\* Mutant of ThemeSwitch: the --no-wait terminals are forgotten.
ThemeSwitchClientsOnly(x) ==
    /\ at = "poll" /\ evfd = {}
    /\ SwitchDuringSetup \/ \A c \in Clients : cst[c] # "setup"
    /\ Switchable(OfClients, x)
    /\ initial' = x
    /\ SwitchTo(OfClients, x)
    /\ crashed' = (Unmapped(OfClients, x) \/ \E c \in Clients : cst[c] = "setup")
    /\ Ask({t \in Terms : heap[t] = "live"}, x)
    /\ UNCHANGED <<vars, cst, inst, iclient, owner, conf>>

\* server_global_theme_switch_to_dark() and server_global_theme_switch_to_light(), on
\* SIGUSR1 and SIGUSR2: they follow the instance of every client, then those of the
\* --no-wait terminals.  What is asked is that all terminals use theme x.
ThemeSwitch(x) ==
    /\ at = "poll" /\ evfd = {}
    /\ SwitchDuringSetup \/ \A c \in Clients : cst[c] # "setup"
    /\ Switchable(OfClients \cup OfServer, x)
    /\ initial' = x
    /\ SwitchTo(OfClients \cup OfServer, x)
    /\ crashed' = (Unmapped(OfClients \cup OfServer, x) \/ \E c \in Clients : cst[c] = "setup")
    /\ Ask({t \in Terms : heap[t] = "live"}, x)
    /\ UNCHANGED <<vars, cst, inst, iclient, owner, conf>>

\* fdm_client(): footclient was sent SIGUSR1 or SIGUSR2, and says so.  What is asked is
\* that its own terminal uses theme x.
ClientSigusr(c, x) ==
    /\ Take(<<"server", NoTerm>>)
    /\ cst[c] = "waiting"
    /\ \E i \in Terms : /\ inst[i] = "live" /\ iclient[i] = c
                        /\ Switchable({i}, x)
                        /\ SwitchTo({i}, x)
                        /\ crashed' = Unmapped({i}, x)
    /\ Ask({t \in Terms : iclient[t] = c}, x)
    /\ UNCHANGED <<termVars, winVars, at, cur, cst, inst, iclient, owner, conf, initial>>

\* A key or mouse binding: color-theme-switch-dark, -light or -toggle of a tab.
ThemeBinding(t, x) ==
    /\ Dispatching
    /\ \E w \in Windows : wst[w] = "configured" /\ active[w] = t /\ win[t] = w
    /\ theme' = [theme EXCEPT ![t] = x]
    /\ Ask({t}, x)
    /\ UNCHANGED <<vars, cst, inst, iclient, owner, conf, initial, crashed>>

\* term_reset(): what the slave writes resets its terminal to the theme of its
\* configuration.
TermReset(t) ==
    /\ at = "pty" /\ cur = t /\ ptmx[t] = "polled"
    /\ theme' = [theme EXCEPT ![t] = ConfTheme(t)]
    /\ Ask({t}, ConfTheme(t))
    /\ UNCHANGED <<vars, cst, inst, iclient, owner, conf, initial, crashed>>

\* fdm_client(): a setup packet that is not complete yet, or a message that is ignored.
ClientData ==
    /\ Take(<<"server", NoTerm>>)
    /\ \E c \in Clients : cst[c] \in {"setup", "waiting"}
    /\ UNCHANGED <<termVars, winVars, at, cur, serverVars>>

Connection(c) ==
    \/ Accept(c) \/ Instantiate(c) \/ Reject(c)
    \/ \E i \in Terms : ClientHup(c, i) \/ ClientHupClosing(c, i)

ServerNext ==
    /\ ~crashed
    /\ \/ Terminals \/ ClientData
       \/ \E c \in Clients : Connection(c)
       \/ \E x \in Themes : \/ ThemeSwitch(x)
                            \/ \E c \in Clients : ClientSigusr(c, x)
                            \/ \E t \in Terms : ThemeBinding(t, x)
       \/ \E t \in Terms : TermReset(t)

ServerSpec == ServerInit /\ [][ServerNext]_allVars

(***************************************************************************)
(* Safety                                                                  *)
(***************************************************************************)

\* The instance a terminal will report its end to exists until it does: a tab
\* opened from another one in the same window included.
InstancesOutliveTerminals ==
    \A t \in Terms : heap[t] = "live" => inst[owner[t]] = "live"

\* A footclient that waits has a terminal to wait for, its own.
WaitingClientsHaveTerminals ==
    \A c \in Clients :
        cst[c] \in {"waiting", "hungup"} =>
            \E i \in Terms : iclient[i] = c /\ inst[i] = "live" /\ heap[i] = "live"

\* footclient exits when its terminal is destroyed, not before: neither with
\* another tab of the window nor with another client's terminal.
AnsweredWhenDestroyed ==
    [][\A c \in Clients :
         cst[c] = "waiting" /\ cst'[c] = "answered" =>
             \E i \in Terms : /\ iclient[i] = c
                              /\ heap[i] = "live" /\ heap'[i] = "freed"]_allVars

\* "All client instances will switch theme", and future ones "will also use the selected
\* theme"; footclient's own signal changes "that instance only" (foot(1), footclient(1)).
\* Every terminal has the theme last asked of it, of all terminals or of it alone, however
\* its client and its instance are reached by then: --no-wait, hung up, shutting down.
ThemeIsAsAsked == \A t \in Terms : heap[t] = "live" => theme[t] = asked[t]

\* No theme switch follows the instance of a client that has none, nor the window of a
\* terminal that has none.
NoNullPointer == ~crashed

\* What a server does with its terminals, its clients apart, is Lifecycle.
ImplementsLifecycle == Spec
==============================================================================
