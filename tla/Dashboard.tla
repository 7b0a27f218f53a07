------------------------------ MODULE Dashboard ------------------------------
(***************************************************************************)
(* The dashboard of an interactive run: the screens, forms and banners of  *)
(* tui/mod.rs and ui.rs over the state that the runtime shows (AppState),  *)
(* whose own steps are only bounded here: PairingRun, ListenerClaim and    *)
(* SocksProxy model them.                                                  *)
(*                                                                         *)
(* A tick draws what it reads; keys act in between.  The ten minutes of    *)
(* the banner are a deadline that passes by itself.                        *)
(***************************************************************************)
EXTENDS Naturals

VARIABLES
    mode,      \* how the run pairs: by PIN, by hand with a generated token, or by name
    serve,     \* the serve half: listening, inbound, name conflict
    dial,      \* the dial half: is there a target, and is it connected
    socks,     \* the proxy's row, "unset" without a port
    screen,    \* Home or Logs
    form,      \* the open modal: none, socks or connect, with or without an error
    armed,     \* quit_armed
    hidden,    \* token_banner_hidden
    deadline,  \* token_banner_auto_hide_at: none, armed or passed
    seen,      \* peers_seen
    over       \* the dashboard loop has ended

runtime == <<mode, serve, dial, socks>>
banner == <<hidden, deadline, seen>>
view == <<screen, form, armed>>
vars == <<runtime, banner, view, over>>

------------------------------------------------------------------------------
Stopped == [listening |-> FALSE, inbound |-> "none", conflict |-> "none"]
NoDial == [target |-> FALSE, connected |-> FALSE]

NoForm == [kind |-> "none", error |-> FALSE]

\* AppSnapshot and the predicates on it
Listening == serve.listening
TokenGenerated == mode = "manual"
PinMode == mode = "pin"
Dialing == dial.target
LivePairing == (dial.target /\ dial.connected) \/ serve.inbound = "connected"
SocksRunning == socks = "Listening"

CanListen == ~Dialing
CanDial == ~Listening /\ ~Dialing

\* The banner of the generated token; that of a PIN has no deadline.
ShowToken == Listening /\ TokenGenerated /\ ~PinMode /\ ~hidden
TokenOnScreen == ~over /\ ShowToken

Init ==
    /\ mode \in {"pin", "manual", "config"}
    /\ serve = Stopped
    /\ dial = NoDial
    /\ socks \in {"unset", "Idle"}
    /\ screen = "Home"
    /\ form = NoForm
    /\ armed = FALSE
    /\ hidden = FALSE
    /\ deadline = "none"
    /\ seen = FALSE
    /\ over = FALSE

------------------------------------------------------------------------------
(* The runtime, as far as the dashboard can tell                           *)

Runtime(changed) == UNCHANGED <<mode, banner, view, over>> /\ changed

\* A peer comes and goes, a name conflict is raised.
ServeChanges ==
    /\ Listening
    /\ \/ serve.inbound # "connected" /\ serve' = [serve EXCEPT !.inbound = "connected"]
       \/ serve.inbound = "connected" /\ serve' = [serve EXCEPT !.inbound = "reserved"]
       \/ mode = "config" /\ \E c \in {"none", "prompt", "degraded"} :
              serve' = [serve EXCEPT !.conflict = c]
    /\ Runtime(UNCHANGED <<dial, socks>>)

\* A command of the dashboard takes effect: the supervisor starts or stops the serve
\* half, also when a target was shown meanwhile.
ServeToggles ==
    /\ serve' = IF Listening THEN Stopped ELSE [Stopped EXCEPT !.listening = TRUE]
    /\ Runtime(UNCHANGED <<dial, socks>>)

DialChanges ==
    /\ Dialing
    /\ dial' \in {NoDial, [target |-> TRUE, connected |-> TRUE], [target |-> TRUE, connected |-> FALSE]}
    /\ dial' # dial
    /\ Runtime(UNCHANGED <<serve, socks>>)

SocksChanges ==
    /\ socks # "unset"
    /\ socks' \in {"Idle", "Listening", "Error"} \ {socks}
    /\ Runtime(UNCHANGED <<serve, dial>>)

------------------------------------------------------------------------------
(* The tick                                                                *)

FirstPeer == serve.inbound # "none" /\ ~seen

\* The deadline is renewed on every tick.
AutoHideBug(isHidden, when) ==
    IF isHidden \/ ~TokenGenerated
    THEN hidden' = isHidden /\ deadline' = "none"
    ELSE hidden' = FALSE /\ deadline' = "armed"

\* maybe_auto_hide_generated_token_banner: arm the deadline once, hide when it is past;
\* without a generated token there is no deadline.
AutoHide(isHidden, when) ==
    IF isHidden \/ ~TokenGenerated
    THEN hidden' = isHidden /\ deadline' = "none"
    ELSE IF when = "passed"
    THEN hidden' = TRUE /\ deadline' = "none"
    ELSE hidden' = FALSE /\ deadline' = "armed"

\* The first peer hides the banner once.
Tick ==
    /\ ~over
    /\ seen' = (seen \/ serve.inbound # "none")
    /\ AutoHide(hidden \/ FirstPeer, IF FirstPeer THEN "none" ELSE deadline)
    /\ UNCHANGED <<runtime, view, over>>

TimePasses ==
    /\ deadline = "armed"
    /\ deadline' = "passed"
    /\ UNCHANGED <<runtime, view, hidden, seen, over>>

------------------------------------------------------------------------------
(* The keys, in the order in which handle_key looks at them: Ctrl-C, the   *)
(* prompt of a name conflict (which takes every other key for the          *)
(* publisher, see NamePublisher), a form, the screens                      *)

Prompted == serve.conflict = "prompt"
FormOpen == form.kind # "none"
Key == ~over
FreeKey == Key /\ ~Prompted /\ ~FormOpen
HomeKey == FreeKey /\ screen = "Home"

CtrlC == Key /\ over' = TRUE /\ UNCHANGED <<runtime, banner, view>>

\* handle_add_form, handle_connect_form: Esc closes, another key edits and clears the error.
FormEsc ==
    /\ Key /\ ~Prompted /\ FormOpen
    /\ form' = NoForm
    /\ UNCHANGED <<runtime, banner, screen, armed, over>>

FormEdit ==
    /\ Key /\ ~Prompted /\ FormOpen
    /\ form' = [form EXCEPT !.error = FALSE]
    /\ UNCHANGED <<runtime, banner, screen, armed, over>>

\* submit_socks_form: a port in 1..=65535, and the proxy is idle.
SubmitSocks ==
    /\ Key /\ ~Prompted /\ form.kind = "socks"
    /\ \/ socks' = "Idle" /\ form' = NoForm
       \/ form' = [form EXCEPT !.error = TRUE] /\ UNCHANGED socks
    /\ UNCHANGED <<mode, serve, dial, banner, screen, armed, over>>

\* submit_connect_form: a bad target, the run's own name or id, or no dial manager keep
\* the form open; otherwise the target is shown.
SubmitConnect ==
    /\ Key /\ ~Prompted /\ form.kind = "connect"
    /\ \/ dial' = [target |-> TRUE, connected |-> FALSE] /\ form' = NoForm
       \/ form' = [form EXCEPT !.error = TRUE] /\ UNCHANGED dial
    /\ UNCHANGED <<mode, serve, socks, banner, screen, armed, over>>

\* Esc on the logs: home, or only to the tail of the log (LogPane).
LogsEsc ==
    /\ FreeKey /\ screen = "Logs"
    /\ screen' = "Home"
    /\ armed' = FALSE
    /\ UNCHANGED <<runtime, banner, form, over>>

\* Esc at home: the second one in a row quits.
HomeEsc ==
    /\ HomeKey
    /\ IF armed THEN over' = TRUE /\ UNCHANGED armed
                ELSE armed' = TRUE /\ UNCHANGED over
    /\ UNCHANGED <<runtime, banner, screen, form>>

SwitchScreen ==
    /\ FreeKey
    /\ screen' = IF screen = "Home" THEN "Logs" ELSE "Home"
    /\ armed' = FALSE
    /\ UNCHANGED <<runtime, banner, form, over>>

\* toggle_token_banner: either way the deadline is cleared.
ToggleBanner ==
    /\ FreeKey
    /\ hidden' = ~hidden
    /\ deadline' = "none"
    /\ armed' = FALSE
    /\ UNCHANGED <<runtime, seen, screen, form, over>>

\* Shift-L, Shift-D, s, x, w and the keys without a meaning: a command to the runtime,
\* or nothing; the armed quit is forgotten.
CommandKey ==
    /\ HomeKey
    /\ armed' = FALSE
    /\ UNCHANGED <<runtime, banner, screen, form, over>>

OpenConnect ==
    /\ HomeKey /\ CanDial
    /\ form' = [kind |-> "connect", error |-> FALSE]
    /\ armed' = FALSE
    /\ UNCHANGED <<runtime, banner, screen, over>>

OpenSocks ==
    /\ HomeKey /\ ~SocksRunning
    /\ form' = [kind |-> "socks", error |-> FALSE]
    /\ armed' = FALSE
    /\ UNCHANGED <<runtime, banner, screen, over>>

ClearSocks ==
    /\ HomeKey
    /\ socks' = "unset"
    /\ armed' = FALSE
    /\ UNCHANGED <<mode, serve, dial, banner, screen, form, over>>

Step ==
    \/ ServeChanges \/ ServeToggles \/ DialChanges \/ SocksChanges
    \/ Tick \/ TimePasses
    \/ CtrlC \/ FormEsc \/ FormEdit \/ SubmitSocks \/ SubmitConnect
    \/ LogsEsc \/ HomeEsc \/ SwitchScreen \/ ToggleBanner \/ CommandKey
    \/ OpenConnect \/ OpenSocks \/ ClearSocks

Next == ~over /\ Step

Spec == Init /\ [][Next]_vars

\* The loop ticks five times a second, and ten minutes pass.
Fairness ==
    /\ WF_vars(~over /\ Tick)
    /\ WF_vars(~over /\ TimePasses)

FairSpec == Spec /\ Fairness

------------------------------------------------------------------------------
(* Properties. *)

\* A token on the screen goes off it, whatever the user and the peers do: by its
\* deadline, with the first peer, with the serve half or with the dashboard.
TokenBannerHides == TokenOnScreen ~> ~TokenOnScreen
==============================================================================
