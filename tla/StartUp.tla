------------------------------- MODULE StartUp -------------------------------
(***************************************************************************)
(* Processes on one machine from the command line to the running peer:     *)
(* the checks of main.rs and config.rs, the lock on the state file of a    *)
(* name (peer_state.rs), the setup screen (setup.rs), the peer it resolves *)
(* and the exit code.                                                      *)
(*                                                                         *)
(* What a user writes keeps the form that the code has to undo: a name may *)
(* be padded, a fingerprint written in capitals.  The fingerprint of a     *)
(* token is the token in lower case: the model has no collisions.          *)
(***************************************************************************)
EXTENDS Integers

CONSTANTS
    Procs,   \* processes on this machine
    Names,   \* peer names
    Tokens   \* well-formed tokens that users share

WordsAssumption == {"unset", "bad", "minted"} \cap (Names \cup Tokens) = {}

VARIABLES
    stage,     \* of a process: off, setup, running (dashboard) or headless
    launch,    \* TuiLaunch: what the start-up hands to the setup and the runtime
    wizard,    \* SetupState
    peer,      \* ResolvedPeer
    lock,      \* the state file a process holds locked
    code,      \* the exit code of the last run of a process, 0 until it ends
    revealed   \* history: the tokens that the run which is up may have put on the screen

vars == <<stage, launch, wizard, peer, lock, code, revealed>>

------------------------------------------------------------------------------
(* The config file                                                         *)

Unset == -1
MinWindow == 1024
MaxWindow == 64 * 1024 * 1024
MaxAckThreshold == 65535

\* A name and a fingerprint are a word and the form it is written in.
Plain == [loads |-> TRUE, receive |-> Unset, send |-> Unset, acks |-> Unset,
          name |-> <<CHOOSE n \in Names : TRUE, "bare">>, dns |-> "unset",
          relays |-> "unset", nostrRelays |-> "unset", relayOnly |-> FALSE,
          maxStreams |-> Unset, tokenFile |-> CHOOSE t \in Tokens : TRUE,
          expected |-> <<CHOOSE t \in Tokens : TRUE, "lower">>]

\* The identities a config may declare, and one config for each other thing that can
\* be wrong or unusual in a file.
Identity(name, expected, file) ==
    [Plain EXCEPT !.name = name, !.expected = expected, !.tokenFile = file]

Identities ==
    {Identity(name, expected, file) :
        name \in Names \X {"bare"},
        expected \in Tokens \X {"lower"} \cup {<<Plain.expected[1], "upper">>},
        file \in Tokens \cup {"unset", "bad"}}

Relayed(relays, only) == [Plain EXCEPT !.relays = relays, !.relayOnly = only]

Variants ==
    {[Plain EXCEPT !.loads = FALSE]}
    \cup {[Plain EXCEPT !.name = n] : n \in {<<"unset", "bare">>, <<"bad", "bare">>, <<Plain.name[1], "padded">>}}
    \cup {[Plain EXCEPT !.expected = <<word, "lower">>] : word \in {"unset", "bad"}}
    \cup {[Plain EXCEPT !.receive = w] : w \in {MinWindow - 1, MinWindow, MaxWindow, MaxWindow + 1}}
    \cup {[Plain EXCEPT !.send = w] : w \in {MinWindow - 1, MaxWindow}}
    \cup {[Plain EXCEPT !.acks = MaxAckThreshold + k] : k \in {0, 1}}
    \cup {[Plain EXCEPT !.dns = d] : d \in {"none", "url", "bad"}}
    \cup {[Plain EXCEPT !.nostrRelays = r] : r \in {"url", "bad"}}
    \cup {Relayed(r, b) : r \in {"unset", "url", "bad"}, b \in BOOLEAN}
    \cup {[Plain EXCEPT !.maxStreams = 0]}

\* PeerConfig::default(), the config of the quick mode.
DefaultConfig == [Plain EXCEPT !.name = <<"unset", "bare">>, !.tokenFile = "unset",
                                !.expected = <<"unset", "lower">>]

\* What the runs of the test mode are given: defaults, a file, one bad or relay-only.
HeadlessConfigs == {DefaultConfig, Plain} \cup {c \in Variants : c.relayOnly \/ c.maxStreams = 0}

ValidWindow(w) == w = Unset \/ w \in MinWindow .. MaxWindow
ValidTuning(c) == /\ ValidWindow(c.receive)
                  /\ ValidWindow(c.send)
                  /\ c.acks <= MaxAckThreshold
ValidUrls(c) == "bad" \notin {c.dns, c.relays, c.nostrRelays}
ValidName(c) == c.name[1] # "bad"

\* PeerConfig::validate
Validates(c) == ValidTuning(c) /\ ValidName(c) /\ ValidUrls(c)

\* validate_relay_only
ValidRelayOnly(c) == c.relayOnly => c.relays # "unset"

------------------------------------------------------------------------------
(* Tokens and fingerprints                                                 *)

ValidToken(t) == t \in Tokens \cup {"minted"}

\* token_fingerprint, fingerprint_matches and validate_fingerprint
Fingerprint(t) == <<t, "lower">>
LowerCase(fp) == <<fp[1], "lower">>
FingerprintMatches(t, fp) == Fingerprint(t) = LowerCase(fp)
DeclaresFingerprint(c) == c.expected[1] \notin {"unset", "bad"}

\* resolve_config_auth_token: the environment wins over the file, also when it is bad.
ConfigToken(c, env) == IF env # "unset" THEN env ELSE c.tokenFile

\* state_path_in: both parts are trimmed, the fingerprint is in lower case.
StateFile(name, fp) == <<name[1], LowerCase(fp)>>

\* acquire_name_lock: the lock is advisory and held by one process.
NoLock == <<"unset", <<"unset", "lower">>>>
Free(file) == \A p \in Procs : lock[p] # file

------------------------------------------------------------------------------
(* The endpoint that the sessions of a run bind (create_endpoint_builder)  *)

DefaultWindow == 64 * 1024 * 1024
Lesser(a, b) == IF a < b THEN a ELSE b
StreamWindow(c) == IF c.receive = Unset THEN DefaultWindow ELSE c.receive
SendWindow(c) ==
    IF c.send # Unset THEN c.send
    ELSE IF c.receive = Unset THEN DefaultWindow
    ELSE Lesser(2 * StreamWindow(c), DefaultWindow)

RelayMode(c) == IF c.relays = "unset" THEN "default" ELSE "custom"
Transports(c) == IF c.relayOnly THEN {"relay"} ELSE {"relay", "ip"}
Lookups(c) ==
    IF c.relayOnly THEN {}
    ELSE {"mdns"} \cup CASE c.dns = "none" -> {}
                         [] c.dns = "url" -> {"pkarr resolver"}
                         [] OTHER -> {"n0 publisher", "n0 dns"}

------------------------------------------------------------------------------
Unresolved == [role |-> "none", token |-> "unset", generated |-> FALSE, pin |-> FALSE]
NoLaunch == [config |-> DefaultConfig, token |-> "unset", discovery |-> FALSE]
Closed == [phase |-> "Start", focus |-> "Exit", typed |-> "unset", error |-> FALSE]

\* SetupState::new
NewWizard(discovery) ==
    [Closed EXCEPT !.focus = IF discovery THEN "Start" ELSE "PinStart"]

Init ==
    /\ stage = [p \in Procs |-> "off"]
    /\ launch = [p \in Procs |-> NoLaunch]
    /\ wizard = [p \in Procs |-> Closed]
    /\ peer = [p \in Procs |-> Unresolved]
    /\ lock = [p \in Procs |-> NoLock]
    /\ code = [p \in Procs |-> 0]
    /\ revealed = [p \in Procs |-> {}]

Reveal(p, tokens) == revealed' = [revealed EXCEPT ![p] = tokens]

\* The process ends: the lock goes with it.
Exit(p, n) ==
    /\ stage' = [stage EXCEPT ![p] = "off"]
    /\ launch' = [launch EXCEPT ![p] = NoLaunch]
    /\ wizard' = [wizard EXCEPT ![p] = Closed]
    /\ peer' = [peer EXCEPT ![p] = Unresolved]
    /\ lock' = [lock EXCEPT ![p] = NoLock]
    /\ code' = [code EXCEPT ![p] = n]
    /\ Reveal(p, {})

\* run: the exit codes of the categories.
ConfigError == 2
AuthError == 3
ConnectionError == 10
OtherError == 1
Signal == 137

Refuse(p) == /\ stage[p] = "off"
             /\ code' = [code EXCEPT ![p] = ConfigError]
             /\ UNCHANGED <<stage, launch, wizard, peer, lock, revealed>>

\* What every run of a peer must pass before a mode of its own begins.
Checks(c, token) == /\ c.loads
                    /\ Validates(c)
                    /\ ValidRelayOnly(c)
                    /\ token = "unset" \/ ValidToken(token)

\* What interactive config mode asks of its file besides.
Declares(c, token) == /\ DeclaresFingerprint(c)
                      /\ token = "unset" \/ FingerprintMatches(token, c.expected)
                      /\ c.name[1] # "unset"

\* The part of the file that the rest of the run reads.
Kept(c, token, discovery) ==
    [config |-> [c EXCEPT !.tokenFile = "unset"], token |-> token, discovery |-> discovery]

Setup(p, c, token, discovery) ==
    /\ stage' = [stage EXCEPT ![p] = "setup"]
    /\ launch' = [launch EXCEPT ![p] = Kept(c, token, discovery)]
    /\ wizard' = [wizard EXCEPT ![p] = NewWizard(discovery)]
    /\ code' = [code EXCEPT ![p] = 0]
    /\ UNCHANGED <<peer, revealed>>

\* `duopipe quick`: no file, no lock, and a token in the environment is ignored.
Quick(p) ==
    /\ stage[p] = "off"
    /\ Setup(p, DefaultConfig, "unset", FALSE)
    /\ UNCHANGED lock

\* `duopipe run`: the checks, then the lock, all before the screen.
Run(p, c, env) ==
    LET token == ConfigToken(c, env)
        file == StateFile(c.name, LowerCase(c.expected))
    IN  /\ stage[p] = "off"
        /\ Checks(c, token)
        /\ Declares(c, token)
        /\ Free(file)
        /\ lock' = [lock EXCEPT ![p] = file]
        /\ Setup(p, c, token, TRUE)

\* A failed check, or the lock held by another process.
RunRefused(p, c, env) ==
    /\ LET token == ConfigToken(c, env)
       IN  \/ ~Checks(c, token)
           \/ ~Declares(c, token)
           \/ ~Free(StateFile(c.name, LowerCase(c.expected)))
    /\ Refuse(p)

\* No terminal, a bad port in the environment, or a lock file that cannot be opened.
CannotStart(p) == Refuse(p)

\* `duopipe generate-auth-token` prints tokens and ends.
GenerateAuthToken(p) ==
    /\ stage[p] = "off"
    /\ code' = [code EXCEPT ![p] = 0]
    /\ UNCHANGED <<stage, launch, wizard, peer, lock, revealed>>

\* Test mode: TestEnv::resolve_preset. A node id makes the run a dialer, which must
\* have been given a token; a listener mints the token it lacks and prints it.
Preset(node, token) ==
    IF node # "unset"
    THEN [role |-> "dial", token |-> token, generated |-> FALSE, pin |-> FALSE]
    ELSE [role |-> "listen", token |-> IF token = "unset" THEN "minted" ELSE token,
          generated |-> token = "unset", pin |-> FALSE]

Printed(r) == IF r.generated THEN {"minted"} ELSE {}

\* A peer without a screen: no fingerprint, no name and no lock is asked for. With
\* autostart and no port to bind (needsPort, validate_autostart_socks) it ends after the token is printed.
Headless(p, c, env, node, needsPort) ==
    LET token == ConfigToken(c, env)
        r == Preset(node, token)
    IN  /\ stage[p] = "off"
        /\ Checks(c, token)
        /\ node = "unset" \/ (node = "id" /\ token # "unset")
        /\ IF needsPort
           THEN code' = [code EXCEPT ![p] = ConfigError] /\ UNCHANGED <<stage, launch, peer, revealed>>
           ELSE /\ stage' = [stage EXCEPT ![p] = "headless"]
                /\ launch' = [launch EXCEPT ![p] = Kept(c, token, FALSE)]
                /\ peer' = [peer EXCEPT ![p] = r]
                /\ Reveal(p, Printed(r))
                /\ code' = [code EXCEPT ![p] = 0]
        /\ UNCHANGED <<wizard, lock>>

HeadlessRefused(p, c, env, node) ==
    /\ LET token == ConfigToken(c, env)
       IN  ~Checks(c, token) \/ node = "bad" \/ (node = "id" /\ token = "unset")
    /\ Refuse(p)

\* run_peer: the streams are capped by more than nothing, or the run ends at once.
HasStreams(p) == launch[p].config.maxStreams # 0

HeadlessEnds(p) ==
    /\ stage[p] = "headless"
    /\ \/ ~HasStreams(p) /\ Exit(p, OtherError)
       \/ HasStreams(p) /\ \E n \in {0, OtherError, ConnectionError} : Exit(p, n)
       \/ HasStreams(p) /\ peer[p].role = "dial" /\ Exit(p, AuthError)

------------------------------------------------------------------------------
(* The setup screen                                                        *)

Phase(p) == IF stage[p] = "setup" THEN wizard[p].phase ELSE "closed"
SetWizard(p, w) == wizard' = [wizard EXCEPT ![p] = w]
StaysInSetup == UNCHANGED <<stage, launch, peer, lock, code, revealed>>

\* Ctrl-C, Esc on the first screen, or the end of the input.
QuitSetup(p) == stage[p] = "setup" /\ Exit(p, 0)

\* finalize, build_resolved and the runtime's start: the dashboard shows the token
\* when it was generated.
Finalize(p, token, generated, pin) ==
    /\ peer' = [peer EXCEPT ![p] = [role |-> "both", token |-> token,
                   generated |-> generated, pin |-> ~launch[p].discovery /\ pin]]
    /\ stage' = [stage EXCEPT ![p] = "running"]
    /\ SetWizard(p, Closed)
    /\ Reveal(p, revealed[p] \cup IF generated /\ token # "unset" THEN {token} ELSE {})
    /\ UNCHANGED <<launch, lock, code>>

\* start_ring: config mode has one way to start, quick mode two.
StartRing(discovery) ==
    IF discovery THEN <<"Start", "Exit">> ELSE <<"PinStart", "ManualStart", "Exit">>

\* next_start_focus, prev_start_focus
MoveFocus(p) ==
    LET ring == StartRing(launch[p].discovery)
        n == IF launch[p].discovery THEN 2 ELSE 3
        i == CHOOSE k \in 1 .. n : ring[k] = wizard[p].focus
    IN  /\ Phase(p) = "Start"
        /\ \E step \in {1, n - 1} :
               SetWizard(p, [wizard[p] EXCEPT !.focus = ring[((i - 1 + step) % n) + 1],
                                              !.error = FALSE])
        /\ StaysInSetup

\* start_quick: with a PIN there is no token, otherwise a fresh one.
StartQuick(p) ==
    /\ Phase(p) = "Start"
    /\ \/ wizard[p].focus = "PinStart" /\ Finalize(p, "unset", FALSE, TRUE)
       \/ /\ wizard[p].focus = "ManualStart"
          /\ IF launch[p].token # "unset"
             THEN Finalize(p, launch[p].token, FALSE, FALSE)
             ELSE Finalize(p, "minted", TRUE, FALSE)

\* submit_start: a supplied token is used as it is, otherwise one is asked for.
SubmitStart(p) ==
    /\ Phase(p) = "Start"
    /\ wizard[p].focus = "Start"
    /\ IF launch[p].token # "unset"
       THEN Finalize(p, launch[p].token, FALSE, TRUE)
       ELSE SetWizard(p, [wizard[p] EXCEPT !.phase = "TokenSetup", !.error = FALSE]) /\ StaysInSetup

PressExit(p) == Phase(p) = "Start" /\ wizard[p].focus = "Exit" /\ Exit(p, 0)

\* A paste or an edit; "bad" stands for every text that is no token.  The field is
\* drawn as it is typed, without a mask.
EditToken(p) ==
    /\ Phase(p) = "TokenSetup"
    /\ \E text \in Tokens \cup {"unset", "bad"} :
           /\ SetWizard(p, [wizard[p] EXCEPT !.typed = text, !.error = FALSE])
           /\ Reveal(p, revealed[p] \cup ({text} \cap Tokens))
    /\ UNCHANGED <<stage, launch, peer, lock, code>>

\* Esc: the text stays in the field.
LeaveToken(p) ==
    /\ Phase(p) = "TokenSetup"
    /\ SetWizard(p, [wizard[p] EXCEPT !.phase = "Start", !.error = FALSE])
    /\ StaysInSetup

\* A typed token is only tested for its checksum.
AcceptableBug(p) == ValidToken(wizard[p].typed)

\* submit_token: the same two tests as a token from the file or the environment.
Acceptable(p) == /\ ValidToken(wizard[p].typed)
                 /\ FingerprintMatches(wizard[p].typed, launch[p].config.expected)

SubmitToken(p) ==
    /\ Phase(p) = "TokenSetup"
    /\ IF Acceptable(p)
       THEN Finalize(p, wizard[p].typed, FALSE, TRUE)
       ELSE SetWizard(p, [wizard[p] EXCEPT !.error = TRUE]) /\ StaysInSetup

------------------------------------------------------------------------------
(* The running peer                                                        *)

\* Ctrl-C, Esc Esc or the end of the input; or the runtime stops on its own.
DashboardEnds(p) ==
    /\ stage[p] = "running"
    /\ \/ HasStreams(p) /\ Exit(p, 0)
       \/ \E n \in {OtherError, ConnectionError} : (~HasStreams(p) => n = OtherError) /\ Exit(p, n)

\* The process is killed: the operating system frees the lock.
Killed(p) == stage[p] # "off" /\ Exit(p, Signal)

Environments == Tokens \cup {"unset", "bad"}

Next == \E p \in Procs :
    \/ Quick(p)
    \/ CannotStart(p)
    \/ GenerateAuthToken(p)
    \/ \E c \in Identities, env \in Environments : Run(p, c, env) \/ RunRefused(p, c, env)
    \/ \E c \in Variants : Run(p, c, "unset") \/ RunRefused(p, c, "unset")
    \/ \E c \in HeadlessConfigs, env \in Environments, node \in {"unset", "id", "bad"} :
           \/ \E needsPort \in BOOLEAN : Headless(p, c, env, node, needsPort)
           \/ HeadlessRefused(p, c, env, node)
    \/ HeadlessEnds(p)
    \/ QuitSetup(p) \/ MoveFocus(p) \/ StartQuick(p) \/ SubmitStart(p) \/ PressExit(p)
    \/ EditToken(p) \/ LeaveToken(p) \/ SubmitToken(p)
    \/ DashboardEnds(p)
    \/ Killed(p)

Spec == Init /\ [][Next]_vars

------------------------------------------------------------------------------
Publishes(p) == stage[p] = "running" /\ launch[p].discovery

\* The file that the publisher of a run derives from the token itself.
PublisherFile(p) == StateFile(launch[p].config.name, Fingerprint(peer[p].token))

\* Two processes of one machine never publish under one name of one pairing, and the
\* conflict flag has one writer: the lock is taken before the token is known, on the
\* fingerprint that the config declares, and the publisher uses the file of the token
\* that was typed later (main.rs name lock, setup.rs submit_token).
OneOwnerPerStateFile ==
    \A p, q \in Procs : p # q /\ Publishes(p) /\ Publishes(q) => PublisherFile(p) # PublisherFile(q)

\* A token that a run was given by its config or environment is never put on a screen
\* in full: what is, was typed there or made by the run itself.  A run that pairs by
\* PIN has no token, from nowhere and on no screen.  And a relay-only run gives its
\* addresses to no lookup and no direct path (setup.rs finalize, main.rs
\* resolve_preset, create_endpoint_builder).
SecretsStayPrivate ==
    \A p \in Procs :
        /\ stage[p] # "off" /\ launch[p].token # "unset" => revealed[p] = {}
        /\ peer[p].pin => peer[p].token = "unset" /\ revealed[p] = {}
        /\ stage[p] \in {"running", "headless"} /\ launch[p].config.relayOnly =>
               /\ Lookups(launch[p].config) = {}
               /\ Transports(launch[p].config) = {"relay"}
               /\ RelayMode(launch[p].config) = "custom"
==============================================================================
