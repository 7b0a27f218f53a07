# duopipe in TLA+

Specifications of duopipe's runtime, model-checked with TLC on small instances,
and theorems about them proved with TLAPS for every value of the constants. The
reference is the code under `src/`; paths below are relative to that directory.
`PROJECT.json` maps every definition to the lines it models.

## 1. The system

duopipe links two devices of one user. One side *listens*, the other *dials* its
iroh endpoint; the dialer authenticates with a shared token or with the rotating
PIN that the listener shows; afterwards either side may open a local SOCKS5 proxy
whose connections the other side completes. Everything runs as tokio tasks on a
multi-threaded runtime around one `AppState`.

| Component | State | Operations | Talks to | What makes it correct | Module |
|---|---|---|---|---|---|
| Listen session (`run_listen`, `auth_as_listener`, `PairClaim`, `RecentPins`, `run_pin_publisher` in `src/iroh_mode/peer.rs`; `listener_handshake` in `src/pin_auth.rs`) | the claim, the PIN cache, one task per connection, the publisher task | Start, Stop, accept, gate, request, proof, accept/reject, rotate a PIN | dialers (QUIC), `AppState` header, nostr relays | one pair at a time; only genuine credentials; the pair may return; nothing of a session survives it | `ListenerClaim` |
| Pairing run (`run_serve_and_dial`, `run_listen_supervisor`, `run_dial_manager`, `run_managed_dial_session`; key handlers in `src/tui/mod.rs`) | handles of the serve task and the dial session, two command broadcasts, the shown status and target | Shift-L, Shift-C, Enter, Shift-D, quit; Start/Stop, Connect/Disconnect | TUI by broadcast, each other through `AppState` | listening XOR dialing; one dial session; what is shown is what runs; all of it unwinds | `PairingRun` |
| SOCKS proxy lifecycle (`socks_supervisor`, `run_socks_proxy`) | token of the running proxy, done signals, local port, shown status | `e`, `s`, `x`, `d`; Start/Stop; bind, end | TUI by broadcast, the connection, the OS port | the port is freed by Stop and by the connection's end; the status is a live proxy's | `SocksProxy` |
| Node-id publisher (`run_node_id_publisher`, `src/peer_state.rs`, `src/nostr_discovery.rs`) | conflict prompt, channel with the user's decisions, flag file, record of a name | claim, re-check, take over, rename, decline | nostr relays, TUI, disk | a name is not fought over for ever; a lost one is remembered over a restart; a dialer finds whoever has it | `NamePublisher` |
| Headless dial and the dialer's half of the token handshake (`run_dial`, `auth_as_dialer`) | attempts, backoff, `established` | connect, authenticate, serve, retry | listener | bounded before the first session, unbounded after it; ends on Ctrl-C | `HeadlessDial` |
| Stream tunnel (`accept_loop`, `handle_incoming_stream`, `socks_accept_loop`, `handle_socks_client`, `src/iroh_mode/helpers.rs`, `src/net.rs`, `src/socks5.rs`) | stream permits, one task per stream | open, hello, ack, bridge, half-close | TCP clients and targets | no permit leaks; no response is cut off; a client hears what happened | `StreamTunnel` |
| PIN rendezvous (`src/pin.rs`, `lookup_pin_record`, the clock side of `run_pin_publisher`) | buckets, the cache | mint, publish, rotate, look up | nostr relays | a PIN on the screen leads to its listener | `PinRendezvous` |
| Start-up (`src/main.rs`, `src/config.rs`, `src/auth.rs`, `src/tui/setup.rs`, `src/iroh_mode/endpoint.rs`) | configuration, token, the lock on a name, the setup screen | validate, lock, ask, resolve, exit | the user, disk | one process per name; a token given by config or environment is never shown | `StartUp` |
| Dashboard (`src/tui/mod.rs`, `src/tui/ui.rs`) | screen, form, banner and its deadline | keys, tick, draw | everything, by snapshot and broadcast | a generated token leaves the screen | `Dashboard` |
| Log (`src/logging.rs`, the logs screen) | two rings, a scroll offset | push, scroll, switch the view | every task | each ring keeps the latest records of its kind; the offset stays within them | `LogPane` |
| Codec (`src/signaling/codec.rs`), endpoints | none | encode, decode, bind | their callers | agreement of both ends | in part |

The hard parts are the interleavings: claims taken between two awaits of another
handshake, tasks that are aborted and not joined, bounded broadcasts that forget
commands, checks on shared state that is changed by somebody else, status fields
several tasks write, and two devices that share one record. `PROJECT.json` lists
them one by one under `hazards`.

## 2. The modules

| Module | What it is |
|---|---|
| `OnePair` | abstract: what a listen session promises. One holder, never changed while the session lives; only the holder is ever told it is accepted |
| `ListenerClaim` | the listen session in detail; implements `OnePair` |
| `MCListenerClaim` | its instance for TLC (symmetry) |
| `ListenerClaimProofs` | its theorems |
| `PairingRun` | dashboard, supervisor, serve task, manager and dial sessions of one run |
| `SocksProxy`, `MCSocksProxy` | proxy lifecycle over overlapping connections, and its instance |
| `OneName` | abstract: what a name promises. The record leads to the newest session of a device that wrote it, and a device that was told it lost does not write again until its user takes the name over |
| `NamePublisher` | devices with one name, their publishers, prompts and flag files over restarts, the relays' record, and a peer that dials the name; implements `OneName` |
| `HeadlessDial` | the dial loop without a screen |
| `SocksPipe` | abstract: what a tunnelled stream promises its two applications. A client told it is connected has a target, each direction arrives in full and before its end, only a break ends one early |
| `StreamTunnel` | the streams of one connection, both sides of each; each implements `SocksPipe` |
| `PinRendezvous` | a PIN's way from the screen to the look-up and back |
| `StartUp` | processes on one machine from the command line to the running peer |
| `Dashboard`, `LogPane` | what the screens hold, and the rings behind the logs screen |
| `Components` | the small components side by side, one per behaviour, for one TLC run |
| `PairingRunProofs`, `SocksProxyProofs`, `NamePublisherProofs`, `StreamTunnelProofs`, `StartUpProofs`, `PinRendezvousProofs` | theorems of the module each is named for |
| `ComponentsProofs` | theorems about the specification of `Components`, those of `HeadlessDial` among them |

An action is the code between two awaits, or between two accesses to state that
another task shares. A definition whose name ends in `Bug` (or `Silent`, `Deaf`,
`Leak`) is a plausible mistake in the definition that follows it; it belongs to no
specification and shows that a property can tell the two apart.

### ListenerClaim

* `claim` is `PairClaim` (holder and the PIN key it paired with); `recent` is
  `RecentPins`; `inbound` is the header's refcounted peer. `newest` numbers the
  PINs of a session: a PIN *is* its number, and a proof opens under exactly the
  key it was sealed with. `mode` is token or PIN, fixed for a run.
* `phase` follows `run_listen` and its supervisor: `up`, `stopping` (token
  cancelled), `ended` (the endpoint is gone), `closing` (connection tasks
  joined), `closed` (`run_listen` returned), `stopped` (`clear_listen`).
* `conn[c]` is one `handle_connection` task. `pc` names the await it is at:
  `gate` (spawned), `request`, `proof`, `accept` (claim committed, acceptance not
  written), `served`, `over`. `Gate` is `claim.peek()`; `ReadTokenRequest`,
  `ReadPinRequest` and `ReadProof` are the frames; `CommitOrReject` is
  `PairClaim::commit` before the acceptance; `AuthFails` is `AUTH_TIMEOUT` and
  every I/O error.
* The publisher's cycle is `top`, `mint`, `derive`, `publish`, `sleep`. Its task
  is aborted when `run_listen` returns and nobody joins it. An abort takes effect
  at an await, so a poll that stands between the look at the claim and
  `set_current_pin` goes on (`late`, then `overrun`); `StoppedIsClean` names that
  as the only thing that may outlive a session. The last poll of an aborted
  publisher is taken to be over when the user starts the next session.
* `admitted` is a history variable: who was sent an acceptance.
* The dialer is the environment: it may present any credential, stall at any
  frame and go away at any time. The transport's own handshake is not modelled.

### PairingRun

* `ui` is where the key handler is. `KeyListen`/`ToggleListen`,
  `KeySubmit`/`ShowTarget` and `KeyDisconnect`/`StopListen` are single handlers
  cut at their accesses to shared state.
* `listenQ`, `dialQ` are the command broadcasts. A full one forgets its oldest
  command (`RecvError::Lagged` is only logged). Real capacities are 8 and 16.
* `sup`, `serve`: the supervisor and `run_listen`, which is only up, ended or
  failed here (ListenerClaim has its inside). `SupStart` is the check,
  `SupSpawn` what follows it.
* `man`, `cur`, `sess`: the manager, its handle, the session tasks. A session is
  its control skeleton: resolving, dialing, connected, backing off, and the
  status and target it writes. `Authenticating`, which is set and reset inside
  `connected`, is folded into it.
* Left out here: what the forms accept and the screens (`Dashboard`, `StartUp`), the
  name-conflict prompt (`NamePublisher`), the headless dial (`HeadlessDial`).

### SocksProxy

* `sup[c]` is `handle_connection` after authentication with its
  `socks_supervisor`; `running[c]` is the supervisor's token, identified with the
  proxy it was made for; `dones[c]` are the unread done signals, which carry no
  identity, as in the code.
* A proxy task is detached (`tokio::spawn`): it survives its supervisor, holds
  the connection, and is stopped by its token or by the connection's end.
  `PortFreed` is separate because the accept tasks drop the listeners only when
  they are next polled.
* Three ways to end: `HandlerEnds` (the connection closed), `SessionCancelled` (a
  dial session that was disconnected or replaced drops the future), and
  `ConnDropped` (the last handle goes). A listener's aborted connection task is
  followed by `endpoint.close()`, that is by `ConnCloses`.
* Left out: the test-only autostart, the traffic (`StreamTunnel`), that one address
  family suffices to bind, and a supervisor poll in flight when it is aborted.

### NamePublisher

* `run[d]` is the process of a device with its listen session; every session has a
  node id of its own, `<<device, number of the session>>`. `relay` is the one
  replaceable record that all devices of the name write. `flag` is the state file:
  it alone survives `Restart`, which may come at any point of a publisher's cycle.
* `pub[d].pc` is where `run_node_id_publisher` is: `top` (first cycle, which reads
  only the flag), `check` (later cycles look at the record), `flag` (a conflict is
  found), `prompt` (shown, old decisions not yet drained), `wait`, `publish`,
  `sleep`. `late` and `overrun` are the poll that ran on when the session's end
  aborted the task; `PromptIsAnswerable` names it as one of its two exceptions.
* `cmds[d]` is the broadcast in which the dashboard sends decisions to the publisher.
  It holds `NameCapacity` of them (`NAME_COMMAND_CAPACITY`, 8 in the code); a full one
  takes a decision in place of its oldest (`Send`) and reports that, once, instead of
  the next one (`lagged`). Both readers of the code take the report for something else:
  the loop that discards old decisions before the wait stops at it and leaves the rest
  in the channel (`Drained`), and the wait takes it for the end of the channel and
  ends the publisher with the prompt up (`Lagged`). A decision sent while the publisher's
  poll is on its way counts as sent before or after it. `fresh` and `dropped` are
  history: that a decision was made for the prompt now shown, and that one was
  overwritten since the channel was last found empty.
* `PromptIsAnswerable` and `DecisionsAreFresh` except a channel in which a decision was
  overwritten, and nothing else of that kind; `PromptTakesAnAnswer` is the promise
  without the exception, and is violated (`name_keys`).
* `GiveUp` in the first cycle cancels the token of the listen session only; the
  publisher's `declined` outlives the session so that `DecliningQuits` can see it.
* Faults: a failed publish or lookup, a dropped record, a record on its way when its
  sender ends. The state file is read and written without error. A headless run
  publishes nothing (discovery is off), so there always is a user to ask.
* `dial` is the resolving half of a managed dial session, against the same record.
* `ImplementsOneName` hides publisher, prompt, decisions and file: of a device only
  the number of its newest session, whether it has one, and whether it counts as a
  loser are left. A crash is `Finish`, with or without the last record arriving.

### HeadlessDial

* One listener, whose every answer is the environment's choice. `auth_as_dialer` does
  not watch the shutdown token; `AUTH_TIMEOUT` bounds it. `AuthBreaks` covers an
  acceptance, or a rejection, that the connection's end overtakes. `AuthTimesOut` is
  final although the peer may have been served before: the code files an unanswered
  handshake under authentication errors, beside its promise to outlast an outage.
* `tries` and `waits` are history variables, against which the loop's own counters
  are compared. `waits` stops at the bound at which the backoff does.

### StreamTunnel

* Each stream has an opener, where the SOCKS client is, and an acceptor, where the
  target is. Either device may be the opener, and the semaphore of a device counts
  both kinds: `Reversed` are the streams the second device opens.
* `flow` counts units of data: sent by the application, in the stream (`mid`),
  received, with the end of each of the three. A `copy` loop that fails also passes
  an end on (a TCP reset arrives as a clean end), so `NothingIsCutOff` excepts a
  stream with a `fault`, and nothing else.
* A request that the parser refuses gets two replies, the parser's and the general
  failure: the code writes both. A full semaphore refuses a stream without waiting
  and drops a local client without a word.
* `ImplementsPipe` is per slot: `client` is what the replies have told the application,
  `target` whether an address was connected, `broken` a `fault`; `mid`, permits, tasks
  and acknowledgements are hidden. A unit delivered twice, a reply before the connect or
  an end without a cause is no step of the pipe; `Forget` frees the slot.
* The code has no timeout of its own around a resolve or a TCP connect: the operating
  system ends them, which is `ConnectOut`'s fairness.

### PinRendezvous

* Time is the listener's clock in ticks. A PIN records when it was shown, published
  and replaced. Keys are identities of (PIN, bucket).
* The property relates bucket, cache and look-up, which have to agree: the cache holds
  what the look-up can find. It makes one exception: when a publish crosses the end
  of its bucket, the publisher sleeps through the whole next bucket, and the old PIN stays on the screen; a dialer whose clock is
  ahead then searches past the record. A publish shorter than a bucket is assumed.

### StartUp

* `launch`, `wizard` and `peer` are `TuiLaunch`, `SetupState` and `ResolvedPeer`.
  Names may be padded and fingerprints written in capitals, because the code has to
  undo both before it compares or locks.
* `revealed[p]` is a history variable: the tokens that the run which is up may have put
  on the screen. That is a token the user types, which the setup screen draws unmasked
  and in full (`EditToken`), one the run generates, and one the test mode prints.
  `SecretsStayPrivate` says that a run which was *given* its token shows none on the way,
  in no order of setup steps, and that a run that pairs by PIN has none to show.
* The lock is taken on the *declared* fingerprint before the token is known; the
  publisher derives its file from the token. That both agree in every order of
  entering, editing and leaving the token is `OneOwnerPerStateFile`.
* Met while modelling: `max_streams = 0` passes `validate` and is refused only after
  the setup screen, with the exit code of an unclassified error. The quick mode does
  not look at the token in the environment.

### Dashboard and LogPane

* `Dashboard` has the key order of `handle_key` (Ctrl-C, prompt, form, screen), the
  banner of a generated token with its deadline. The runtime is the environment, in
  every state `PairingRun` can show, a target while listening included. The module's
  header comment has `q` quit; the code has Ctrl-C and Esc Esc.
* The PIN banner is not in the model: it has no deadline. `README.md:40` of the source
  says that either secret hides after ten minutes, but the deadline is armed only for a
  generated token (`tui/mod.rs:474`), and a run that pairs by PIN has none.
* `LogPane` has both rings and the scroll offset, counted in lines. `pushed` is a
  history variable, all records of each ring.
* What fits on the screen is not modelled. Header, dialogs, setup panel and log pane
  reserve one row per line and let long lines wrap, so that a log line wider than the
  pane pushes the newest ones off it (`ui.rs:888-891`), and a long name in the summary
  or the fingerprint error pushes the last rows off the setup panel (`setup.rs:554-557`).
  How many rows a line takes is the terminal's width and the renderer's word wrapping;
  no property is stated.

### Components

`Components` holds nine instances of eight modules. `focus` chooses one of them and
the behaviour is that component's while the others keep one initial state, so the
states add up instead of multiplying. It is a way to run checks, not a claim about
interaction: components that interact are composed in their own modules
(`ListenerClaim` with its publisher, `PairingRun`, `NamePublisher` with its dialer,
both ends of a stream in `StreamTunnel`). A property of an unfocused component holds
there trivially; every property is broken by a mutant in its own component.

The tunnel, the PIN and start-up are instantiated through their proof modules, which
add no behaviour: an instance of `StreamTunnelProofs` is one of `StreamTunnel`
together with its lemmas, so that `ComponentsProofs` can cite them about the very
operators that the run checks.

## 3. The runs

| Run | Instance | Shows |
|---|---|---|
| `listener_claim` | 2 dialers, 2 slots, cache 2, 3 PINs, symmetric; 2.1 million states | safety of the listen session, and that it implements `OnePair` |
| `pairing_run` | 7 keys, channels of 2; 90 thousand states | one session, the status is true, everything unwinds |
| `socks_proxy` | 2 connections, 3 proxies, queue 2, 4 keys, symmetric; 1.4 million states | the shown address is real, the token is live |
| `rendezvous` | 2 devices, 3 sessions, a channel of 2, and 3 decisions, or 1 decision and 1 fault; 528 thousand states | it implements `OneName`, prompts, the fight ends, the dialer gets through |
| `components` | one small instance of each remaining component; 128 thousand states | eighteen properties of eight modules, half of them liveness |
| `pairing_race` | 3 keys | **violated**: listening and dialing at once |
| `phantom_target` | 3 keys | **violated**: a shown target that never connects |
| `socks_stale_done` | 1 connection, 2 proxies, 4 keys | **violated**: a running proxy nobody tracks |
| `socks_disconnect` | 1 connection, 1 proxy | **violated**: Shift-D does not drop the connection |
| `false_conflict` | 1 device, 2 sessions, 1 fault | **violated**: a device in conflict with itself |
| `decline_quits` | 2 devices, 4 sessions, 1 decision | **violated**: a declined process listens again |
| `name_keys` | 2 devices, 2 sessions, 9 decisions, a channel of 8 | **violated**: a prompt that nobody can answer any more |

| Run | Its properties |
|---|---|
| `listener_claim` | `TypeOK`, `OnlyThePairIsServed`, `OnlyGenuineCredentials`, `HeaderIsAccurate`, `StoppedIsClean`, `ThePairMayReturn`, `ImplementsOnePair` |
| `pairing_run` | `TypeOK`, `OneSessionAtATime`, `ServingIsShown`, `SessionIsShown`, `NoLeftoverStatus`, `EverythingUnwinds` |
| `socks_proxy` | `TypeOK`, `BoundIsReal`, `TokenIsLive` |
| `rendezvous` | `TypeOK`, `PromptIsAnswerable`, `DecisionsAreFresh`, `NameSettles`, `DialerGetsThrough`, `ImplementsOneName` |
| `components`: listener | `PinLeavesTheHeader`, `HandshakesEnd` |
| ... proxy | `ProxyEndsWithItsConnection`, `StopFreesThePort`, `FailedProxyCanRestart` |
| ... headless dial | `GivesUpOnTime`, `BackoffFollowsFailures`, `ShutdownEndsTheDial` |
| ... tunnel | `NothingIsCutOff`, `ClientHearsTheTruth`, `PermitsComeBack`, `ImplementsPipe`, `SetupsEnd`, `BridgesEnd` |
| ... PIN, start-up | `PinReachesTheListener`, `OneOwnerPerStateFile` |
| ... screens | `LogsKeepTheLatest`, `TokenBannerHides` |

### Bounds

* *Two dialers, two connections.* The claim races are between two handshakes; a
  third adds no new relation, and the theorems cover every number.
* *A cache of 2 and 3 PINs* (the code: 3 and no limit): one PIN more than fits,
  so a pairing key does leave the cache before its holder returns. Sessions are
  not bounded: the state returns to `stopped` and starts again. The liveness
  instance in `components` has one slot, a cache of 1 and 2 PINs.
* *Channels of 2.* The smallest in which a burst overruns a receiver and in which
  two different commands wait. Larger ones only put the loss off.
* *Keys* (`MaxKeys`) bound what the user does in one behaviour. Seven are enough
  for listen, stop, connect, replace, disconnect, and quit with one to spare.
* *Two session slots*: a session and the one that replaces it.
* *Two connections, three proxies*: a reconnect overlapping its predecessor, with
  one of them restarting its proxy. Slots are reused. The liveness instance has one
  connection slot, reused, and two proxies.
* *Two devices, three sessions* (`rendezvous`): each loses once to the other and one
  of them starts again.
* *Decisions and faults* (`rendezvous`): three decisions are one more than the channel
  of 2 takes, so it overflows before the drain and before the wait, and an old decision
  is left over for a second prompt. In a behaviour with a fault the users make one
  decision (`FaultyKeys`), before it or after it. `name_keys` has the code's capacity.
* *10 attempts, 30 seconds* (`HeadlessDial`): the code's own constants; attempts after
  the first session are not bounded.
* *One stream with a unit of data each way, two addresses*, and *two streams, opened by
  different devices, with one permit each*: the data and the permits do not depend on
  each other. Slots are reused.
* *3 ticks a bucket, 13 ticks*: four buckets, one more than the cache holds, with
  every phase of start, publish and dialer's skew.
* *Two processes, one name, two tokens*: a lock to contend for, and a token that is
  genuine but not the declared one. The configs are the valid one and one for each
  other thing that can be wrong or unusual in a file, each limit at its boundary.
* *Rings of 2, pages of 3, 5 records*: each ring overflows, and a page is longer than one
  ring and shorter than both.

### Fairness

Weak fairness is on what the runtime does by itself: polling a task that can run,
delivering a cancelled token, ending a handshake by `AUTH_TIMEOUT`. It is never on
keys, dialers, relays, the network, or on `ServeReturns`. `PairingRun` has it for
the reactions to a cancelled token but not for a session's progress. In
`SocksProxy` commands and done signals are fair each on its own, since `select!`
picks among its ready branches at random.

* `NamePublisher`: the publisher, the end of a cancelled session and the dialer's loop
  are weakly fair, the end of a sleep strongly: a timer fires also if the other device
  publishes again and again meanwhile. `SlowCycle` says that a cycle sleeps longer
  than a publish takes, as the code's 300 seconds do against its timeouts; the first
  few cycles, which are shorter, are finitely many. Without it two devices can
  overwrite each other in step for ever and `NameSettles` does not hold.
* `HeadlessDial`: every await of the loop ends by itself (timeouts) except a served
  session, whose end is fair only once the run shuts down. The shutdown branch of a
  `select!` is strongly fair: each turn polls it anew and the order is random.
* `StreamTunnel`: timers, the end of a connect, copy loops that can copy, and the
  abort of a closed connection's tasks. Nothing is assumed of clients and targets.
* `Dashboard`: the tick, the ten minutes and the publisher, while the loop runs.

`Components` guards the fairness of each component with its focus. Its run and
`PairingRun` are checked without deadlock detection, because the components it
holds and the process do end; the other passing runs are checked with it.

## 4. What the violated runs say

* **The one-pairing rule is checked, not enforced** (`pairing_race`). The comment
  at the head of `src/iroh_mode/peer.rs` has listening and dialing mutually
  exclusive, enforced in both supervisors. Shift-L, Shift-C, Enter in quick
  succession, before the supervisor has handled Start: the supervisor sees no
  target, the manager does not see the run listening, both go on.
* **A refused target stays shown** (`phantom_target`). The manager refuses Connect
  while listening and clears nothing; the form has shown the target because the
  command was delivered. Shift-L stays inert until Shift-D.
* **A stale done signal** (`socks_stale_done`). Stop, Start: the signal of the
  first proxy makes the supervisor forget the second, and Stop no longer stops it.
* **Shift-D keeps the connection** (`socks_disconnect`). A running proxy task holds
  the connection and the cancelled session closes nothing.
* **A conflict with oneself** (`false_conflict`). The re-checks after start-up are
  documented to see the device's own fresh record. A publish that failed counts as
  done, and the record of the previous session has another node id: the device asks
  its user about a conflict with itself and remembers it on disk.
* **Declining does not quit** (`decline_quits`). The start-up prompt says "decline: quit"
  and a comment in the dashboard that the shared shutdown is cancelled. It is the
  listen session's token: the header is cleared and Shift-L listens, and asks, again.
* **A burst of keys ends the publisher** (`name_keys`). A comment in the dashboard says that
  the decision is sent to the publisher, which clears the prompt and acts. Nine
  decisions before it is polled (a key held down on a busy machine) overrun the
  channel; the error for that is taken for "Sender dropped", the publisher
  ends, and the prompt, which takes every key, stays. The session goes on listening,
  and Ctrl-C is the only key left. When the burst comes before the drain, the
  drain stops at the same error, and up to eight of its decisions are left to decide in
  the user's place, or to decide the next conflict.

## 5. What is proved

Every safety property that a passing run checks, invariants, action properties and the
three refinements, is a theorem for every value of the constants.

| Module | Theorems for the properties of the runs |
|---|---|
| `ListenerClaimProofs` | `TypeCorrect`, `OnePairOnly`, `GenuineOnly`, `CleanStop`, `HeaderCounts`, `PairReturns` (an action property), `Refinement` (`Spec => Promise!Spec`) |
| `PairingRunProofs` | `TypeCorrect`, `OneSession`, `ServingShown`, `SessionShown`, `NoLeftover` |
| `SocksProxyProofs` | `TypeCorrect`, `BoundReal`, `TokenLive` |
| `NamePublisherProofs` | `TypeCorrect`, `PromptAnswerable`, `FreshDecisions` (an action property), `Refinement` (`Spec => ImplementsOneName`) |
| `ComponentsProofs` | `PermitsAlwaysComeBack`, `NothingIsEverCutOff`, `ClientAlwaysHearsTheTruth`, `StreamsArePipes` (a refinement), `PinReaches`, `OneOwner`, `GivesUpExactlyOnTime`, `BackoffDoubles`, `LogsAlwaysKeepTheLatest` |

Three theorems state properties that no run checks any more, because a stronger one
took their place or TLC has nothing to add: `LoserQuiet` (a loser does not publish),
`SelfConflictNeedsAFault` (see below) and `SecretsPrivate` (a run that was given its token,
or pairs by PIN, shows none; a relay-only run stays so).

`StreamTunnelProofs`, `StartUpProofs` and `PinRendezvousProofs` prove the same of
their modules alone; `ComponentsProofs` carries the result over to the
specification that the run checks. Each module's `IInvHolds` is its inductive
invariant. No property is inductive as it stands, and what has to be added says what
the code relies on.

### ListenerClaim

`IInv` adds to `TypeOK`:

* `SessionInv`: what each phase of the teardown has undone, and that every key in
  the cache and in the claim was generated by this session, in PIN mode;
* `SlotInv(conn[c])` for each connection: its keys are this session's, a gate that
  saw its own claim still faces that claim and carries its key into the
  candidates, a connection that is accepted or served is the holder's and proved a
  genuine credential, and no handshake is left after the tasks were joined.

`SlotInv` looks at one record, so an action of one connection has one record to
check (`OneSlot`); the exception is the commit of the claim, which changes
what all records are compared with: `CommitIInv` shows that while the endpoint is
unclaimed no other record depends on the claim. `PairReturns` rests on
`RejectedBy` (only a request or a proof is ever answered with a rejection) and on
the candidates containing the holder's key. `Refinement` maps the commit to
`Pair`, the acceptance to `Admit` and the end of `run_listen` to `Release`; every
other step stutters.

`HeaderCounts` has an invariant of its own, `HeaderInv`: while a session runs the count
is the number of served slots, and the peer shown is the holder whenever the count is
not zero. The count
follows from one cardinality lemma for a set that gains or loses one slot; that the
peer is the holder needs `IInv`, since an acceptance shows whoever it accepts.

### PairingRun

The invariant splits: `ListenInv` relates the supervisor to its serve task,
`DialInv` the manager to its sessions (`HandleInv`, the handle it holds in each of its
states; `SessionInv`, that a session which is not over is the one in the handle, and
shows itself until it hides its own target; `StatusInv`, what an idle manager
shows). The two meet only in the dashboard's commands, and both allow any command at
any time: that the channels forget commands when full breaks none of the theorems.
`StatusInv` has the delicate case: a session that ended although nobody cancelled it
is still in the manager's handle, and has left `closed` behind.

### SocksProxy

`TokenIsLive` needs two facts: no two supervisors hold one token
(`TokensDistinct`; a `Stop` cancels one supervisor's, which must not be another's),
and a proxy's done signal goes to a connection that exists (`OwnerInv`).
`BoundIsReal` then follows action by action.

### NamePublisher

`DeviceInv(d)` speaks of one device only. Devices meet in the relays' record, of
which the invariant asks nothing but the type: whatever a relay holds, loses or holds
too late, a loser stays quiet. What keeps it quiet is that its flag is in the state
file whenever it counts as lost, and that with the flag set the publisher is in none
of the states that lead to a publish, over `Restart` too.

Of the channel it says that it has overflowed whenever it reports so, and that what it
holds at a wait is fresh unless it has overflowed since it was last empty (`AllFresh`).
Sending, receiving and draining each keep both (`SendFacts`, `ChannelType`). `LaggedIInv` is the step in which the publisher ends with
its prompt up: no property but the two with the exception is affected, and a loser
stays quiet.

`Refinement` needs one thing more, that sessions are numbered in the order in which they
begin (`NumbersInv`): a new node id is newer than every earlier one. Each step of a
process or a publisher then maps to a step of `OneName` or to a stutter (`ProcessKeepsPromise`,
`PublisherKeepsPromise`): a raise is `Lose`, a take-over `TakeOver`, a publish `Write`,
and the end of a session `Finish`, which may carry the last record with it. The loser's
part is `IInv`: where a publish is possible, the device is not in `lost`.

`SelfConflictNeedsAFault` delimits the finding `false_conflict`. `HonestInv` holds
while nothing has failed: past its first publish a device finds its record of this
session or another device's, never an earlier one of its own, so the conflicts in its
publisher, its prompt and its state file have another device behind them. The run shows
that one failed publish is enough to end this; the theorem shows that nothing less does.

### StreamTunnel

One stream at a time, from the types (`Shape`) and the order of its two tasks
(`OrderOf`: no acceptor works on a stream that is not open).

* `FlowOf`: at *each* of the two loops of a direction, an end that was passed on was
  preceded by the end before it and by all the data before it. `NothingIsCutOff`
  compares the two far ends and says nothing of the loops between.
* `TruthOf`: nothing is told before the acceptor has decided, and then the
  acknowledgement in the stream and the reply both name the outcome of the last
  connect.
* `PipeInv`: success is told when the opener goes on to its bridge, a target is there
  exactly when the acceptor comes to its own, a unit is in the stream before it is
  delivered, and an end that was seen was passed on by a loop or a returning task.
  `Refinement` maps every action to a step of the slot's pipe and leaves the other slots
  where they are (`PipeStill`); an abort breaks every pipe of the device at once.
* `PermitsComeBack` is inductive given `Shape`; the work is that the *set* of holders
  gains or loses exactly one stream, or with an abort all of a device's at once
  (`PermitsAborted`).

### StartUp

The lock is taken on the fingerprint that the config declares; the publisher's file
comes from the token, which is typed later. `RunningInv` closes the gap: from the
lock to the exit the token in use has the declared fingerprint and the lock is still
the run's own (`Owns`). `SetupInv` carries it through every order of the setup
screen's buttons, and `LockInv` says that a lock has one holder.

### PinRendezvous

The proof uses two facts about `Bucket`, which is a division: it grows with time
(`BucketGrows`), and by one for each `BucketTicks` (`BucketShift`). `PinsInv`: every
PIN is of the bucket in which it was shown and is replaced on the first tick of a
bucket, one later, or two when its publish crossed a boundary. `PhaseInv`: the
publisher's next wake-up is such a boundary. `RecentInv`: the cache holds the newest
PINs. Then three rotations take more than two buckets (`IsCached`), while a dialer
looks no further back than two: a PIN that the look-up can find is still in a cache
of three. `PinCache >= 3` is therefore a hypothesis of `PinReaches`, and the code has
it (`RECENT_PIN_CACHE`, `peer.rs:59`). It is needed: with two, TLC finds a PIN that
is found and not accepted.

### HeadlessDial, in Components

`DialInv`: until the first session the loop's counter and the history of attempts are
one count, and one attempt more is under way outside the wait. `BackoffInv`: the next
wait is the power of two that the history asks for, or the cap.
Powers of two cannot be had by induction here (see below), so `PowerDoubles` and
`PowerExceeds` get them by counting: there are 2^n sets of the numbers 1 .. n. That
count is the library's `FS_SUBSET`, whose own proof takes the doubling
2^(n+1) = 2^n + 2^n as a lemma without a proof. `BackoffDoubles` rests on
that arithmetic fact; no other theorem does.

### LogPane, in Components

`LogInv` is the property with the types. `PutLatest` is the step of one ring, at any
capacity, zero included: what it holds after a push is the latest of one record more.
The rings never shrink (`LatestLonger`), and switching the view, which can halve what
the screen has, goes to the tail: so the offset stays within the lines.

### Assumptions

Named in the modules that declare the constants, and evaluated by TLC in the runs:
`NoPeer` is no dialer and `None` neither a proxy nor a
connection; caches, queues, numbers of PINs, sessions and permits are
positive; the slots of `ListenerClaim` and the streams of a tunnel are finitely many
(an endpoint has finitely many connections at any time, but a cardinality needs it
said); a publish takes less than a bucket (`TicksAssumption`); `OneStream` is a set of
streams. `PinCache >= 3` is the only hypothesis beyond them.

### Only model-checked

* Liveness (`EverythingUnwinds`, `NameSettles`, `DialerGetsThrough`,
  `PinLeavesTheHeader`, `HandshakesEnd`, `ProxyEndsWithItsConnection`,
  `StopFreesThePort`, `FailedProxyCanRestart`, `ShutdownEndsTheDial`, `SetupsEnd`,
  `BridgesEnd`, `TokenBannerHides`): it rests on fairness and so on `ENABLED`, for
  which tlapm has no rules.

There is no recursive operator in any module.

## 6. Not modelled

* The cryptography of PINs, proofs and records (Argon2, sealing, the checksum of a
  token, the check character of a PIN): only what it decides is used.
* The relays' protocol, and iroh itself: connections, relays and path selection are
  the environment. The path watcher only displays.
* The bytes of frames, their size limits and the truncation of reasons: what a frame
  means is in the modules that exchange it.
* Layout (heights, wrapping), wording, colours, the order in which the verbose view
  merges the two rings, the cursor and scrolling of the text field, the PIN banner, and
  the file a connection is dumped to.
* The test-only autostart of the proxy, beyond the exit code of a missing port.
* QUIC's own handshake of an incoming connection, which the accept loop awaits without
  watching its token: how long it takes is the transport's idle timeout.

## 7. Plan

What is built is described above; what would come next:

1. A fairness argument by hand for `EverythingUnwinds` and `NameSettles`, the liveness
   properties whose small instances leave the most out.
2. The transport's handshake of an incoming connection in `ListenerClaim`, with the
   idle timeout as the only bound of a Stop (`peer.rs:856`).
3. The byte layout of the codec, if frames of a second version are ever exchanged.
