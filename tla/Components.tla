----------------------------- MODULE Components -----------------------------
(***************************************************************************)
(* Components of duopipe side by side, each on a small instance.  A        *)
(* behaviour starts with the choice of one component, its focus, and is a  *)
(* behaviour of that component while the others stay as they were, so one  *)
(* run of TLC answers the questions each of them is asked.  Components     *)
(* that interact are composed inside their own modules; NamePublisher and  *)
(* PairingRun are checked by themselves.                                   *)
(***************************************************************************)
EXTENDS Naturals

CONSTANTS
    Dialers, Conns, RecentPinCache, MaxPins, NoPeer,           \* ListenerClaim
    Proxies, None, CommandCap, MaxKeys,                        \* SocksProxy
    MaxInitialAttempts, MaxBackoff,                            \* HeadlessDial
    OneStream, MaxUnits,                                       \* StreamTunnel: data
    Streams, Reversed, MaxStreams, MaxAddresses,               \* StreamTunnel: permits
    BucketTicks, PinCache, MaxPublish, MaxTime,                \* PinRendezvous
    Procs, Names, Tokens,                                      \* StartUp
    Cap, Page, MaxPush                                         \* LogPane

VARIABLES
    focus,
    mode, phase, claim, recent, newest, pub, shown, inbound, conn, admitted,
    keys, port, socks, bound, holder, socksConn, sup, cmdQ, running, dones, proxy, cancelled,
    pc, goodToken, claimed, established, attempts, backoff, quit, outcome, tries, waits,
    link, permits, task, request, ack, replies, connects, flow, copied, fault,
    now, pins, pinCache, pinPhase, wakeAt,
    stage, launch, wizard, peer, lock, code, revealed,
    uiMode, serve, uiDial, uiSocks, screen, form, armed, hidden, deadline, seen, over,
    concise, churn, pushed, onLogs, scroll, verbose

listenerVars == <<mode, phase, claim, recent, newest, pub, shown, inbound, conn, admitted>>
socksVars == <<keys, port, socks, bound, holder, socksConn, sup, cmdQ, running, dones,
               proxy, cancelled>>
dialVars == <<pc, goodToken, claimed, established, attempts, backoff, quit, outcome, tries, waits>>
streamVars == <<link, permits, task, request, ack, replies, connects, flow, copied, fault>>
pinVars == <<now, pins, pinCache, pinPhase, wakeAt>>
startVars == <<stage, launch, wizard, peer, lock, code, revealed>>
uiVars == <<uiMode, serve, uiDial, uiSocks, screen, form, armed, hidden, deadline, seen, over>>
logVars == <<concise, churn, pushed, onLogs, scroll, verbose>>
vars == <<focus, listenerVars, socksVars, dialVars, streamVars, pinVars, startVars,
          uiVars, logVars>>

Listener == INSTANCE ListenerClaim
Socks == INSTANCE SocksProxy WITH conn <- socksConn
Dialer == INSTANCE HeadlessDial
\* Three components are instantiated with their proofs, so that ComponentsProofs can
\* cite the lemmas about the very operators that are used here.
\* One stream with its data, and streams of both devices with little data.
Tunnel == INSTANCE StreamTunnelProofs WITH Streams <- OneStream, Reversed <- {}, attempts <- connects
Permits == INSTANCE StreamTunnelProofs WITH MaxUnits <- 0, MaxAddresses <- 1, attempts <- connects
Pin == INSTANCE PinRendezvousProofs WITH recent <- pinCache, phase <- pinPhase
Start == INSTANCE StartUpProofs
Ui == INSTANCE Dashboard WITH mode <- uiMode, dial <- uiDial, socks <- uiSocks
Log == INSTANCE LogPane

ASSUME DialAssumption == Dialer!AttemptsAssumption /\ Dialer!BackoffAssumption
ASSUME TunnelAssumption == Tunnel!ReversedAssumption /\ Tunnel!PermitsAssumption /\ Tunnel!UnitsAssumption
ASSUME StreamsAssumption == Permits!ReversedAssumption /\ Permits!UnitsAssumption /\ Permits!SlotsAssumption
ASSUME OneStreamAssumption == OneStream \subseteq Streams
ASSUME PinAssumption == Pin!TicksAssumption /\ Pin!CacheAssumption
ASSUME StartAssumption == Start!WordsAssumption
ASSUME LogAssumption == Log!PaneAssumption

Foci == {"listener", "socks", "dial", "tunnel", "permits", "pin", "start", "ui", "log"}

\* A component in focus starts in any of its initial states, the others in one.
Elsewhere ==
    /\ focus # "listener" => mode = "token"
    /\ focus # "socks" => ~port
    /\ focus # "dial" => goodToken /\ claimed = "none"
    /\ focus # "pin" => now = BucketTicks
    /\ focus # "ui" => uiMode = "config" /\ uiSocks = "Idle"

Init ==
    /\ focus \in Foci
    /\ Listener!Init /\ Socks!Init /\ Dialer!Init
    /\ Pin!Init /\ Start!Init /\ Ui!Init /\ Log!Init
    /\ \/ focus = "permits" /\ Permits!Init
       \/ focus # "permits" /\ Tunnel!Init
    /\ Elsewhere

Next ==
    \/ /\ focus = "listener" /\ Listener!Next
       /\ UNCHANGED <<focus, socksVars, dialVars, streamVars, pinVars, startVars, uiVars, logVars>>
    \/ /\ focus = "socks" /\ Socks!Next
       /\ UNCHANGED <<focus, listenerVars, dialVars, streamVars, pinVars, startVars, uiVars, logVars>>
    \/ /\ focus = "dial" /\ Dialer!Next
       /\ UNCHANGED <<focus, listenerVars, socksVars, streamVars, pinVars, startVars, uiVars, logVars>>
    \/ /\ focus = "tunnel" /\ Tunnel!Next
       /\ UNCHANGED <<focus, listenerVars, socksVars, dialVars, pinVars, startVars, uiVars, logVars>>
    \/ /\ focus = "permits" /\ Permits!Next
       /\ UNCHANGED <<focus, listenerVars, socksVars, dialVars, pinVars, startVars, uiVars, logVars>>
    \/ /\ focus = "pin" /\ Pin!Next
       /\ UNCHANGED <<focus, listenerVars, socksVars, dialVars, streamVars, startVars, uiVars, logVars>>
    \/ /\ focus = "start" /\ Start!Next
       /\ UNCHANGED <<focus, listenerVars, socksVars, dialVars, streamVars, pinVars, uiVars, logVars>>
    \/ /\ focus = "ui" /\ Ui!Next
       /\ UNCHANGED <<focus, listenerVars, socksVars, dialVars, streamVars, pinVars, startVars, logVars>>
    \/ /\ focus = "log" /\ Log!Next
       /\ UNCHANGED <<focus, listenerVars, socksVars, dialVars, streamVars, pinVars, startVars, uiVars>>

Spec == Init /\ [][Next]_vars

\* The fairness of each component, for the behaviours it is the focus of.
ListenerFairness ==
    /\ WF_listenerVars(focus = "listener" /\ (Listener!AbortConnections \/ Listener!CloseEndpoint \/ Listener!ClearListen))
    /\ WF_listenerVars(focus = "listener" /\ Listener!PinPublisher)
    /\ \A c \in Conns :
         /\ WF_listenerVars(focus = "listener" /\ Listener!Gate(c))
         /\ WF_listenerVars(focus = "listener" /\ Listener!AuthFails(c))

SocksFairness ==
    /\ \A c \in Conns :
         /\ WF_socksVars(focus = "socks" /\ Socks!HandlerEnds(c))
         /\ WF_socksVars(focus = "socks" /\ Socks!ConnDropped(c))
         /\ WF_socksVars(focus = "socks" /\ (Socks!SupStart(c) \/ Socks!SupStop(c)))
         /\ WF_socksVars(focus = "socks" /\ Socks!SupDone(c))
    /\ \A p \in Proxies :
         /\ WF_socksVars(focus = "socks" /\ Socks!ProxyBind(p))
         /\ WF_socksVars(focus = "socks" /\ Socks!ProxyStop(p))
         /\ WF_socksVars(focus = "socks" /\ Socks!ProxyFinish(p))
         /\ WF_socksVars(focus = "socks" /\ Socks!PortFreed(p))

DialFairness ==
    /\ WF_dialVars(focus = "dial" /\ Dialer!Loop /\ pc # "serve")
    /\ WF_dialVars(focus = "dial" /\ quit /\ Dialer!ServeEnds)
    /\ SF_dialVars(focus = "dial" /\ Dialer!ShutdownTaken)

TunnelFairness ==
    /\ \A s \in OneStream :
         /\ WF_streamVars(focus = "tunnel" /\ Tunnel!SetupFails(s))
         /\ WF_streamVars(focus = "tunnel" /\ Tunnel!HelloFails(s))
         /\ WF_streamVars(focus = "tunnel" /\ Tunnel!ConnectOut(s))
         /\ \A dir \in {"up", "down"} :
              /\ WF_streamVars(focus = "tunnel" /\ Tunnel!CopyIn(s, dir))
              /\ WF_streamVars(focus = "tunnel" /\ Tunnel!CopyOut(s, dir))
              /\ \A loop \in {"in", "out"} :
                   WF_streamVars(focus = "tunnel" /\ Tunnel!StreamFails(s, dir, loop))
         /\ \A side \in {"opener", "acceptor"} :
              WF_streamVars(focus = "tunnel" /\ Tunnel!BridgeEnds(side, s))
    /\ \A side \in {"opener", "acceptor"} : WF_streamVars(focus = "tunnel" /\ Tunnel!Abort(side))

UiFairness ==
    /\ WF_uiVars(focus = "ui" /\ ~over /\ Ui!Tick)
    /\ WF_uiVars(focus = "ui" /\ ~over /\ Ui!TimePasses)

FairSpec ==
    /\ Spec
    /\ ListenerFairness /\ SocksFairness /\ DialFairness
    /\ TunnelFairness /\ UiFairness

------------------------------------------------------------------------------
(* What is asked of each component; its module states the property.        *)

\* A PIN leaves the header after the pairing, wherever the publisher was (PinPublisher).
PinLeavesTheHeader == Listener!PinLeavesTheHeader

\* A dialer that stalls at any frame of its handshake is let go (auth_as_listener).
HandshakesEnd == Listener!HandshakesEnd

\* A proxy ends with its connection, also when its supervisor was aborted.
ProxyEndsWithItsConnection == Socks!ProxyEndsWithItsConnection

\* A cancelled proxy frees the local port, binding or bound (socks_supervisor).
StopFreesThePort == Socks!StopFreesThePort

\* A proxy that failed to bind does not block the next Start (socks_supervisor).
FailedProxyCanRestart == Socks!FailedProxyCanRestart

\* The headless dial gives up after exactly the permitted attempts, and never once it
\* was served (run_dial).
GivesUpOnTime == Dialer!GivesUpOnTime

\* The wait doubles with every failure in a row and starts over after a session (run_dial).
BackoffFollowsFailures == Dialer!BackoffFollowsFailures

\* Ctrl-C ends the headless dial wherever it is.
ShutdownEndsTheDial == Dialer!ShutdownEndsTheDial

\* An application that reads an end of data has got all of it (bridge_streams).
NothingIsCutOff == Tunnel!NothingIsCutOff

\* A SOCKS client is told what became of its connection (socks_connect_side, read_ack).
ClientHearsTheTruth ==
    IF focus = "permits" THEN Permits!ClientHearsTheTruth ELSE Tunnel!ClientHearsTheTruth

\* A tunnelled stream is the pipe that its two applications expect (SocksPipe).
ImplementsPipe == Tunnel!ImplementsPipe

\* No stalled client or peer holds a setup for ever (SOCKS_SETUP_TIMEOUT, ACK_TIMEOUT).
SetupsEnd == focus = "tunnel" => Tunnel!SetupsEnd

\* A bridge ends once both applications have shut down (bridge_streams).
BridgesEnd == focus = "tunnel" => Tunnel!BridgesEnd

\* Every permit of the shared semaphore comes back (new_stream_semaphore).
PermitsComeBack ==
    IF focus = "permits" THEN Permits!PermitsComeBack ELSE Tunnel!PermitsComeBack

\* A PIN that was on the screen leads to its listener within the clock skew that the
\* buckets allow (lookup_pin_record, RecentPins).
PinReachesTheListener == Pin!PinReachesTheListener

\* No two processes publish under one name of one pairing (acquire_name_lock).
OneOwnerPerStateFile == Start!OneOwnerPerStateFile

\* No token from the config or the environment is shown, and a relay-only run stays so
\* (finalize, resolve_preset, create_endpoint_builder).
SecretsStayPrivate == Start!SecretsStayPrivate

\* The log keeps the latest records of each kind, and the screen stays on them
\* (LogBuffer::push, handle_logs_key).
LogsKeepTheLatest == Log!LogsKeepTheLatest

\* A generated token goes off the screen again (maybe_auto_hide_generated_token_banner).
TokenBannerHides == Ui!TokenBannerHides
==============================================================================
