------------------------------ MODULE SocksProxy ------------------------------
(***************************************************************************)
(* The local SOCKS5 proxy of a paired run: the dashboard's keys, the       *)
(* command broadcast, one socks_supervisor per connection and the detached *)
(* proxy tasks it spawns (tui/mod.rs, app_state.rs and handle_connection,  *)
(* socks_supervisor and run_socks_proxy of iroh_mode/peer.rs).             *)
(*                                                                         *)
(* A proxy task is not owned by its supervisor: it holds the connection    *)
(* itself, and it tells the supervisor only that some task has ended.      *)
(* Supervisors of two connections share the configured port and the status *)
(* in AppState.  What flows through a proxy is not modelled here.          *)
(***************************************************************************)
EXTENDS Naturals, Sequences, FiniteSets

CONSTANTS
    Conns,       \* slots for connections
    Proxies,     \* slots for proxy tasks
    None,        \* no proxy, no connection
    CommandCap,  \* capacity of the command broadcast, per receiver
    MaxKeys      \* bound: keys the user presses

ASSUME NoneAssumption == None \notin Proxies \cup Conns
ASSUME CapAssumption == CommandCap \in Nat \ {0}
ASSUME KeysAssumption == MaxKeys \in Nat

VARIABLES
    keys,       \* keys pressed so far
    port,       \* AppState.socks_port: is one configured?
    socks,      \* AppState.socks_status
    bound,      \* AppState.socks_bound, as the proxy that set it
    holder,     \* the proxy whose listeners hold the local port
    conn,       \* each connection
    sup,        \* its handle_connection, and with it its socks_supervisor
    cmdQ,       \* SocksCommands the supervisor has not received
    running,    \* the supervisor's `running`, as the proxy whose token it is
    dones,      \* done signals it has not received
    proxy,      \* the proxy tasks
    cancelled   \* proxies whose token is cancelled

shownVars == <<socks, bound>>
supVars == <<cmdQ, running, dones>>
proxyVars == <<holder, proxy, cancelled>>
vars == <<keys, port, shownVars, conn, sup, supVars, proxyVars>>

------------------------------------------------------------------------------
(* Data. *)

NoTask == [pc |-> "free", conn |-> None]
Active == {"binding", "listening"}
Tasks(c) == {p \in Proxies : proxy[p].conn = c}

\* A full queue grows.
PushBug(q, cmd) == Append(q, cmd)

\* A full broadcast forgets the receiver's oldest command, which is only logged.
Push(q, cmd) == Append(IF Len(q) = CommandCap THEN Tail(q) ELSE q, cmd)

\* Every subscribed supervisor gets the command.
Broadcast(cmd) ==
    cmdQ' = [c \in Conns |-> IF sup[c] = "up" THEN Push(cmdQ[c], cmd) ELSE cmdQ[c]]

\* reset_socks_status
ResetStatus == socks' = "idle" /\ bound' = None

------------------------------------------------------------------------------
(* The dashboard. *)

Press == keys < MaxKeys /\ keys' = keys + 1

\* `e`: set or replace the port, only while the proxy is shown as not running.
KeySetPort ==
    /\ Press
    /\ socks # "listening"
    /\ port' = TRUE
    /\ ResetStatus
    /\ UNCHANGED <<conn, sup, supVars, proxyVars>>

\* `s`: needs a live pairing and a port.
KeyStart ==
    /\ Press
    /\ port
    /\ \E c \in Conns : sup[c] = "up"
    /\ Broadcast("Start")
    /\ UNCHANGED <<port, shownVars, conn, sup, running, dones, proxyVars>>

\* `x`
KeyStop ==
    /\ Press
    /\ port
    /\ Broadcast("Stop")
    /\ UNCHANGED <<port, shownVars, conn, sup, running, dones, proxyVars>>

\* `d`: stop the proxy and forget the port.
KeyClearPort ==
    /\ Press
    /\ Broadcast("Stop")
    /\ port' = FALSE
    /\ ResetStatus
    /\ UNCHANGED <<conn, sup, running, dones, proxyVars>>

UserKey == KeySetPort \/ KeyStart \/ KeyStop \/ KeyClearPort

------------------------------------------------------------------------------
(* Connections: handle_connection after the authentication. *)

\* A connection is authenticated: reset the status, subscribe, supervise.
ConnUp(c) ==
    /\ conn[c] = "none"
    /\ conn' = [conn EXCEPT ![c] = "open"]
    /\ sup' = [sup EXCEPT ![c] = "up"]
    /\ cmdQ' = [cmdQ EXCEPT ![c] = <<>>]
    /\ running' = [running EXCEPT ![c] = None]
    /\ dones' = [dones EXCEPT ![c] = 0]
    /\ ResetStatus
    /\ UNCHANGED <<keys, port, proxyVars>>

\* The peer, the network, or a shutdown closes the connection.
ConnCloses(c) ==
    /\ conn[c] = "open"
    /\ conn' = [conn EXCEPT ![c] = "closed"]
    /\ UNCHANGED <<keys, port, shownVars, sup, supVars, proxyVars>>

\* conn.closed() ends handle_connection, which aborts its supervisor.
HandlerEnds(c) ==
    /\ sup[c] = "up" /\ conn[c] = "closed"
    /\ sup' = [sup EXCEPT ![c] = "gone"]
    /\ UNCHANGED <<keys, port, shownVars, conn, supVars, proxyVars>>

\* Disconnect, or a new target: the session drops handle_connection where it
\* stands, which aborts the supervisor and closes nothing itself.
SessionCancelled(c) ==
    /\ sup[c] = "up"
    /\ sup' = [sup EXCEPT ![c] = "gone"]
    /\ UNCHANGED <<keys, port, shownVars, conn, supVars, proxyVars>>

\* The last handle of a connection is dropped, which closes it.
ConnDropped(c) ==
    /\ sup[c] = "gone" /\ conn[c] = "open"
    /\ Tasks(c) = {}
    /\ conn' = [conn EXCEPT ![c] = "closed"]
    /\ UNCHANGED <<keys, port, shownVars, sup, supVars, proxyVars>>

\* Nothing refers to the connection any more: its slot may serve another one.
ConnForgotten(c) ==
    /\ sup[c] = "gone" /\ conn[c] = "closed"
    /\ Tasks(c) = {}
    /\ conn' = [conn EXCEPT ![c] = "none"]
    /\ sup' = [sup EXCEPT ![c] = "none"]
    /\ UNCHANGED <<keys, port, shownVars, supVars, proxyVars>>

------------------------------------------------------------------------------
(* socks_supervisor. *)

Received(c, cmd) == sup[c] = "up" /\ cmdQ[c] # <<>> /\ Head(cmdQ[c]) = cmd

\* Start is skipped while a token is held, and without a port.
SupStart(c) ==
    /\ Received(c, "Start")
    /\ cmdQ' = [cmdQ EXCEPT ![c] = Tail(@)]
    /\ IF running[c] = None /\ port
       THEN \E p \in Proxies :
              /\ proxy[p].pc = "free" /\ holder # p
              /\ \A b \in Conns : running[b] # p
              /\ proxy' = [proxy EXCEPT ![p] = [pc |-> "binding", conn |-> c]]
              /\ cancelled' = cancelled \ {p}
              /\ running' = [running EXCEPT ![c] = p]
       ELSE UNCHANGED <<proxy, cancelled, running>>
    /\ UNCHANGED <<keys, port, shownVars, conn, sup, dones, holder>>

\* The token is cancelled but not taken.
SupStopBug(c) ==
    /\ Received(c, "Stop")
    /\ cmdQ' = [cmdQ EXCEPT ![c] = Tail(@)]
    /\ cancelled' = cancelled \cup ({running[c]} \ {None})
    /\ UNCHANGED <<keys, port, shownVars, conn, sup, running, dones, holder, proxy>>

\* Stop takes the token and cancels it.
SupStop(c) ==
    /\ Received(c, "Stop")
    /\ cmdQ' = [cmdQ EXCEPT ![c] = Tail(@)]
    /\ cancelled' = cancelled \cup ({running[c]} \ {None})
    /\ running' = [running EXCEPT ![c] = None]
    /\ UNCHANGED <<keys, port, shownVars, conn, sup, dones, holder, proxy>>

\* Some proxy task of this supervisor has ended: forget the token.
SupDone(c) ==
    /\ sup[c] = "up" /\ dones[c] > 0
    /\ dones' = [dones EXCEPT ![c] = @ - 1]
    /\ running' = [running EXCEPT ![c] = None]
    /\ UNCHANGED <<keys, port, shownVars, conn, sup, cmdQ, proxyVars>>

------------------------------------------------------------------------------
(* A proxy task. *)

\* The port is bound and shown; or the bind fails, as it does while it is held.
ProxyBind(p) ==
    /\ proxy[p].pc = "binding"
    /\ \/ /\ holder = None
          /\ holder' = p
          /\ proxy' = [proxy EXCEPT ![p].pc = "listening"]
          /\ socks' = "listening" /\ bound' = p
       \/ /\ proxy' = [proxy EXCEPT ![p].pc = "failed"]
          /\ UNCHANGED <<holder, shownVars>>
    /\ UNCHANGED <<keys, port, conn, sup, supVars, cancelled>>

\* The proxy watches its token only.
ProxyStopBug(p) ==
    /\ proxy[p].pc \in Active
    /\ p \in cancelled
    /\ proxy' = [proxy EXCEPT ![p].pc = "stopped"]
    /\ UNCHANGED <<keys, port, shownVars, conn, sup, supVars, holder, cancelled>>

\* The proxy watches its connection only.
ProxyStopDeaf(p) ==
    /\ proxy[p].pc \in Active
    /\ conn[proxy[p].conn] = "closed"
    /\ proxy' = [proxy EXCEPT ![p].pc = "stopped"]
    /\ UNCHANGED <<keys, port, shownVars, conn, sup, supVars, holder, cancelled>>

\* The token is cancelled or the connection closed: run_socks_proxy is dropped.
ProxyStop(p) ==
    /\ proxy[p].pc \in Active
    /\ p \in cancelled \/ conn[proxy[p].conn] = "closed"
    /\ proxy' = [proxy EXCEPT ![p].pc = "stopped"]
    /\ UNCHANGED <<keys, port, shownVars, conn, sup, supVars, holder, cancelled>>

\* A proxy that failed does not signal.
ProxyFinishBug(p) ==
    /\ proxy[p].pc \in {"stopped", "failed"}
    /\ socks' = IF proxy[p].pc = "failed" THEN "error" ELSE "idle"
    /\ bound' = None
    /\ dones' = IF proxy[p].pc = "failed" THEN dones
                                          ELSE [dones EXCEPT ![proxy[p].conn] = @ + 1]
    /\ proxy' = [proxy EXCEPT ![p] = NoTask]
    /\ UNCHANGED <<keys, port, conn, sup, cmdQ, running, holder, cancelled>>

\* A proxy that was stopped leaves the status to the supervisor.
ProxyFinishSilent(p) ==
    /\ proxy[p].pc \in {"stopped", "failed"}
    /\ IF proxy[p].pc = "failed" THEN socks' = "error" /\ bound' = None
                                 ELSE UNCHANGED shownVars
    /\ dones' = [dones EXCEPT ![proxy[p].conn] = @ + 1]
    /\ proxy' = [proxy EXCEPT ![p] = NoTask]
    /\ UNCHANGED <<keys, port, conn, sup, cmdQ, running, holder, cancelled>>

\* The task shows its outcome, clears the bound address and signals.
ProxyFinish(p) ==
    /\ proxy[p].pc \in {"stopped", "failed"}
    /\ socks' = IF proxy[p].pc = "failed" THEN "error" ELSE "idle"
    /\ bound' = None
    /\ dones' = [dones EXCEPT ![proxy[p].conn] = @ + 1]
    /\ proxy' = [proxy EXCEPT ![p] = NoTask]
    /\ UNCHANGED <<keys, port, conn, sup, cmdQ, running, holder, cancelled>>

\* The accept tasks, aborted with the proxy, drop the listeners when polled.
PortFreed(p) ==
    /\ holder = p
    /\ proxy[p].pc # "listening"
    /\ holder' = None
    /\ UNCHANGED <<keys, port, shownVars, conn, sup, supVars, proxy, cancelled>>

------------------------------------------------------------------------------
Init ==
    /\ keys = 0
    /\ port \in BOOLEAN            \* seeded from the config, or not
    /\ socks = "idle" /\ bound = None /\ holder = None
    /\ conn = [c \in Conns |-> "none"]
    /\ sup = [c \in Conns |-> "none"]
    /\ cmdQ = [c \in Conns |-> <<>>]
    /\ running = [c \in Conns |-> None]
    /\ dones = [c \in Conns |-> 0]
    /\ proxy = [p \in Proxies |-> NoTask]
    /\ cancelled = {}

Connection(c) ==
    \/ ConnUp(c) \/ ConnCloses(c) \/ HandlerEnds(c)
    \/ SessionCancelled(c) \/ ConnDropped(c) \/ ConnForgotten(c)

Supervisor(c) == SupStart(c) \/ SupStop(c) \/ SupDone(c)

Proxy(p) == ProxyBind(p) \/ ProxyStop(p) \/ ProxyFinish(p) \/ PortFreed(p)

Next ==
    \/ UserKey
    \/ \E c \in Conns : Connection(c) \/ Supervisor(c)
    \/ \E p \in Proxies : Proxy(p)

Spec == Init /\ [][Next]_vars

\* Tasks that can run are polled, and select! gives a pending signal its turn;
\* nothing is assumed of the user, the peer and the network.
Fairness ==
    /\ \A c \in Conns :
         /\ WF_vars(HandlerEnds(c)) /\ WF_vars(ConnDropped(c))
         /\ WF_vars(SupStart(c) \/ SupStop(c)) /\ WF_vars(SupDone(c))
    /\ \A p \in Proxies :
         /\ WF_vars(ProxyBind(p)) /\ WF_vars(ProxyStop(p))
         /\ WF_vars(ProxyFinish(p)) /\ WF_vars(PortFreed(p))

FairSpec == Spec /\ Fairness

------------------------------------------------------------------------------
(* Properties. *)

\* Every variable has its type.
TypeOK ==
    /\ keys \in 0..MaxKeys
    /\ port \in BOOLEAN
    /\ socks \in {"idle", "listening", "error"}
    /\ bound \in Proxies \cup {None} /\ holder \in Proxies \cup {None}
    /\ conn \in [Conns -> {"none", "open", "closed"}]
    /\ sup \in [Conns -> {"none", "up", "gone"}]
    /\ cmdQ \in [Conns -> Seq({"Start", "Stop"})]
    /\ \A c \in Conns : Len(cmdQ[c]) <= CommandCap
    /\ running \in [Conns -> Proxies \cup {None}]
    /\ dones \in [Conns -> Nat]
    /\ proxy \in [Proxies -> [pc : {"free", "stopped", "failed"} \cup Active, conn : Conns \cup {None}]]
    /\ cancelled \subseteq Proxies

\* An address shown as bound is that of a proxy that listens, or that was stopped
\* and is about to clear it: no ended proxy stays on the dashboard, also when the
\* proxies of two connections write the one status.
BoundIsReal == bound # None => proxy[bound].pc \in {"listening", "stopped"}

\* The token a supervisor holds is the live token of a task of its own, or of
\* one whose done signal is on its way: a Stop never goes to an old proxy.
TokenIsLive ==
    \A c \in Conns : (sup[c] = "up" /\ running[c] # None) =>
        /\ running[c] \notin cancelled
        /\ \/ running[c] \in Tasks(c)
           \/ dones[c] > 0

\* A proxy never outlives its connection: once that is closed, whoever closed
\* it, the task ends and the port is free.
ProxyEndsWithItsConnection ==
    \A p \in Proxies :
        (proxy[p].pc \in Active /\ conn[proxy[p].conn] = "closed")
            ~> (proxy[p].pc = "free" /\ holder # p)

\* A cancelled proxy frees the port, whether or not it had bound it yet.
StopFreesThePort == \A p \in Proxies : p \in cancelled ~> holder # p

\* A proxy that ended on its own (the port was taken) does not block the next
\* Start: its supervisor forgets the token.
FailedProxyCanRestart ==
    \A c \in Conns, p \in Proxies :
        (sup[c] = "up" /\ running[c] = p /\ proxy[p].pc = "free")
            ~> (sup[c] # "up" \/ running[c] # p)

\* socks_supervisor is documented as "tracking a cancellation token while it
\* runs so a `Stop` (or the connection closing) frees the bound local port".
RunningIsTracked ==
    \A p \in Proxies :
        (proxy[p].pc = "listening" /\ p \notin cancelled /\ sup[proxy[p].conn] = "up")
            => running[proxy[p].conn] = p

\* Shift-D is documented so: "For a dial session it drops the outbound
\* connection" (tui/mod.rs).
DisconnectDropsTheConnection ==
    \A c \in Conns : (sup[c] = "gone" /\ conn[c] = "open") ~> conn[c] = "closed"
==============================================================================
