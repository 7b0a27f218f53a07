---------------------------- MODULE ListenerClaim ----------------------------
(***************************************************************************)
(* The serve half of a peer: one listen session after another, each with   *)
(* its PairClaim, its recent-PIN cache, its PIN publisher task and one     *)
(* handle_connection task per inbound QUIC connection                      *)
(* (iroh_mode/peer.rs, pin_auth.rs, and the header state of app_state.rs). *)
(*                                                                         *)
(* Every task runs on a multi-threaded runtime, so the steps of different  *)
(* connections, of the publisher and of the teardown interleave freely.    *)
(* An action is the code between two awaits, or between two accesses to    *)
(* state that another task shares.                                         *)
(*                                                                         *)
(* A PIN is its rotation number: 1 is the first one the session generates. *)
(* Deriving a key, sealing a proof and opening it are modelled by what     *)
(* they decide: a proof opens under exactly the PIN it was sealed with.    *)
(***************************************************************************)
EXTENDS Naturals, Sequences, FiniteSets

CONSTANTS
    Dialers,         \* node ids that may connect (authenticated by QUIC)
    NoPeer,          \* no node id
    Conns,           \* slots for concurrent inbound connections
    RecentPinCache,  \* RECENT_PIN_CACHE
    MaxPins          \* bound: PINs one session may generate

ASSUME DialersAssumption == NoPeer \notin Dialers
ASSUME CacheAssumption == RecentPinCache \in Nat \ {0}
ASSUME PinsAssumption == MaxPins \in Nat \ {0}
ASSUME ConnsAssumption == IsFiniteSet(Conns)

VARIABLES
    mode,     \* "token" or "pin": what this run authenticates with
    phase,    \* where run_listen and its supervisor are
    claim,    \* PairClaim: the holder and the PIN key it paired with
    recent,   \* RecentPins, newest first
    newest,   \* how many PINs this session has generated
    pub,      \* where the PIN publisher task is
    shown,    \* AppState.current_pin
    inbound,  \* AppState.inbound: the paired peer and its live connections
    conn,     \* one record per connection slot
    admitted  \* history: node ids sent an acceptance in this session

claimVars == <<claim, admitted>>
pinVars == <<recent, newest, pub, shown>>
vars == <<mode, phase, claim, recent, newest, pub, shown, inbound, conn, admitted>>

------------------------------------------------------------------------------
(* Data. *)

NoKey == 0      \* no PIN key; as a credential, a PIN that was never generated
NoClaim == [peer |-> NoPeer, key |-> NoKey]
NoInbound == [peer |-> NoPeer, conns |-> 0]

\* A dialer presents the shared token (key 1), another token (key 0), or a PIN.
Credentials(n) == [kind : {"token"}, key : {0, 1}] \cup [kind : {"pin"}, key : 0..n]

Handshaking == {"request", "proof", "accept"}

FreeConn == [pc |-> "free", live |-> FALSE, peer |-> NoPeer,
             cred |-> [kind |-> "token", key |-> 0],
             gate |-> "free", rkey |-> NoKey, cands |-> {}, verdict |-> "none"]

\* A connection whose task has just been spawned.
NewConn(d, cred) ==
    [pc |-> "gate", live |-> TRUE, peer |-> d, cred |-> cred,
     gate |-> "free", rkey |-> NoKey, cands |-> {}, verdict |-> "none"]

\* A connection that won the claim: only the acceptance is left to write.
AcceptingConn(r) ==
    [pc |-> "accept", live |-> r.live, peer |-> r.peer, cred |-> r.cred,
     gate |-> "free", rkey |-> NoKey, cands |-> {}, verdict |-> "none"]

\* What is left of a connection whose task has ended: the task's locals are gone.
EndedConn(live, verdict) ==
    [FreeConn EXCEPT !.pc = "over", !.live = live, !.verdict = verdict]

ConnRecord ==
    [pc : {"free", "gate", "served", "over"} \cup Handshaking,
     live : BOOLEAN,                       \* neither end has closed it
     peer : Dialers \cup {NoPeer},         \* conn.remote_id()
     cred : Credentials(MaxPins),          \* what the dialer will present
     gate : {"free", "mine", "other"},     \* the claim as the gate read it
     rkey : 0..MaxPins,                    \* reconnect_key
     cands : SUBSET (1..MaxPins),          \* candidate PINs for the proof
     verdict : {"none", "accepted", "rejected"}]   \* frame sent to the dialer

Paired == claim.peer # NoPeer

------------------------------------------------------------------------------
(* PairClaim and RecentPins. *)

\* commit trusts the gate and does not look at the claim again.
CommitOkBug(d) == TRUE

\* PairClaim::commit answers TRUE for the first peer and for the holder ...
CommitOk(d) == claim.peer \in {NoPeer, d}

\* ... and records only the first: a later commit of the holder keeps its key.
CommitClaim(d, k) == claim' = IF Paired THEN claim ELSE [peer |-> d, key |-> k]

\* The cache is never trimmed.
PushRecentBug(keys, k) == <<k>> \o keys

\* RecentPins::push
PushRecent(keys, k) ==
    <<k>> \o SubSeq(keys, 1, IF Len(keys) < RecentPinCache THEN Len(keys)
                                                            ELSE RecentPinCache - 1)

\* RecentPins::snapshot, as the set the proof is tried against
Snapshot(keys) == {keys[i] : i \in 1..Len(keys)}

\* Any token passes.
TokenValidBug(cred) == mode = "token"

\* The accepted token set is the configured token, empty in quick PIN mode.
TokenValid(cred) == mode = "token" /\ cred.key = 1

------------------------------------------------------------------------------
(* AppState.inbound: the paired peer of the header, with its connections. *)

\* A flag instead of a count: an overlapping reconnect is not counted.
MarkPeerConnectedBug(d) == inbound' = [peer |-> d, conns |-> 1]

MarkPeerConnected(d) ==
    inbound' = IF inbound.peer = d
               THEN [inbound EXCEPT !.conns = @ + 1]
               ELSE [peer |-> d, conns |-> 1]

MarkPeerDisconnected(d) ==
    inbound' = IF inbound.peer = d /\ inbound.conns > 0
               THEN [inbound EXCEPT !.conns = @ - 1]
               ELSE inbound

------------------------------------------------------------------------------
(* The session: Start and Stop of the listen supervisor, run_listen. *)

\* ListenCommand::Start: a fresh endpoint, an empty claim, an empty cache, and
\* in quick PIN mode a publisher task.  (The last poll of an aborted publisher is
\* over by then: the key that starts the next session comes long after it.)
Start ==
    /\ phase = "stopped"
    /\ phase' = "up"
    /\ newest' = 0
    /\ pub' = IF mode = "pin" THEN "top" ELSE "off"
    /\ conn' = [c \in Conns |-> FreeConn]
    /\ UNCHANGED <<mode, claim, recent, shown, inbound, admitted>>

\* ListenCommand::Stop: only the token is cancelled; the accept loop may still
\* take a ready connection before it looks at the token.
Stop ==
    /\ phase = "up"
    /\ phase' = "stopping"
    /\ UNCHANGED <<mode, pinVars, claimVars, inbound, conn>>

\* endpoint.accept() returns None: the endpoint is gone, and so are its connections.
EndpointEnds ==
    /\ phase = "up"
    /\ phase' = "ended"
    /\ conn' = [c \in Conns |-> [conn[c] EXCEPT !.live = FALSE]]
    /\ UNCHANGED <<mode, pinVars, claimVars, inbound>>

\* The accept loop ends and connection_tasks.shutdown() aborts every task.
AbortConnections ==
    /\ phase \in {"stopping", "ended"}
    /\ phase' = "closing"
    /\ conn' = [c \in Conns |->
                  IF conn[c].pc = "free" THEN conn[c]
                  ELSE EndedConn(conn[c].live, conn[c].verdict)]
    /\ UNCHANGED <<mode, pinVars, claimVars, inbound>>

\* run_listen returns without aborting the publisher.
CloseEndpointBug ==
    /\ phase = "closing"
    /\ phase' = "closed"
    /\ conn' = [c \in Conns |-> [conn[c] EXCEPT !.live = FALSE]]
    /\ claim' = NoClaim
    /\ admitted' = {}
    /\ recent' = <<>>
    /\ UNCHANGED <<mode, newest, pub, shown, inbound>>

\* endpoint.close() closes the connections; run_listen returns, which drops the
\* claim and the cache and aborts the publisher.  Nobody joins that one: a poll
\* of it that another thread is in the middle of goes on to its next await.
CloseEndpoint ==
    /\ phase = "closing"
    /\ phase' = "closed"
    /\ conn' = [c \in Conns |-> [conn[c] EXCEPT !.live = FALSE]]
    /\ claim' = NoClaim
    /\ admitted' = {}
    /\ recent' = <<>>
    /\ pub' = IF pub = "mint" THEN "late" ELSE "off"
    /\ UNCHANGED <<mode, newest, shown, inbound>>

\* The supervisor has joined run_listen and clears what the header shows.
ClearListen ==
    /\ phase = "closed"
    /\ phase' = "stopped"
    /\ shown' = NoKey
    /\ inbound' = NoInbound
    /\ UNCHANGED <<mode, claimVars, recent, newest, pub, conn>>

------------------------------------------------------------------------------
(* The PIN publisher task (run_pin_publisher). *)

\* Top of the loop: stop if a peer has paired ...
PinTop ==
    /\ pub = "top"
    /\ IF Paired
       THEN pub' = "off" /\ shown' = NoKey
       ELSE pub' = "mint" /\ UNCHANGED shown
    /\ UNCHANGED <<mode, phase, claimVars, recent, newest, inbound, conn>>

\* ... else generate a PIN and show it, which the end of the session does not stop.
PinMinted ==
    /\ pub \in {"mint", "late"}
    /\ pub' = IF pub = "mint" THEN "derive" ELSE "overrun"
    /\ newest' = newest + 1
    /\ shown' = newest + 1
    /\ UNCHANGED <<mode, phase, claimVars, recent, inbound, conn>>

\* The key derivation is deliberately slow; only then does the PIN verify.
PinDerived ==
    /\ pub = "derive"
    /\ pub' = "publish"
    /\ \/ recent' = PushRecent(recent, newest)
       \/ UNCHANGED recent               \* derivation failed: only logged
    /\ UNCHANGED <<mode, phase, claimVars, newest, shown, inbound, conn>>

\* The relay took the record, or refused it: both are only logged.
PinPublished ==
    /\ pub = "publish"
    /\ pub' = "sleep"
    /\ UNCHANGED <<mode, phase, claimVars, recent, newest, shown, inbound, conn>>

\* Pairing ends the task but leaves the PIN in the header.
PinWakeBug ==
    /\ pub = "sleep"
    /\ \/ (phase \in {"stopping", "closing"} \/ Paired) /\ pub' = "off"
       \/ newest < MaxPins /\ pub' = "top"
    /\ UNCHANGED <<mode, phase, claimVars, recent, newest, shown, inbound, conn>>

\* The select at the end of the loop: shutdown, pairing, or the next bucket.
PinWake ==
    /\ pub = "sleep"
    /\ \/ phase \in {"stopping", "closing"} /\ pub' = "off" /\ UNCHANGED shown
       \/ Paired /\ pub' = "off" /\ shown' = NoKey
       \/ newest < MaxPins /\ pub' = "top" /\ UNCHANGED shown
    /\ UNCHANGED <<mode, phase, claimVars, recent, newest, inbound, conn>>

PinPublisher == PinTop \/ PinMinted \/ PinDerived \/ PinPublished \/ PinWake

------------------------------------------------------------------------------
(* One inbound connection: handle_connection and auth_as_listener. *)

\* The accept loop spawns a task for a connection from d, which will present k.
Arrive(c, d, k) ==
    /\ phase \in {"up", "stopping"}
    /\ conn[c].pc \in {"free", "over"}
    /\ conn' = [conn EXCEPT ![c] = NewConn(d, k)]
    /\ UNCHANGED <<mode, phase, pinVars, claimVars, inbound>>

\* The pre-auth gate reads the claim once, before the first await.
Gate(c) ==
    /\ conn[c].pc = "gate"
    /\ LET mine == claim.peer = conn[c].peer
       IN  conn' = [conn EXCEPT ![c] = [@ EXCEPT
             !.pc = "request",
             !.gate = IF mine THEN "mine" ELSE IF Paired THEN "other" ELSE "free",
             !.rkey = IF mine THEN claim.key ELSE NoKey]]
    /\ UNCHANGED <<mode, phase, pinVars, claimVars, inbound>>

\* The rejection is written and the connection closed right behind it.
Reject(c) ==
    /\ conn' = [conn EXCEPT ![c] = EndedConn(FALSE, "rejected")]
    /\ UNCHANGED claimVars

\* The acceptance is sent first and the claim committed afterwards.
CommitOrRejectBug(c, k) ==
    /\ conn' = [conn EXCEPT ![c] = AcceptingConn(@)]
    /\ UNCHANGED claimVars

\* The claim is committed before the dialer is told anything; a connection
\* that loses the race for it is rejected instead.
CommitOrReject(c, k) ==
    IF CommitOk(conn[c].peer)
    THEN /\ CommitClaim(conn[c].peer, k)
         /\ conn' = [conn EXCEPT ![c] = AcceptingConn(@)]
         /\ UNCHANGED admitted
    ELSE Reject(c)

\* AuthRequest::Token
ReadTokenRequest(c) ==
    /\ conn[c].pc = "request"
    /\ conn[c].live
    /\ conn[c].cred.kind = "token"
    /\ IF conn[c].gate = "other" \/ ~TokenValid(conn[c].cred)
       THEN Reject(c)
       ELSE CommitOrReject(c, NoKey)
    /\ UNCHANGED <<mode, phase, pinVars, inbound>>

\* The holder's pairing key is not kept: only the recent PINs count.
CandidatesBug(c) ==
    IF conn[c].gate = "other" \/ mode # "pin" THEN {} ELSE Snapshot(recent)

\* The keys a proof on c may verify under: the recent PINs unless the gate
\* refused the peer, and the holder's own pairing key.
Candidates(c) ==
    (IF conn[c].gate = "other" \/ mode # "pin" THEN {} ELSE Snapshot(recent))
        \cup (IF conn[c].rkey = NoKey THEN {} ELSE {conn[c].rkey})

\* AuthRequest::Pin: take the candidates, then challenge the dialer.
ReadPinRequest(c) ==
    /\ conn[c].pc = "request"
    /\ conn[c].live
    /\ conn[c].cred.kind = "pin"
    /\ conn' = [conn EXCEPT ![c] = [@ EXCEPT !.pc = "proof", !.cands = Candidates(c)]]
    /\ UNCHANGED <<mode, phase, pinVars, claimVars, inbound>>

\* PinResponse: the proof verifies under one of the candidates, or under none.
ReadProof(c) ==
    /\ conn[c].pc = "proof"
    /\ conn[c].live
    /\ IF conn[c].cred.key \in conn[c].cands
       THEN CommitOrReject(c, conn[c].cred.key)
       ELSE Reject(c)
    /\ UNCHANGED <<mode, phase, pinVars, inbound>>

\* The acceptance frame goes out and the header counts the connection.
WriteAccept(c) ==
    /\ conn[c].pc = "accept"
    /\ conn[c].live
    /\ conn' = [conn EXCEPT ![c] = [@ EXCEPT !.pc = "served", !.verdict = "accepted"]]
    /\ admitted' = admitted \cup {conn[c].peer}
    /\ MarkPeerConnected(conn[c].peer)
    /\ UNCHANGED <<mode, phase, pinVars, claim>>

\* No AUTH_TIMEOUT: only a broken connection ends a handshake.
AuthFailsBug(c) ==
    /\ conn[c].pc \in Handshaking
    /\ ~conn[c].live
    /\ conn' = [conn EXCEPT ![c] = EndedConn(FALSE, "none")]
    /\ UNCHANGED <<mode, phase, pinVars, claimVars, inbound>>

\* AUTH_TIMEOUT, a read or write error, or a frame that does not decode: the
\* connection is closed.  The claim, if this connection committed it, stays.
AuthFails(c) ==
    /\ conn[c].pc \in Handshaking
    /\ conn' = [conn EXCEPT ![c] = EndedConn(FALSE, "none")]
    /\ UNCHANGED <<mode, phase, pinVars, claimVars, inbound>>

\* The dialer closes the connection, or the network loses it.
PeerGone(c) ==
    /\ conn[c].live
    /\ conn' = [conn EXCEPT ![c] = [@ EXCEPT !.live = FALSE]]
    /\ UNCHANGED <<mode, phase, pinVars, claimVars, inbound>>

\* conn.closed() of a served connection.
ServedEnds(c) ==
    /\ conn[c].pc = "served"
    /\ ~conn[c].live
    /\ conn' = [conn EXCEPT ![c] = EndedConn(FALSE, "accepted")]
    /\ MarkPeerDisconnected(conn[c].peer)
    /\ UNCHANGED <<mode, phase, pinVars, claimVars>>

------------------------------------------------------------------------------
Init ==
    /\ mode \in {"token", "pin"}
    /\ phase = "stopped"
    /\ claim = NoClaim
    /\ recent = <<>>
    /\ newest = 0
    /\ pub = "off"
    /\ shown = NoKey
    /\ inbound = NoInbound
    /\ conn = [c \in Conns |-> FreeConn]
    /\ admitted = {}

Session == Start \/ Stop \/ EndpointEnds \/ AbortConnections \/ CloseEndpoint \/ ClearListen

Connection(c) ==
    \/ \E d \in Dialers, k \in Credentials(newest) : Arrive(c, d, k)
    \/ Gate(c)
    \/ ReadTokenRequest(c) \/ ReadPinRequest(c) \/ ReadProof(c)
    \/ WriteAccept(c) \/ AuthFails(c)
    \/ PeerGone(c) \/ ServedEnds(c)

Next == Session \/ PinPublisher \/ \E c \in Conns : Connection(c)

Spec == Init /\ [][Next]_vars

\* The runtime polls a task that can run: a teardown once begun goes on, the
\* publisher never stalls for ever, and a handshake is bounded by AUTH_TIMEOUT.
\* Nothing is assumed of the user, of the dialers or of the network.
Fairness ==
    /\ WF_vars(AbortConnections \/ CloseEndpoint \/ ClearListen)
    /\ WF_vars(PinPublisher)
    /\ \A c \in Conns : WF_vars(Gate(c)) /\ WF_vars(AuthFails(c))

FairSpec == Spec /\ Fairness
------------------------------------------------------------------------------
(* Properties. *)

\* Every variable has its type.
TypeOK ==
    /\ mode \in {"token", "pin"}
    /\ phase \in {"stopped", "up", "stopping", "ended", "closing", "closed"}
    /\ claim \in [peer : Dialers \cup {NoPeer}, key : 0..MaxPins]
    /\ recent \in Seq(1..MaxPins) /\ Len(recent) <= RecentPinCache
    /\ newest \in 0..MaxPins
    /\ pub \in {"off", "top", "mint", "derive", "publish", "sleep", "late", "overrun"}
    /\ shown \in 0..MaxPins
    /\ inbound \in [peer : Dialers \cup {NoPeer}, conns : Nat]
    /\ conn \in [Conns -> ConnRecord]
    /\ admitted \subseteq Dialers

\* One pair at a time: a connection that was accepted, or is about to be told
\* so, belongs to the peer that holds the claim, however the handshakes of two
\* first-time dialers interleaved after both read an empty claim at the gate.
OnlyThePairIsServed ==
    \A c \in Conns : conn[c].pc \in {"accept", "served"} => conn[c].peer = claim.peer

\* Nobody is paired or served on a wrong token, a PIN this session never
\* generated, or a credential of the other mode: the holder's reconnect passes
\* the gate, but it still has to prove what it holds.
Genuine(cred) ==
    \/ cred.kind = "token" /\ mode = "token" /\ cred.key = 1
    \/ cred.kind = "pin" /\ mode = "pin" /\ cred.key \in 1..newest

OnlyGenuineCredentials ==
    \A c \in Conns : conn[c].pc \in {"accept", "served"} => Genuine(conn[c].cred)

\* The header's inbound peer is the claim's holder, and its connection count is
\* the number of connections being served: a reconnect that overlaps the old
\* connection never makes the paired peer look gone, nor a gone one connected.
HeaderIsAccurate ==
    phase \in {"up", "stopping", "ended"} =>
        /\ inbound.conns = Cardinality({c \in Conns : conn[c].pc = "served"})
        /\ inbound.peer \in {NoPeer, claim.peer}

\* When the supervisor reports Stopped nothing of the session is left: no task
\* of a connection runs, no connection is open and no peer is reserved.  The
\* publisher is gone and no PIN is shown, unless the abort met it between its
\* look at the claim and the PIN it then still showed.
StoppedIsClean ==
    phase = "stopped" =>
        /\ \A c \in Conns : conn[c].pc \in {"free", "over"} /\ ~conn[c].live
        /\ inbound = NoInbound /\ claim = NoClaim
        /\ pub \in {"off", "late", "overrun"}
        /\ shown # NoKey => pub = "overrun"

\* The peer that paired can come back: a connection of the holder that presents
\* what it paired with is never sent a rejection, also when that PIN left the
\* recent-PIN cache while the first handshake was still running.
PairingCredential ==
    IF claim.key = NoKey THEN [kind |-> "token", key |-> 1]
                         ELSE [kind |-> "pin", key |-> claim.key]

ThePairMayReturn ==
    [][\A c \in Conns :
          (/\ conn[c].pc \in {"request", "proof"}
           /\ conn[c].gate = "mine"
           /\ conn[c].cred = PairingCredential)
          => conn'[c].verdict # "rejected"]_vars

\* The session keeps the abstract promise of OnePair: the holder never changes
\* and only the holder is ever sent an acceptance.
Promise == INSTANCE OnePair WITH holder <- claim.peer

ImplementsOnePair == Promise!Spec

\* Once a peer has paired, the PIN leaves the header, wherever the publisher
\* was in its cycle when the claim was committed.
PinLeavesTheHeader == Paired ~> shown = NoKey

\* A handshake ends: a dialer that connects and then stalls, at any frame, is
\* served or let go.
HandshakesEnd ==
    \A c \in Conns : conn[c].pc \in {"gate"} \cup Handshaking
                         ~> conn[c].pc \in {"served", "over"}
==============================================================================
