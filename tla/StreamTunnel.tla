---------------------------- MODULE StreamTunnel ----------------------------
(***************************************************************************)
(* SOCKS clients tunnelled over one connection: the opener's side accepts  *)
(* a local client and opens a stream (socks_accept_loop,                   *)
(* handle_socks_client), the acceptor's side connects out (accept_loop,    *)
(* handle_incoming_stream, socks_connect_side), then both bridge the       *)
(* stream with their TCP socket (bridge_streams).                          *)
(*                                                                         *)
(* Either device may be the opener of a stream; its semaphore is shared by *)
(* the streams it opens and those it accepts.                              *)
(*                                                                         *)
(* Data are counted in units.  A direction, "up" from the client and       *)
(* "down" to it, is read from TCP into the stream by one side and written  *)
(* from the stream to TCP by the other.                                    *)
(***************************************************************************)
EXTENDS Naturals, FiniteSets, SequencesExt

CONSTANTS
    Streams,     \* slots for clients with their streams
    Reversed,    \* the streams that the second device opens
    MaxStreams,  \* max_streams: permits of the semaphore of each device
    MaxUnits,    \* bound: units of data per direction
    MaxAddresses \* bound: addresses a target resolves to

SlotsAssumption == IsFiniteSet(Streams)
ReversedAssumption == Reversed \subseteq Streams
PermitsAssumption == MaxStreams \in Nat \ {0}
UnitsAssumption == MaxUnits \in Nat /\ MaxAddresses \in Nat

Sides == {"opener", "acceptor"}
Devices == {"first", "second"}
Directions == {"up", "down"}

VARIABLES
    link,      \* the connection is open
    permits,   \* free permits of each device
    task,      \* per side and stream, where its task is
    request,   \* per stream, what the client asks for
    ack,       \* per stream, the StreamAck on its way
    replies,   \* per stream, SOCKS replies written to the client
    attempts,  \* per stream, how the acceptor's TCP connects ended, in that order
    flow,      \* per stream and direction, the data
    copied,    \* per stream, the copy loops that have ended
    fault      \* per stream, something other than an end of data ended a copy

setupVars == <<request, ack, replies, attempts>>
flowVars == <<flow, copied, fault>>
vars == <<link, permits, task, setupVars, flowVars>>

------------------------------------------------------------------------------
(* Data. *)

\* What read_connect_request and negotiate_method tell apart.
Requests == {"connect", "noMethod", "badCommand", "badAddress"}

\* REP codes of RFC 1928 that the code uses.
Failures == {"general", "netUnreachable", "hostUnreachable", "refused", "command", "address"}

\* The local replies to a request that cannot be served: its own, if the parser
\* has one, and the general failure of handle_socks_client.
LocalReplies(r) ==
    CASE r = "badCommand" -> <<"command", "general">>
      [] r = "badAddress" -> <<"address", "general">>
      [] OTHER -> <<"general">>

\* rep_for_io_error
Rep(error) ==
    IF error \in {"refused", "netUnreachable", "hostUnreachable"} THEN error ELSE "general"

\* try_connect_tcp returns its first success, or else its last error.
ConnectErrors == {"refused", "netUnreachable", "timedOut"}
Attempts == UNION {[1 .. n -> ConnectErrors \cup {"connected"}] : n \in 1 .. MaxAddresses}
Tried(a) == \A i \in DOMAIN a : a[i] = "connected" => i = Len(a)
Connected(a) == a # <<>> /\ Last(a) = "connected"

\* A name that does not resolve: rep_for_io_error of the resolver's error, and
\* "host unreachable" for an empty answer.
ResolveFailures == {"general", "hostUnreachable"}

\* StreamAck: rejected() allows no failure that says success.
NoAck == [accepted |-> FALSE, rep |-> "none"]
Accepted == [accepted |-> TRUE, rep |-> "success"]
Rejected(rep) == [accepted |-> FALSE, rep |-> IF rep \in Failures THEN rep ELSE "general"]

\* decode_stream_ack
Decodes(a) == IF a.accepted THEN a.rep = "success" ELSE a.rep \in Failures

NoFlow == [sent |-> 0, shut |-> FALSE, mid |-> 0, fin |-> FALSE, got |-> 0, eof |-> FALSE]

\* The side that reads a direction from TCP, and the one that writes it to TCP.
Reader(dir) == IF dir = "up" THEN "opener" ELSE "acceptor"
Writer(dir) == IF dir = "up" THEN "acceptor" ELSE "opener"

\* The device that a side of a stream is on.
At(side, s) == IF (side = "opener") = (s \in Reversed) THEN "second" ELSE "first"

\* The two loops of one side's bridge.
LoopsOf(side) == {<<dir, "in">> : dir \in {d \in Directions : Reader(d) = side}}
                     \cup {<<dir, "out">> : dir \in {d \in Directions : Writer(d) = side}}

Go(side, s, pc) == task' = [task EXCEPT ![side][s] = pc]

\* The task's permit goes back with the task, however it ended.
End(side, s) ==
    /\ Go(side, s, "over")
    /\ permits' = [permits EXCEPT ![At(side, s)] = @ + 1]

------------------------------------------------------------------------------
(* The opener's side. *)

\* A local client is accepted.  Without a free permit its socket is dropped.
ClientArrives(s, r) ==
    /\ link /\ task["opener"][s] = "free"
    /\ permits[At("opener", s)] > 0
    /\ permits' = [permits EXCEPT ![At("opener", s)] = @ - 1]
    /\ Go("opener", s, "negotiate")
    /\ request' = [request EXCEPT ![s] = r]
    /\ UNCHANGED <<link, ack, replies, attempts, flowVars>>

\* negotiate_method and read_connect_request; a request that is refused is
\* answered here and opens no stream.
Negotiate(s) ==
    /\ task["opener"][s] = "negotiate"
    /\ IF request[s] = "connect"
       THEN Go("opener", s, "open") /\ UNCHANGED <<permits, replies>>
       ELSE End("opener", s) /\ replies' = [replies EXCEPT ![s] = LocalReplies(request[s])]
    /\ UNCHANGED <<link, request, ack, attempts, flowVars>>

\* The stream is opened and its hello written.
OpenStream(s) ==
    /\ link /\ task["opener"][s] = "open"
    /\ task' = [task EXCEPT !["opener"][s] = "ack", !["acceptor"][s] = "hello"]
    /\ UNCHANGED <<link, permits, setupVars, flowVars>>

\* The setup waits for its peer and its client as long as they take.
SetupFailsBug(s) ==
    /\ task["opener"][s] = "ack" /\ ack[s] = NoAck
    /\ task["acceptor"][s] \in {"free", "over"}
    /\ End("opener", s)
    /\ replies' = [replies EXCEPT ![s] = <<"general">>]
    /\ UNCHANGED <<link, request, ack, attempts, flowVars>>

\* SOCKS_SETUP_TIMEOUT, ACK_TIMEOUT, or an error on the way: the client is told,
\* the stream dropped.
SetupFails(s) ==
    /\ task["opener"][s] \in {"negotiate", "open", "ack"}
    /\ End("opener", s)
    /\ replies' = [replies EXCEPT ![s] = <<"general">>]
    /\ UNCHANGED <<link, request, ack, attempts, flowVars>>

\* The peer's code goes to the client verbatim; its verdict decides on the bridge.
ReadAck(s) ==
    /\ task["opener"][s] = "ack" /\ ack[s] # NoAck
    /\ Decodes(ack[s])
    /\ replies' = [replies EXCEPT ![s] = <<ack[s].rep>>]
    /\ IF ack[s].accepted
       THEN Go("opener", s, "bridge") /\ UNCHANGED permits
       ELSE End("opener", s)
    /\ UNCHANGED <<link, request, ack, attempts, flowVars>>

------------------------------------------------------------------------------
(* The acceptor's side. *)

\* A full semaphore refuses at once and does not wait.
ReadHello(s) ==
    /\ task["acceptor"][s] = "hello"
    /\ IF permits[At("acceptor", s)] > 0
       THEN /\ permits' = [permits EXCEPT ![At("acceptor", s)] = @ - 1]
            /\ Go("acceptor", s, "dial")
            /\ UNCHANGED ack
       ELSE /\ ack' = [ack EXCEPT ![s] = Rejected("general")]
            /\ Go("acceptor", s, "over")
            /\ UNCHANGED permits
    /\ UNCHANGED <<link, request, replies, attempts, flowVars>>

\* HELLO_TIMEOUT, or a hello that does not decode: no permit was taken yet.
HelloFails(s) ==
    /\ task["acceptor"][s] = "hello"
    /\ Go("acceptor", s, "over")
    /\ UNCHANGED <<link, permits, setupVars, flowVars>>

\* The acceptance is sent before the target is connected.
ConnectOutBug(s) ==
    /\ task["acceptor"][s] = "dial"
    /\ ack' = [ack EXCEPT ![s] = Accepted]
    /\ \E a \in Attempts :
         /\ Tried(a)
         /\ attempts' = [attempts EXCEPT ![s] = a]
         /\ IF Connected(a) THEN Go("acceptor", s, "bridge") /\ UNCHANGED permits
                            ELSE End("acceptor", s)
    /\ UNCHANGED <<link, request, replies, flowVars>>

\* The acknowledgement is written and the permit held on to for the bridge.  If
\* the opener has dropped the stream the write may fail, and the new TCP
\* connection is dropped again.
Acknowledge(s) ==
    \/ Go("acceptor", s, "bridge") /\ ack' = [ack EXCEPT ![s] = Accepted] /\ UNCHANGED permits
    \/ task["opener"][s] # "ack" /\ End("acceptor", s) /\ UNCHANGED ack

\* The opener learns why there is no connection.
Refuse(s, rep) == End("acceptor", s) /\ ack' = [ack EXCEPT ![s] = Rejected(rep)]

\* socks_connect_side: resolve, connect, acknowledge.
ConnectOut(s) ==
    /\ task["acceptor"][s] = "dial"
    /\ \/ \E rep \in ResolveFailures : Refuse(s, rep) /\ UNCHANGED attempts
       \/ \E a \in Attempts :
            /\ Tried(a)
            /\ attempts' = [attempts EXCEPT ![s] = a]
            /\ IF Connected(a) THEN Acknowledge(s) ELSE Refuse(s, Rep(Last(a)))
    /\ UNCHANGED <<link, request, replies, flowVars>>

------------------------------------------------------------------------------
(* The bridge. *)

Bridging(side, s) == task[side][s] = "bridge"
Running(s, dir, loop) == Bridging(IF loop = "in" THEN Reader(dir) ELSE Writer(dir), s)
                             /\ <<dir, loop>> \notin copied[s]
Move(s, dir, f) == flow' = [flow EXCEPT ![s][dir] = f]
LoopEnds(s, dir, loop) == copied' = [copied EXCEPT ![s] = @ \cup {<<dir, loop>>}]

\* The TCP application at the reading end writes, or shuts down its half.
SourceWrites(s, dir) ==
    /\ Bridging(Reader(dir), s)
    /\ ~flow[s][dir].shut /\ flow[s][dir].sent < MaxUnits
    /\ Move(s, dir, [flow[s][dir] EXCEPT !.sent = @ + 1])
    /\ UNCHANGED <<link, permits, task, setupVars, copied, fault>>

SourceShuts(s, dir) ==
    /\ Bridging(Reader(dir), s)
    /\ ~flow[s][dir].shut
    /\ Move(s, dir, [flow[s][dir] EXCEPT !.shut = TRUE])
    /\ UNCHANGED <<link, permits, task, setupVars, copied, fault>>

\* The copy returns at the end of its input without finishing the stream.
CopyInBug(s, dir) ==
    /\ Running(s, dir, "in")
    /\ LET f == flow[s][dir] IN
         \/ f.mid < f.sent /\ Move(s, dir, [f EXCEPT !.mid = @ + 1]) /\ UNCHANGED copied
         \/ f.mid = f.sent /\ f.shut /\ LoopEnds(s, dir, "in") /\ UNCHANGED flow
    /\ UNCHANGED <<link, permits, task, setupVars, fault>>

\* copy_tcp_to_quic: one write per read, and finish() at the end.
CopyIn(s, dir) ==
    /\ Running(s, dir, "in")
    /\ LET f == flow[s][dir] IN
         \/ /\ f.mid < f.sent
            /\ Move(s, dir, [f EXCEPT !.mid = @ + 1])
            /\ UNCHANGED copied
         \/ /\ f.mid = f.sent /\ f.shut
            /\ Move(s, dir, [f EXCEPT !.fin = TRUE])
            /\ LoopEnds(s, dir, "in")
    /\ UNCHANGED <<link, permits, task, setupVars, fault>>

\* After a partial write the same chunk is written again.
CopyOutBug(s, dir) ==
    /\ Running(s, dir, "out")
    /\ LET f == flow[s][dir] IN
         \/ /\ f.got < f.mid
            /\ \E n \in {1, 2} : Move(s, dir, [f EXCEPT !.got = @ + n])
            /\ UNCHANGED copied
         \/ /\ f.got = f.mid /\ f.fin
            /\ Move(s, dir, [f EXCEPT !.eof = TRUE])
            /\ LoopEnds(s, dir, "out")
    /\ UNCHANGED <<link, permits, task, setupVars, fault>>

\* copy_quic_to_tcp: everything read is written, then the end is passed on.
CopyOut(s, dir) ==
    /\ Running(s, dir, "out")
    /\ LET f == flow[s][dir] IN
         \/ /\ f.got < f.mid
            /\ Move(s, dir, [f EXCEPT !.got = @ + 1])
            /\ UNCHANGED copied
         \/ /\ f.got = f.mid /\ f.fin
            /\ Move(s, dir, [f EXCEPT !.eof = TRUE])
            /\ LoopEnds(s, dir, "out")
    /\ UNCHANGED <<link, permits, task, setupVars, fault>>

\* TCP fails at one side: both of its loops end, and each still passes an end on.
SocketFails(side, s) ==
    /\ Bridging(side, s) /\ ~fault[s]
    /\ fault' = [fault EXCEPT ![s] = TRUE]
    /\ copied' = [copied EXCEPT ![s] = @ \cup LoopsOf(side)]
    /\ flow' = [flow EXCEPT ![s] = [dir \in Directions |->
                   [flow[s][dir] EXCEPT !.fin = @ \/ Reader(dir) = side,
                                        !.eof = @ \/ Writer(dir) = side]]]
    /\ UNCHANGED <<link, permits, task, setupVars>>

\* The other side has dropped the stream: the loop's read or write on it fails.
StreamFails(s, dir, loop) ==
    /\ Running(s, dir, loop)
    /\ task[IF loop = "in" THEN Writer(dir) ELSE Reader(dir)][s] = "over"
    /\ loop = "out" => ~flow[s][dir].fin
    /\ loop = "in" => <<dir, "out">> \in copied[s] /\ flow[s][dir].mid < flow[s][dir].sent
    /\ fault' = [fault EXCEPT ![s] = TRUE]
    /\ LoopEnds(s, dir, loop)
    /\ Move(s, dir, IF loop = "in" THEN [flow[s][dir] EXCEPT !.fin = TRUE]
                                   ELSE [flow[s][dir] EXCEPT !.eof = TRUE])
    /\ UNCHANGED <<link, permits, task, setupVars>>

\* The task returns and drops its socket, which the application sees as an end.
Return(side, s) ==
    /\ End(side, s)
    /\ flow' = [flow EXCEPT ![s] = [dir \in Directions |->
                   [flow[s][dir] EXCEPT !.eof = @ \/ Writer(dir) = side]]]
    /\ UNCHANGED <<link, setupVars, copied, fault>>

\* select! and not join!: the bridge ends with the first of its loops.
BridgeEndsBug(side, s) ==
    /\ Bridging(side, s)
    /\ LoopsOf(side) \cap copied[s] # {}
    /\ Return(side, s)

\* The permit is not part of the task.
BridgeEndsLeak(side, s) ==
    /\ Bridging(side, s)
    /\ LoopsOf(side) \subseteq copied[s]
    /\ Go(side, s, "over")
    /\ UNCHANGED <<link, permits, setupVars, flowVars>>

\* Both loops have ended.
BridgeEnds(side, s) ==
    /\ Bridging(side, s)
    /\ LoopsOf(side) \subseteq copied[s]
    /\ Return(side, s)

------------------------------------------------------------------------------
(* The connection, and the slots. *)

LinkCloses ==
    /\ link
    /\ link' = FALSE
    /\ UNCHANGED <<permits, task, setupVars, flowVars>>

Holds(side, s) == task[side][s] \notin {"free", "over", "hello"}

\* Tasks aborted at their next await, which drops what they hold.
Aborted(side, streams) ==
    /\ \E s \in streams : task[side][s] \notin {"free", "over"}
    /\ task' = [task EXCEPT ![side] = [s \in Streams |->
                  IF s \in streams /\ @[s] # "free" THEN "over" ELSE @[s]]]
    /\ permits' = [dev \in Devices |-> permits[dev]
                     + Cardinality({s \in streams : At(side, s) = dev /\ Holds(side, s)})]
    /\ fault' = [s \in Streams |-> fault[s] \/ (s \in streams /\ task[side][s] = "bridge")]
    /\ flow' = [s \in Streams |-> [dir \in Directions |->
                   [flow[s][dir] EXCEPT !.eof = @ \/
                       (s \in streams /\ task[side][s] = "bridge" /\ Writer(dir) = side)]]]
    /\ UNCHANGED <<link, setupVars, copied>>

\* handle_connection (for the streams accepted) or the proxy (for its clients)
\* ends with the connection.
Abort(side) == ~link /\ Aborted(side, Streams)

\* The user stops the proxy of a device: only its clients' tasks are dropped.
StopProxy(dev) == link /\ Aborted("opener", {s \in Streams : At("opener", s) = dev})

\* A stream nobody refers to any more: the slot serves another client.
Forget(s) ==
    /\ task["opener"][s] = "over" /\ task["acceptor"][s] \in {"free", "over"}
    /\ task' = [task EXCEPT !["opener"][s] = "free", !["acceptor"][s] = "free"]
    /\ request' = [request EXCEPT ![s] = "connect"]
    /\ ack' = [ack EXCEPT ![s] = NoAck]
    /\ replies' = [replies EXCEPT ![s] = <<>>]
    /\ attempts' = [attempts EXCEPT ![s] = <<>>]
    /\ flow' = [flow EXCEPT ![s] = [dir \in Directions |-> NoFlow]]
    /\ copied' = [copied EXCEPT ![s] = {}]
    /\ fault' = [fault EXCEPT ![s] = FALSE]
    /\ UNCHANGED <<link, permits>>

------------------------------------------------------------------------------
Init ==
    /\ link = TRUE
    /\ permits = [dev \in Devices |-> MaxStreams]
    /\ task = [side \in Sides |-> [s \in Streams |-> "free"]]
    /\ request = [s \in Streams |-> "connect"]
    /\ ack = [s \in Streams |-> NoAck]
    /\ replies = [s \in Streams |-> <<>>]
    /\ attempts = [s \in Streams |-> <<>>]
    /\ flow = [s \in Streams |-> [dir \in Directions |-> NoFlow]]
    /\ copied = [s \in Streams |-> {}]
    /\ fault = [s \in Streams |-> FALSE]

Setup(s) ==
    \/ Negotiate(s) \/ OpenStream(s) \/ SetupFails(s) \/ ReadAck(s)
    \/ ReadHello(s) \/ HelloFails(s) \/ ConnectOut(s)

Copy(s) ==
    \/ \E dir \in Directions : CopyIn(s, dir) \/ CopyOut(s, dir)
    \/ \E dir \in Directions, loop \in {"in", "out"} : StreamFails(s, dir, loop)
    \/ \E side \in Sides : BridgeEnds(side, s)

Environment(s) ==
    \/ \E r \in Requests : ClientArrives(s, r)
    \/ \E dir \in Directions : SourceWrites(s, dir) \/ SourceShuts(s, dir)
    \/ \E side \in Sides : SocketFails(side, s)

Next ==
    \/ \E s \in Streams : Setup(s) \/ Copy(s) \/ Environment(s) \/ Forget(s)
    \/ \E side \in Sides : Abort(side)
    \/ \E dev \in Devices : StopProxy(dev)
    \/ LinkCloses

Spec == Init /\ [][Next]_vars

\* Timers fire, a TCP connect ends, tasks that can copy do, and the end of a
\* connection reaches both sides.  Nothing is assumed of clients and targets.
Fairness ==
    /\ \A s \in Streams :
         /\ WF_vars(SetupFails(s)) /\ WF_vars(HelloFails(s)) /\ WF_vars(ConnectOut(s))
         /\ \A dir \in Directions : WF_vars(CopyIn(s, dir)) /\ WF_vars(CopyOut(s, dir))
         /\ \A dir \in Directions, loop \in {"in", "out"} : WF_vars(StreamFails(s, dir, loop))
         /\ \A side \in Sides : WF_vars(BridgeEnds(side, s))
    /\ \A side \in Sides : WF_vars(Abort(side))

FairSpec == Spec /\ Fairness

------------------------------------------------------------------------------
(* Properties. *)

\* Nothing is cut off: an application that reads the end of the data has got all
\* that the other one wrote before it shut down its half, also when the other
\* direction ended long before.  Only a failure of a socket, the stream or the
\* connection may truncate.
NothingIsCutOff ==
    \A s \in Streams, dir \in Directions :
        (flow[s][dir].eof /\ ~fault[s])
            => flow[s][dir].shut /\ flow[s][dir].got = flow[s][dir].sent

\* The client hears the truth: it is told success exactly when its stream goes
\* on to a bridge and the acceptor has connected, and a named failure is the one
\* the last address answered with, after every address had failed.
ClientHearsTheTruth ==
    \A s \in Streams : task["opener"][s] # "free" =>
        /\ replies[s] = <<"success">> => Connected(attempts[s])
        /\ task["opener"][s] = "bridge" => replies[s] = <<"success">>
        /\ replies[s] \in {<<"refused">>, <<"netUnreachable">>} =>
               attempts[s] # <<>> /\ ~Connected(attempts[s]) /\ Last(attempts[s]) = replies[s][1]

\* No setup holds a permit for ever: a client or a peer that stalls at any point
\* before the bridge is let go.
SetupsEnd ==
    \A s \in Streams :
        task["opener"][s] \in {"negotiate", "open", "ack"}
            ~> task["opener"][s] \in {"bridge", "over", "free"}

\* A permit is out exactly as long as the task that took it, however the task
\* ended: refused, answered, failed, timed out or aborted.
PermitsComeBack ==
    \A dev \in Devices :
        permits[dev] + Cardinality({x \in Sides \X Streams :
                                       At(x[1], x[2]) = dev /\ Holds(x[1], x[2])}) = MaxStreams

\* A bridge ends once both applications have shut down their halves, or the
\* other side is gone and the local application has shut down: an end is never
\* lost on the way from one socket to the other.
BridgesEnd ==
    \A s \in Streams, side \in Sides :
        (Bridging(side, s) /\ \A dir \in Directions :
             \/ Bridging(Reader(dir), s) /\ flow[s][dir].shut
             \/ task[Reader(dir)][s] = "over")
            ~> ~Bridging(side, s)

\* One stream as its client and its target see it.
ClientOf(s) ==
    IF task["opener"][s] = "free" THEN "idle"
    ELSE IF replies[s] = <<"success">> THEN "connected"
    ELSE IF task["opener"][s] = "over" THEN "refused" ELSE "asking"

DataOf(s) ==
    [dir \in Directions |-> [sent |-> flow[s][dir].sent, shut |-> flow[s][dir].shut,
                            got |-> flow[s][dir].got, eof |-> flow[s][dir].eof]]

Pipe(s) == INSTANCE SocksPipe WITH
    client <- ClientOf(s), target <- Connected(attempts[s]), broken <- fault[s], pipe <- DataOf(s)

\* Every stream is the pipe that a SOCKS client expects, whatever happens to the
\* tasks, permits and acknowledgements behind it: nothing is delivered before the
\* client was told or after the end, nothing twice and nothing that was not
\* written, and a direction is ended by its source or by a break alone
\* (handle_socks_client, socks_connect_side, bridge_streams).
ImplementsPipe ==
    /\ \A s \in Streams : Pipe(s)!Init
    /\ [][\A s \in Streams : [Pipe(s)!Next]_(Pipe(s)!vars)]_vars
==============================================================================
