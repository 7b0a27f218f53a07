---------------------------- MODULE SocksProxyProofs ----------------------------
(***************************************************************************)
(* What SocksProxy guarantees for any number of connections, proxy tasks   *)
(* and keys: its types, that an address shown as bound is real, and that   *)
(* the token a supervisor holds is that of a task of its own.              *)
(*                                                                         *)
(* TokenIsLive is not inductive: a Stop cancels the token of one           *)
(* supervisor, which must not be another's, and a proxy that ends signals  *)
(* the connection it was started for, which must be one.                   *)
(***************************************************************************)
EXTENDS SocksProxy, SequenceTheorems, TLAPS

\* A proxy task that exists was started for a connection.
OwnerInv == \A p \in Proxies : proxy[p].pc # "free" => proxy[p].conn \in Conns

\* No token is held by the supervisors of two connections, be they up or gone.
TokensDistinct ==
    \A b, c \in Conns : running[b] # None /\ running[b] = running[c] => b = c

IInv ==
    /\ TypeOK
    /\ OwnerInv
    /\ TokensDistinct
    /\ BoundIsReal
    /\ TokenIsLive

------------------------------------------------------------------------------
(* Helpers. *)

\* A receiver's queue keeps commands and stays within its capacity.
LEMMA PushType ==
    ASSUME NEW S, NEW q \in Seq(S), Len(q) <= CommandCap, NEW cmd \in S
    PROVE  Push(q, cmd) \in Seq(S) /\ Len(Push(q, cmd)) <= CommandCap
<1>1. CASE Len(q) = CommandCap
  <2>1. q # <<>>
    BY <1>1, CapAssumption
  <2>2. Tail(q) \in Seq(S) /\ Len(Tail(q)) = Len(q) - 1
    BY <2>1, HeadTailProperties
  <2>3. /\ Append(Tail(q), cmd) \in Seq(S)
        /\ Len(Append(Tail(q), cmd)) = Len(Tail(q)) + 1
    BY <2>2, AppendProperties
  <2>4. QED
    BY <1>1, <2>2, <2>3, CapAssumption DEF Push
<1>2. CASE Len(q) # CommandCap
  <2>1. Append(q, cmd) \in Seq(S) /\ Len(Append(q, cmd)) = Len(q) + 1
    BY AppendProperties
  <2>2. QED
    BY <1>2, <2>1, CapAssumption, LenProperties DEF Push
<1>3. QED
  BY <1>1, <1>2

\* A received command leaves a shorter queue.
LEMMA TailType ==
    ASSUME NEW S, NEW q \in Seq(S), q # <<>>, Len(q) <= CommandCap
    PROVE  Tail(q) \in Seq(S) /\ Len(Tail(q)) <= CommandCap
BY HeadTailProperties, LenProperties, CapAssumption

\* Every supervisor's queue.
QueuesOK ==
    /\ cmdQ \in [Conns -> Seq({"Start", "Stop"})]
    /\ \A c \in Conns : Len(cmdQ[c]) <= CommandCap

\* A command reaches every subscribed supervisor and leaves every queue well typed.
LEMMA BroadcastType ==
    ASSUME QueuesOK, NEW cmd \in {"Start", "Stop"}, Broadcast(cmd)
    PROVE  QueuesOK'
<1>1. \A c \in Conns :
        /\ cmdQ'[c] \in Seq({"Start", "Stop"})
        /\ Len(cmdQ'[c]) <= CommandCap
  BY PushType DEF QueuesOK, Broadcast
<1>2. cmdQ' = [c \in Conns |-> cmdQ'[c]]
  BY DEF Broadcast
<1>3. QED
  BY <1>1, <1>2 DEF QueuesOK

\* So does a supervisor that receives one.
LEMMA ReceiveType ==
    ASSUME QueuesOK, NEW c \in Conns, cmdQ[c] # <<>>,
           cmdQ' = [cmdQ EXCEPT ![c] = Tail(@)]
    PROVE  QueuesOK'
<1>1. Tail(cmdQ[c]) \in Seq({"Start", "Stop"}) /\ Len(Tail(cmdQ[c])) <= CommandCap
  BY TailType DEF QueuesOK
<1>2. QED
  BY <1>1 DEF QueuesOK

------------------------------------------------------------------------------
(* The invariant, step by step. *)

LEMMA InitIInv == Init => IInv
<1> SUFFICES ASSUME Init PROVE IInv
  OBVIOUS
<1>1. <<>> \in Seq({"Start", "Stop"}) /\ Len(<<>>) <= CommandCap
  BY CapAssumption, EmptySeq
<1>2. QueuesOK
  BY <1>1 DEF Init, QueuesOK
<1>3. TypeOK
  BY <1>2, KeysAssumption DEF Init, TypeOK, QueuesOK, NoTask, Active
<1>4. OwnerInv /\ TokensDistinct /\ BoundIsReal /\ TokenIsLive
  BY DEF Init, OwnerInv, TokensDistinct, BoundIsReal, TokenIsLive, NoTask
<1>5. QED
  BY <1>3, <1>4 DEF IInv

\* A key changes the port, what is shown, and the queues.
LEMMA UserIInv ==
    ASSUME IInv, UserKey
    PROVE  IInv'
<1>1. QueuesOK'
  BY BroadcastType DEF IInv, TypeOK, QueuesOK, UserKey, KeySetPort, KeyStart, KeyStop, KeyClearPort,
                       supVars
<1> USE DEF IInv, TypeOK, QueuesOK, shownVars, supVars, proxyVars, ResetStatus, Active, NoTask
<1>2. CASE KeySetPort
  <2>1. TypeOK'
    BY <1>1, <1>2, KeysAssumption DEF KeySetPort, Press
  <2>2. OwnerInv' /\ BoundIsReal'
    BY <1>2 DEF KeySetPort, OwnerInv, BoundIsReal
  <2>3. TokensDistinct' /\ TokenIsLive'
    BY <1>2 DEF KeySetPort, TokensDistinct, TokenIsLive, Tasks
  <2>4. QED
    BY <2>1, <2>2, <2>3
<1>3. CASE KeyStart
  <2>1. TypeOK'
    BY <1>1, <1>3, KeysAssumption DEF KeyStart, Press
  <2>2. OwnerInv' /\ BoundIsReal'
    BY <1>3 DEF KeyStart, OwnerInv, BoundIsReal
  <2>3. TokensDistinct' /\ TokenIsLive'
    BY <1>3 DEF KeyStart, TokensDistinct, TokenIsLive, Tasks
  <2>4. QED
    BY <2>1, <2>2, <2>3
<1>4. CASE KeyStop
  <2>1. TypeOK'
    BY <1>1, <1>4, KeysAssumption DEF KeyStop, Press
  <2>2. OwnerInv' /\ BoundIsReal'
    BY <1>4 DEF KeyStop, OwnerInv, BoundIsReal
  <2>3. TokensDistinct' /\ TokenIsLive'
    BY <1>4 DEF KeyStop, TokensDistinct, TokenIsLive, Tasks
  <2>4. QED
    BY <2>1, <2>2, <2>3
<1>5. CASE KeyClearPort
  <2>1. TypeOK'
    <3>1. port' \in BOOLEAN
      BY <1>5 DEF KeyClearPort
    <3>2. QED
      BY <1>1, <1>5, <3>1, KeysAssumption DEF KeyClearPort, Press
  <2>2. OwnerInv' /\ BoundIsReal'
    BY <1>5 DEF KeyClearPort, OwnerInv, BoundIsReal
  <2>3. TokensDistinct' /\ TokenIsLive'
    BY <1>5 DEF KeyClearPort, TokensDistinct, TokenIsLive, Tasks
  <2>4. QED
    BY <2>1, <2>2, <2>3
<1>6. QED
  BY <1>2, <1>3, <1>4, <1>5 DEF UserKey

\* A connection that comes up starts without a token; one that goes leaves its own.
LEMMA ConnectionIInv ==
    ASSUME IInv, NEW c \in Conns, Connection(c)
    PROVE  IInv'
<1>1. QueuesOK'
  <2>1. <<>> \in Seq({"Start", "Stop"}) /\ Len(<<>>) <= CommandCap
    BY CapAssumption, EmptySeq
  <2>2. cmdQ' = cmdQ \/ cmdQ' = [cmdQ EXCEPT ![c] = <<>>]
    BY DEF Connection, ConnUp, ConnCloses, HandlerEnds, SessionCancelled, ConnDropped,
           ConnForgotten, supVars
  <2>3. QED
    BY <2>1, <2>2 DEF IInv, TypeOK, QueuesOK
<1> USE DEF IInv, TypeOK, QueuesOK, shownVars, supVars, proxyVars, ResetStatus, Active, NoTask
<1>2. CASE ConnUp(c)
  <2>1. TypeOK'
    BY <1>1, <1>2 DEF ConnUp
  <2>2. OwnerInv' /\ BoundIsReal'
    BY <1>2 DEF ConnUp, OwnerInv, BoundIsReal
  <2>3. TokensDistinct' /\ TokenIsLive'
    BY <1>2 DEF ConnUp, TokensDistinct, TokenIsLive, Tasks
  <2>4. QED
    BY <2>1, <2>2, <2>3
<1>3. CASE ConnCloses(c)
  <2>1. TypeOK'
    BY <1>1, <1>3 DEF ConnCloses
  <2>2. OwnerInv' /\ BoundIsReal'
    BY <1>3 DEF ConnCloses, OwnerInv, BoundIsReal
  <2>3. TokensDistinct' /\ TokenIsLive'
    BY <1>3 DEF ConnCloses, TokensDistinct, TokenIsLive, Tasks
  <2>4. QED
    BY <2>1, <2>2, <2>3
<1>4. CASE HandlerEnds(c)
  <2>1. TypeOK'
    BY <1>1, <1>4 DEF HandlerEnds
  <2>2. OwnerInv' /\ BoundIsReal'
    BY <1>4 DEF HandlerEnds, OwnerInv, BoundIsReal
  <2>3. TokensDistinct' /\ TokenIsLive'
    BY <1>4 DEF HandlerEnds, TokensDistinct, TokenIsLive, Tasks
  <2>4. QED
    BY <2>1, <2>2, <2>3
<1>5. CASE SessionCancelled(c)
  <2>1. TypeOK'
    BY <1>1, <1>5 DEF SessionCancelled
  <2>2. OwnerInv' /\ BoundIsReal'
    BY <1>5 DEF SessionCancelled, OwnerInv, BoundIsReal
  <2>3. TokensDistinct' /\ TokenIsLive'
    BY <1>5 DEF SessionCancelled, TokensDistinct, TokenIsLive, Tasks
  <2>4. QED
    BY <2>1, <2>2, <2>3
<1>6. CASE ConnDropped(c)
  <2>1. TypeOK'
    BY <1>1, <1>6 DEF ConnDropped
  <2>2. OwnerInv' /\ BoundIsReal'
    BY <1>6 DEF ConnDropped, OwnerInv, BoundIsReal
  <2>3. TokensDistinct' /\ TokenIsLive'
    BY <1>6 DEF ConnDropped, TokensDistinct, TokenIsLive, Tasks
  <2>4. QED
    BY <2>1, <2>2, <2>3
<1>7. CASE ConnForgotten(c)
  <2>1. TypeOK'
    BY <1>1, <1>7 DEF ConnForgotten
  <2>2. OwnerInv' /\ BoundIsReal'
    BY <1>7 DEF ConnForgotten, OwnerInv, BoundIsReal
  <2>3. TokensDistinct' /\ TokenIsLive'
    BY <1>7 DEF ConnForgotten, TokensDistinct, TokenIsLive, Tasks
  <2>4. QED
    BY <2>1, <2>2, <2>3
<1>8. QED
  BY <1>2, <1>3, <1>4, <1>5, <1>6, <1>7 DEF Connection

\* A Start takes a task nobody holds the token of; a Stop cancels the token it takes.
LEMMA SupervisorIInv ==
    ASSUME IInv, NEW c \in Conns, Supervisor(c)
    PROVE  IInv'
<1>1. QueuesOK'
  BY ReceiveType DEF IInv, TypeOK, QueuesOK, Supervisor, SupStart, SupStop, SupDone, Received
<1> USE DEF IInv, TypeOK, QueuesOK, shownVars, supVars, proxyVars, ResetStatus, Active, NoTask
<1>2. CASE SupStart(c)
  <2>1. CASE UNCHANGED <<proxy, cancelled, running>>
    BY <1>1, <1>2, <2>1 DEF SupStart, OwnerInv, TokensDistinct, BoundIsReal, TokenIsLive, Tasks
  <2>2. CASE \E p \in Proxies :
               /\ proxy[p].pc = "free" /\ holder # p
               /\ \A b \in Conns : running[b] # p
               /\ proxy' = [proxy EXCEPT ![p] = [pc |-> "binding", conn |-> c]]
               /\ cancelled' = cancelled \ {p}
               /\ running' = [running EXCEPT ![c] = p]
    <3>1. PICK p \in Proxies :
            /\ proxy[p].pc = "free"
            /\ \A b \in Conns : running[b] # p
            /\ proxy' = [proxy EXCEPT ![p] = [pc |-> "binding", conn |-> c]]
            /\ cancelled' = cancelled \ {p}
            /\ running' = [running EXCEPT ![c] = p]
      BY <2>2
    <3>2. UNCHANGED <<keys, port, socks, bound, conn, sup, dones, holder>>
      BY <1>2 DEF SupStart
    <3>3. TypeOK'
      BY <1>1, <3>1, <3>2
    <3>4. OwnerInv' /\ BoundIsReal'
      BY <3>1, <3>2 DEF OwnerInv, BoundIsReal
    <3>5. TokensDistinct'
      BY <3>1 DEF TokensDistinct
    <3>6. TokenIsLive'
      BY <3>1, <3>2, NoneAssumption DEF TokenIsLive, Tasks
    <3>7. QED
      BY <3>3, <3>4, <3>5, <3>6
  <2>3. QED
    BY <1>2, <2>1, <2>2 DEF SupStart
<1>3. CASE SupStop(c)
  <2>1. TypeOK'
    BY <1>1, <1>3 DEF SupStop
  <2>2. OwnerInv' /\ BoundIsReal'
    BY <1>3 DEF SupStop, OwnerInv, BoundIsReal
  <2>3. TokensDistinct' /\ TokenIsLive'
    BY <1>3 DEF SupStop, TokensDistinct, TokenIsLive, Tasks
  <2>4. QED
    BY <2>1, <2>2, <2>3
<1>4. CASE SupDone(c)
  <2>1. TypeOK'
    BY <1>1, <1>4 DEF SupDone
  <2>2. OwnerInv' /\ BoundIsReal'
    BY <1>4 DEF SupDone, OwnerInv, BoundIsReal
  <2>3. TokensDistinct' /\ TokenIsLive'
    BY <1>4 DEF SupDone, TokensDistinct, TokenIsLive, Tasks
  <2>4. QED
    BY <2>1, <2>2, <2>3
<1>5. QED
  BY <1>2, <1>3, <1>4 DEF Supervisor

\* A proxy that ends tells its supervisor, which holds its token until then.
LEMMA ProxyIInv ==
    ASSUME IInv, NEW p \in Proxies, Proxy(p)
    PROVE  IInv'
<1>1. QueuesOK'
  BY DEF IInv, TypeOK, QueuesOK, Proxy, ProxyBind, ProxyStop, ProxyFinish, PortFreed, supVars
<1> USE DEF IInv, TypeOK, QueuesOK, shownVars, supVars, proxyVars, ResetStatus, Active, NoTask
<1>2. CASE ProxyBind(p)
  <2>1. TypeOK'
    BY <1>1, <1>2 DEF ProxyBind
  <2>2. OwnerInv' /\ BoundIsReal'
    <3>1. CASE /\ proxy' = [proxy EXCEPT ![p].pc = "listening"]
               /\ bound' = p
      BY <1>2, <3>1 DEF ProxyBind, OwnerInv, BoundIsReal
    <3>2. CASE /\ proxy' = [proxy EXCEPT ![p].pc = "failed"]
               /\ bound' = bound
      BY <1>2, <3>2 DEF ProxyBind, OwnerInv, BoundIsReal
    <3>3. QED
      BY <1>2, <3>1, <3>2 DEF ProxyBind
  <2>3. TokensDistinct' /\ TokenIsLive'
    BY <1>2 DEF ProxyBind, TokensDistinct, TokenIsLive, Tasks
  <2>4. QED
    BY <2>1, <2>2, <2>3
<1>3. CASE ProxyStop(p)
  <2>1. TypeOK'
    BY <1>1, <1>3 DEF ProxyStop
  <2>2. OwnerInv' /\ BoundIsReal'
    BY <1>3 DEF ProxyStop, OwnerInv, BoundIsReal
  <2>3. TokensDistinct' /\ TokenIsLive'
    BY <1>3 DEF ProxyStop, TokensDistinct, TokenIsLive, Tasks
  <2>4. QED
    BY <2>1, <2>2, <2>3
<1>4. CASE ProxyFinish(p)
  <2>1. TypeOK'
    <3>1. proxy[p].conn \in Conns
      BY <1>4 DEF ProxyFinish, OwnerInv
    <3>2. /\ dones' \in [Conns -> Nat]
          /\ socks' \in {"idle", "error"} /\ bound' = None
      BY <1>4, <3>1 DEF ProxyFinish
    <3>3. proxy' \in [Proxies -> [pc : {"free", "stopped", "failed"} \cup Active,
                                 conn : Conns \cup {None}]]
      BY <1>4 DEF ProxyFinish
    <3>4. QED
      BY <1>1, <1>4, <3>2, <3>3 DEF ProxyFinish
  <2>2. OwnerInv' /\ BoundIsReal'
    BY <1>4 DEF ProxyFinish, OwnerInv, BoundIsReal
  <2>3. TokensDistinct' /\ TokenIsLive'
    BY <1>4 DEF ProxyFinish, TokensDistinct, TokenIsLive, Tasks
  <2>4. QED
    BY <2>1, <2>2, <2>3
<1>5. CASE PortFreed(p)
  <2>1. TypeOK'
    BY <1>1, <1>5 DEF PortFreed
  <2>2. OwnerInv' /\ BoundIsReal'
    BY <1>5 DEF PortFreed, OwnerInv, BoundIsReal
  <2>3. TokensDistinct' /\ TokenIsLive'
    BY <1>5 DEF PortFreed, TokensDistinct, TokenIsLive, Tasks
  <2>4. QED
    BY <2>1, <2>2, <2>3
<1>6. QED
  BY <1>2, <1>3, <1>4, <1>5 DEF Proxy

\* Every step preserves the invariant.
LEMMA NextIInv == IInv /\ [Next]_vars => IInv'
<1> SUFFICES ASSUME IInv, [Next]_vars PROVE IInv'
  OBVIOUS
<1>1. CASE UNCHANGED vars
  BY <1>1 DEF vars, IInv, TypeOK, OwnerInv, TokensDistinct, BoundIsReal, TokenIsLive, Tasks,
              shownVars, supVars, proxyVars
<1>2. QED
  BY <1>1, UserIInv, ConnectionIInv, SupervisorIInv, ProxyIInv DEF Next

------------------------------------------------------------------------------
(* Theorems. *)

\* Every behaviour keeps the inductive invariant.
THEOREM IInvHolds == Spec => []IInv
<1>1. Init => IInv
  BY InitIInv
<1>2. IInv /\ [Next]_vars => IInv'
  BY NextIInv
<1>3. QED
  BY <1>1, <1>2, PTL DEF Spec

\* The state has its types, and a burst of commands never outgrows a queue.
THEOREM TypeCorrect == Spec => []TypeOK
<1>1. IInv => TypeOK
  BY DEF IInv
<1>2. QED
  BY <1>1, IInvHolds, PTL

\* The dashboard never shows the address of a proxy that has ended, however the
\* proxies of several connections overlap.
THEOREM BoundReal == Spec => []BoundIsReal
<1>1. IInv => BoundIsReal
  BY DEF IInv
<1>2. QED
  BY <1>1, IInvHolds, PTL

\* A Stop goes to the proxy that runs, never to one that was replaced.
THEOREM TokenLive == Spec => []TokenIsLive
<1>1. IInv => TokenIsLive
  BY DEF IInv
<1>2. QED
  BY <1>1, IInvHolds, PTL
==============================================================================
