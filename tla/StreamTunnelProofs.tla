--------------------------- MODULE StreamTunnelProofs ---------------------------
(***************************************************************************)
(* What StreamTunnel guarantees for any number of streams of both devices, *)
(* permits, addresses and units of data: every permit comes back, no data  *)
(* are cut off, a client is told what became of its connection, and every  *)
(* stream is a pipe (SocksPipe).                                           *)
(*                                                                         *)
(* An inductive invariant for each: they share Shape, the types, and       *)
(* OrderInv, that no acceptor works on a stream that is not yet open.      *)
(***************************************************************************)
EXTENDS StreamTunnel, FiniteSetTheorems, TLAPS

TaskStates == {"free", "negotiate", "open", "ack", "hello", "dial", "bridge", "over"}
Reps == Failures \cup {"none", "success"}
Loops == Directions \X {"in", "out"}
FlowRecord == [sent : Nat, shut : BOOLEAN, mid : Nat, fin : BOOLEAN, got : Nat, eof : BOOLEAN]

\* The types of what the proofs look into.
Shape ==
    /\ permits \in [Devices -> Nat]
    /\ task \in [Sides -> [Streams -> TaskStates]]
    /\ ack \in [Streams -> [accepted : BOOLEAN, rep : Reps]]
    /\ replies = [s \in Streams |-> replies[s]]
    /\ attempts = [s \in Streams |-> attempts[s]]
    /\ flow \in [Streams -> [Directions -> FlowRecord]]
    /\ copied \in [Streams -> SUBSET Loops]
    /\ fault \in [Streams -> BOOLEAN]

\* Before the stream is open its acceptor does not exist.
OrderOf(s) ==
    task["opener"][s] \in {"free", "negotiate", "open"} => task["acceptor"][s] = "free"

OrderInv == \A s \in Streams : OrderOf(s)

\* An end of data that was passed on was preceded by the source's shutdown and by
\* all that the source wrote, at each of the two loops of a direction.
FlowOK(f, out) ==
    /\ f.fin => f.shut /\ f.mid = f.sent
    /\ f.eof => f.fin /\ f.got = f.mid
    /\ out => f.eof

FlowOf(s) ==
    \A dir \in Directions : ~fault[s] => FlowOK(flow[s][dir], <<dir, "out">> \in copied[s])

FlowInv == \A s \in Streams : FlowOf(s)

\* An outcome that is on its way is that of the acceptor's last connect.
Named == {"refused", "netUnreachable"}
Outcome(s, rep) ==
    /\ rep = "success" => Connected(attempts[s])
    /\ rep \in Named => attempts[s] # <<>> /\ ~Connected(attempts[s]) /\ Last(attempts[s]) = rep

Told(s) == \E rep \in Named \cup {"success"} : replies[s] = <<rep>>

\* Nothing is told before the acceptor has decided; then the acknowledgement and
\* the reply both tell the outcome, and a bridge was told success.
TruthOf(s) ==
    /\ task["acceptor"][s] \in {"free", "hello", "dial"} => ack[s] = NoAck /\ ~Told(s)
    /\ Decodes(ack[s]) => Outcome(s, ack[s].rep)
    /\ \A rep \in Named \cup {"success"} : replies[s] = <<rep>> => Outcome(s, rep)
    /\ task["opener"][s] = "bridge" => replies[s] = <<"success">>

TruthInv == \A s \in Streams : TruthOf(s)

IInv == Shape /\ OrderInv /\ FlowInv /\ TruthInv /\ PermitsComeBack

------------------------------------------------------------------------------
(* Tasks. *)

\* A task moves and no other does.
LEMMA GoTask ==
    ASSUME Shape, NEW side \in Sides, NEW s \in Streams, NEW pc \in TaskStates, Go(side, s, pc)
    PROVE  /\ task' \in [Sides -> [Streams -> TaskStates]]
           /\ task'[side][s] = pc
           /\ \A t \in Sides, x \in Streams : <<t, x>> # <<side, s>> => task'[t][x] = task[t][x]
BY DEF Shape, Go

\* The stream is opened: both of its tasks move.
LEMMA OpenTask ==
    ASSUME Shape, NEW s \in Streams,
           task' = [task EXCEPT !["opener"][s] = "ack", !["acceptor"][s] = "hello"]
    PROVE  /\ task' \in [Sides -> [Streams -> TaskStates]]
           /\ task'["opener"][s] = "ack" /\ task'["acceptor"][s] = "hello"
           /\ \A t \in Sides, x \in Streams : x # s => task'[t][x] = task[t][x]
BY DEF Shape, Sides, TaskStates

LEMMA ForgetTask ==
    ASSUME Shape, NEW s \in Streams,
           task' = [task EXCEPT !["opener"][s] = "free", !["acceptor"][s] = "free"]
    PROVE  /\ task' \in [Sides -> [Streams -> TaskStates]]
           /\ task'["opener"][s] = "free" /\ task'["acceptor"][s] = "free"
           /\ \A t \in Sides, x \in Streams : x # s => task'[t][x] = task[t][x]
BY DEF Shape, Sides, TaskStates

\* Tasks of one side are aborted.
LEMMA AbortTask ==
    ASSUME Shape, NEW side \in Sides, NEW streams \in SUBSET Streams, Aborted(side, streams)
    PROVE  /\ task' \in [Sides -> [Streams -> TaskStates]]
           /\ \A x \in Streams : task'[side][x] =
                IF x \in streams /\ task[side][x] # "free" THEN "over" ELSE task[side][x]
           /\ \A t \in Sides \ {side}, x \in Streams : task'[t][x] = task[t][x]
BY DEF Shape, Sides, TaskStates, Aborted

------------------------------------------------------------------------------
(* Permits. *)

LEMMA AtType == \A side, s : At(side, s) \in Devices
BY DEF At, Devices

\* The tasks that hold a permit of a device.
Holders(dev) == {x \in Sides \X Streams : At(x[1], x[2]) = dev /\ Holds(x[1], x[2])}

LEMMA HoldersFinite ==
    ASSUME SlotsAssumption, NEW dev
    PROVE  IsFiniteSet(Holders(dev)) /\ Cardinality(Holders(dev)) \in Nat
<1>1. IsFiniteSet(Sides)
  <2>1. IsFiniteSet({"opener"} \cup {"acceptor"})
    BY FS_Singleton, FS_AddElement
  <2>2. {"opener"} \cup {"acceptor"} = Sides
    BY DEF Sides
  <2>3. QED
    BY <2>1, <2>2
<1>2. IsFiniteSet(Sides \X Streams)
  BY <1>1, FS_Product DEF SlotsAssumption
<1>3. Holders(dev) \in SUBSET (Sides \X Streams)
  BY DEF Holders
<1>4. QED
  BY <1>2, <1>3, FS_Subset, FS_CardinalityType

\* No other task takes or gives back a permit.
OnlyHolder(side, s) ==
    \A t \in Sides, x \in Streams : <<t, x>> # <<side, s>> => (Holds(t, x)' <=> Holds(t, x))

LEMMA PermitGiven ==
    ASSUME SlotsAssumption, Shape, PermitsComeBack, NEW side \in Sides, NEW s \in Streams,
           Holds(side, s), ~Holds(side, s)', OnlyHolder(side, s),
           permits' = [permits EXCEPT ![At(side, s)] = @ + 1]
    PROVE  PermitsComeBack' /\ permits' \in [Devices -> Nat]
<1>1. permits' \in [Devices -> Nat]
  BY AtType DEF Shape
<1>2. ASSUME NEW dev \in Devices
      PROVE  (permits[dev] + Cardinality(Holders(dev)) = MaxStreams)'
  <2>1. /\ IsFiniteSet(Holders(dev)) /\ Cardinality(Holders(dev)) \in Nat
        /\ permits[dev] \in Nat /\ permits[dev] + Cardinality(Holders(dev)) = MaxStreams
    BY HoldersFinite DEF Shape, PermitsComeBack, Holders
  <2>2. CASE dev = At(side, s)
    <3>1. Holders(dev)' = Holders(dev) \ {<<side, s>>}
      BY DEF Holders, OnlyHolder
    <3>2. <<side, s>> \in Holders(dev)
      BY <2>2 DEF Holders
    <3>3. Cardinality(Holders(dev)') = Cardinality(Holders(dev)) - 1
      BY <2>1, <3>1, <3>2, FS_RemoveElement
    <3>4. permits'[dev] = permits[dev] + 1
      BY <2>2 DEF Shape
    <3>5. QED
      BY <2>1, <3>3, <3>4
  <2>3. CASE dev # At(side, s)
    <3>1. Holders(dev)' = Holders(dev)
      BY <2>3 DEF Holders, OnlyHolder
    <3>2. permits'[dev] = permits[dev]
      BY <2>3 DEF Shape
    <3>3. QED
      BY <2>1, <3>1, <3>2
  <2>4. QED
    BY <2>2, <2>3
<1>3. QED
  BY <1>1, <1>2 DEF PermitsComeBack, Holders

LEMMA PermitTaken ==
    ASSUME SlotsAssumption, Shape, PermitsComeBack, NEW side \in Sides, NEW s \in Streams,
           ~Holds(side, s), Holds(side, s)', OnlyHolder(side, s),
           permits[At(side, s)] > 0, permits' = [permits EXCEPT ![At(side, s)] = @ - 1]
    PROVE  PermitsComeBack' /\ permits' \in [Devices -> Nat]
<1>1. permits' \in [Devices -> Nat]
  BY AtType DEF Shape
<1>2. ASSUME NEW dev \in Devices
      PROVE  (permits[dev] + Cardinality(Holders(dev)) = MaxStreams)'
  <2>1. /\ IsFiniteSet(Holders(dev)) /\ Cardinality(Holders(dev)) \in Nat
        /\ permits[dev] \in Nat /\ permits[dev] + Cardinality(Holders(dev)) = MaxStreams
    BY HoldersFinite DEF Shape, PermitsComeBack, Holders
  <2>2. CASE dev = At(side, s)
    <3>1. Holders(dev)' = Holders(dev) \cup {<<side, s>>}
      BY <2>2 DEF Holders, OnlyHolder
    <3>2. <<side, s>> \notin Holders(dev)
      BY DEF Holders
    <3>3. Cardinality(Holders(dev)') = Cardinality(Holders(dev)) + 1
      BY <2>1, <3>1, <3>2, FS_AddElement
    <3>4. permits'[dev] = permits[dev] - 1
      BY <2>2 DEF Shape
    <3>5. QED
      BY <2>1, <3>3, <3>4
  <2>3. CASE dev # At(side, s)
    <3>1. Holders(dev)' = Holders(dev)
      BY <2>3 DEF Holders, OnlyHolder
    <3>2. permits'[dev] = permits[dev]
      BY <2>3 DEF Shape
    <3>3. QED
      BY <2>1, <3>1, <3>2
  <2>4. QED
    BY <2>2, <2>3
<1>3. QED
  BY <1>1, <1>2 DEF PermitsComeBack, Holders

LEMMA PermitsSame ==
    ASSUME PermitsComeBack, UNCHANGED permits,
           \A side \in Sides, s \in Streams : Holds(side, s)' <=> Holds(side, s)
    PROVE  PermitsComeBack'
<1>1. ASSUME NEW dev \in Devices PROVE Holders(dev)' = Holders(dev)
  BY DEF Holders
<1>2. QED
  BY <1>1 DEF PermitsComeBack, Holders

\* An abort gives back as many permits as the tasks it drops were holding.
LEMMA PermitsAborted ==
    ASSUME SlotsAssumption, Shape, PermitsComeBack, NEW side \in Sides,
           NEW streams \in SUBSET Streams, Aborted(side, streams)
    PROVE  PermitsComeBack' /\ permits' \in [Devices -> Nat]
<1> DEFINE D(dev) == {s \in streams : At(side, s) = dev /\ Holds(side, s)}
           P(dev) == {x \in Holders(dev) : x[1] = side /\ x[2] \in streams}
<1>1. ASSUME NEW dev \in Devices
      PROVE  /\ IsFiniteSet(D(dev)) /\ Cardinality(D(dev)) \in Nat
             /\ IsFiniteSet(P(dev)) /\ Cardinality(P(dev)) = Cardinality(D(dev))
  <2>1. IsFiniteSet(D(dev)) /\ Cardinality(D(dev)) \in Nat
    <3>1. D(dev) \in SUBSET Streams
      OBVIOUS
    <3>2. QED
      BY <3>1, FS_Subset, FS_CardinalityType DEF SlotsAssumption
  <2> DEFINE f == [s \in D(dev) |-> <<side, s>>]
  <2>2. f \in [D(dev) -> P(dev)]
    BY DEF Holders
  <2>3. \A s, t \in D(dev) : f[s] = f[t] => s = t
    OBVIOUS
  <2>4. \A x \in P(dev) : \E s \in D(dev) : f[s] = x
    <3>1. SUFFICES ASSUME NEW x \in P(dev) PROVE \E s \in D(dev) : f[s] = x
      OBVIOUS
    <3>2. x = <<side, x[2]>> /\ x[2] \in D(dev)
      BY DEF Holders
    <3>3. QED
      BY <3>2
  <2>5. f \in Bijection(D(dev), P(dev))
    BY <2>2, <2>3, <2>4 DEF Bijection, Injection, Surjection, IsInjective
  <2>6. ExistsBijection(D(dev), P(dev))
    BY <2>5 DEF ExistsBijection
  <2>7. QED
    BY <2>1, <2>6, FS_Bijection
<1>2. ASSUME NEW dev \in Devices
      PROVE  permits'[dev] = permits[dev] + Cardinality(D(dev))
  BY DEF Aborted
<1>3. permits' \in [Devices -> Nat]
  <2>1. ASSUME NEW dev \in Devices PROVE permits'[dev] \in Nat
    <3>1. permits[dev] \in Nat
      BY DEF Shape
    <3>2. Cardinality(D(dev)) \in Nat
      BY <1>1
    <3>3. permits'[dev] = permits[dev] + Cardinality(D(dev))
      BY <1>2
    <3> HIDE DEF D
    <3>4. QED
      BY <3>1, <3>2, <3>3
  <2>2. permits' = [dev \in Devices |-> permits'[dev]]
    BY DEF Aborted
  <2>3. QED
    BY <2>1, <2>2
<1>4. ASSUME NEW t \in Sides, NEW x \in Streams
      PROVE  Holds(t, x)' <=> Holds(t, x) /\ ~(t = side /\ x \in streams)
  BY AbortTask DEF Holds
<1>5. ASSUME NEW dev \in Devices
      PROVE  (permits[dev] + Cardinality(Holders(dev)) = MaxStreams)'
  <2>1. Holders(dev)' = Holders(dev) \ P(dev)
    BY <1>4 DEF Holders
  <2>2. IsFiniteSet(Holders(dev)) /\ Cardinality(Holders(dev)) \in Nat
    BY HoldersFinite
  <2>3. Cardinality(Holders(dev) \ P(dev)) = Cardinality(Holders(dev)) - Cardinality(Holders(dev) \cap P(dev))
    BY <2>2, FS_Difference
  <2>4. Holders(dev) \cap P(dev) = P(dev)
    OBVIOUS
  <2>5. permits[dev] \in Nat /\ permits[dev] + Cardinality(Holders(dev)) = MaxStreams
    BY DEF Shape, PermitsComeBack, Holders
  <2> HIDE DEF P, D
  <2>6. Cardinality(Holders(dev)') = Cardinality(Holders(dev)) - Cardinality(D(dev))
    BY <1>1, <2>1, <2>3, <2>4
  <2>7. QED
    BY <1>1, <1>2, <2>2, <2>5, <2>6
<1>6. QED
  BY <1>3, <1>5 DEF PermitsComeBack, Holders

------------------------------------------------------------------------------
(* One task moves: what that means for the permits and for other streams. *)

NotHolding == {"free", "over", "hello"}

\* A task that ends gives its permit back.
LEMMA Ends ==
    ASSUME SlotsAssumption, Shape, PermitsComeBack, NEW side \in Sides, NEW s \in Streams,
           task[side][s] \notin NotHolding, End(side, s)
    PROVE  /\ PermitsComeBack' /\ permits' \in [Devices -> Nat]
           /\ task' \in [Sides -> [Streams -> TaskStates]]
           /\ task'[side][s] = "over"
           /\ \A t \in Sides, x \in Streams : <<t, x>> # <<side, s>> => task'[t][x] = task[t][x]
<1>1. /\ task' \in [Sides -> [Streams -> TaskStates]]
      /\ task'[side][s] = "over"
      /\ \A t \in Sides, x \in Streams : <<t, x>> # <<side, s>> => task'[t][x] = task[t][x]
  BY GoTask DEF End, TaskStates
<1>2. OnlyHolder(side, s) /\ Holds(side, s) /\ ~Holds(side, s)'
  BY <1>1 DEF OnlyHolder, Holds, NotHolding
<1>3. QED
  BY <1>1, <1>2, PermitGiven DEF End

\* A task that moves on keeps what it has.
LEMMA Moves ==
    ASSUME Shape, PermitsComeBack, NEW side \in Sides, NEW s \in Streams, NEW pc \in TaskStates,
           pc \in NotHolding <=> task[side][s] \in NotHolding, Go(side, s, pc), UNCHANGED permits
    PROVE  /\ PermitsComeBack' /\ permits' \in [Devices -> Nat]
           /\ task' \in [Sides -> [Streams -> TaskStates]]
           /\ task'[side][s] = pc
           /\ \A t \in Sides, x \in Streams : <<t, x>> # <<side, s>> => task'[t][x] = task[t][x]
<1>1. /\ task' \in [Sides -> [Streams -> TaskStates]]
      /\ task'[side][s] = pc
      /\ \A t \in Sides, x \in Streams : <<t, x>> # <<side, s>> => task'[t][x] = task[t][x]
  BY GoTask
<1>2. ASSUME NEW t \in Sides, NEW x \in Streams PROVE Holds(t, x)' <=> Holds(t, x)
  BY <1>1 DEF Holds, NotHolding
<1>3. QED
  BY <1>1, <1>2, PermitsSame DEF Shape

\* A task that starts to work takes a permit.
LEMMA Takes ==
    ASSUME SlotsAssumption, Shape, PermitsComeBack, NEW side \in Sides, NEW s \in Streams,
           NEW pc \in TaskStates \ NotHolding, task[side][s] \in NotHolding, Go(side, s, pc),
           permits[At(side, s)] > 0, permits' = [permits EXCEPT ![At(side, s)] = @ - 1]
    PROVE  /\ PermitsComeBack' /\ permits' \in [Devices -> Nat]
           /\ task' \in [Sides -> [Streams -> TaskStates]]
           /\ task'[side][s] = pc
           /\ \A t \in Sides, x \in Streams : <<t, x>> # <<side, s>> => task'[t][x] = task[t][x]
<1>1. /\ task' \in [Sides -> [Streams -> TaskStates]]
      /\ task'[side][s] = pc
      /\ \A t \in Sides, x \in Streams : <<t, x>> # <<side, s>> => task'[t][x] = task[t][x]
  BY GoTask
<1>2. OnlyHolder(side, s) /\ ~Holds(side, s) /\ Holds(side, s)'
  BY <1>1 DEF OnlyHolder, Holds, NotHolding
<1>3. QED
  BY <1>1, <1>2, PermitTaken

\* Two streams have nothing in common but the permits.
LEMMA OneStreamMoves ==
    ASSUME OrderInv, TruthInv, NEW s \in Streams, OrderOf(s)', TruthOf(s)',
           \A x \in Streams \ {s} :
               /\ \A t \in Sides : task'[t][x] = task[t][x]
               /\ ack'[x] = ack[x] /\ replies'[x] = replies[x] /\ attempts'[x] = attempts[x]
    PROVE  OrderInv' /\ TruthInv'
<1>1. ASSUME NEW x \in Streams \ {s} PROVE OrderOf(x)' /\ TruthOf(x)'
  BY <1>1 DEF OrderInv, TruthInv, OrderOf, TruthOf, Outcome, Told, Sides
<1>2. QED
  BY <1>1 DEF OrderInv, TruthInv

\* What the steps of a setup leave alone.
LEMMA FlowSame ==
    ASSUME FlowInv, UNCHANGED flowVars
    PROVE  FlowInv'
BY DEF FlowInv, FlowOf, flowVars

------------------------------------------------------------------------------
(* The setup of a stream. *)

\* What is told on the opener's own account is neither success nor a named failure.
LEMMA OwnReplies ==
    /\ \A rep \in Named \cup {"success"} : <<"general">> # <<rep>>
    /\ \A r : \A rep \in Named \cup {"success"} : LocalReplies(r) # <<rep>>
<1>1. \A r : LocalReplies(r) \in {<<"command", "general">>, <<"address", "general">>, <<"general">>}
  BY DEF LocalReplies
<1>2. \A rep \in Named \cup {"success"} :
        <<"general">> # <<rep>> /\ <<"command", "general">> # <<rep>> /\ <<"address", "general">> # <<rep>>
  BY DEF Named
<1>3. QED
  BY <1>1, <1>2

\* A refusal is one of the failures, and the named one if there is a name.
LEMMA RejectedReps ==
    \A code : /\ Rejected(code) \in [accepted : BOOLEAN, rep : Reps]
              /\ Rejected(code).accepted = FALSE
              /\ Rejected(code).rep = IF code \in Failures THEN code ELSE "general"
<1>1. SUFFICES ASSUME NEW code
      PROVE  /\ Rejected(code) \in [accepted : BOOLEAN, rep : Reps]
             /\ Rejected(code).accepted = FALSE
             /\ Rejected(code).rep = IF code \in Failures THEN code ELSE "general"
  OBVIOUS
<1> DEFINE c == IF code \in Failures THEN code ELSE "general"
<1>2. Rejected(code) = [accepted |-> FALSE, rep |-> c]
  BY Zenon DEF Rejected
<1>3. c \in Reps
  BY DEF Reps, Failures
<1>4. [accepted |-> FALSE, rep |-> c].rep = c /\ [accepted |-> FALSE, rep |-> c].accepted = FALSE
  OBVIOUS
<1>5. [accepted |-> FALSE, rep |-> c] \in [accepted : BOOLEAN, rep : Reps]
  BY <1>3
<1>6. QED
  BY <1>2, <1>4, <1>5, Zenon

\* A client takes a permit of the opener's device.
LEMMA ClientArrivesIInv ==
    ASSUME SlotsAssumption, IInv, NEW s \in Streams, NEW r \in Requests, ClientArrives(s, r)
    PROVE  IInv'
<1> USE DEF IInv, Sides
<1>1. /\ PermitsComeBack' /\ permits' \in [Devices -> Nat]
      /\ task' \in [Sides -> [Streams -> TaskStates]]
      /\ task'["opener"][s] = "negotiate"
      /\ \A t \in Sides, x \in Streams : <<t, x>> # <<"opener", s>> => task'[t][x] = task[t][x]
  BY Takes DEF ClientArrives, TaskStates, NotHolding
<1>2. Shape'
  BY <1>1 DEF Shape, ClientArrives, setupVars, flowVars
<1>3. OrderOf(s)' /\ TruthOf(s)'
  BY <1>1 DEF Shape, OrderInv, TruthInv, OrderOf, TruthOf, Outcome, Told, ClientArrives, setupVars, flowVars
<1>4. \A x \in Streams \ {s} :
        /\ \A t \in {"opener", "acceptor"} : task'[t][x] = task[t][x]
        /\ ack'[x] = ack[x] /\ replies'[x] = replies[x] /\ attempts'[x] = attempts[x]
  BY <1>1 DEF Shape, ClientArrives, setupVars
<1>5. UNCHANGED flowVars
  BY DEF ClientArrives
<1>6. QED
  BY <1>1, <1>2, <1>3, <1>4, <1>5, OneStreamMoves, FlowSame

\* A request that is refused ends with a reply of the opener's own.
LEMMA NegotiateIInv ==
    ASSUME SlotsAssumption, IInv, NEW s \in Streams, Negotiate(s)
    PROVE  IInv'
<1> USE DEF IInv, Sides
<1>1. /\ PermitsComeBack' /\ permits' \in [Devices -> Nat]
      /\ task' \in [Sides -> [Streams -> TaskStates]]
      /\ task'["opener"][s] \in {"open", "over"}
      /\ \A t \in Sides, x \in Streams : <<t, x>> # <<"opener", s>> => task'[t][x] = task[t][x]
  BY Moves, Ends DEF Negotiate, TaskStates, NotHolding
<1>2. replies' = replies \/ (task'["opener"][s] = "over" /\ \E r : replies' = [replies EXCEPT ![s] = LocalReplies(r)])
  BY <1>1, Ends DEF Negotiate, NotHolding
<1>3. Shape'
  BY <1>1, <1>2, OwnReplies DEF Shape, Negotiate, setupVars, flowVars
<1>4. OrderOf(s)' /\ TruthOf(s)'
  <2>1. /\ task["opener"][s] = "negotiate" /\ task["acceptor"][s] = "free"
        /\ UNCHANGED <<ack, attempts>>
    BY DEF OrderInv, OrderOf, Negotiate
  <2>2. OrderOf(s)'
    BY <1>1, <2>1 DEF OrderOf
  <2>3. TruthOf(s) /\ ~Told(s) /\ ack[s] = NoAck
    BY <2>1 DEF TruthInv, TruthOf
  <2>4. \A rep \in Named \cup {"success"} : replies'[s] # <<rep>>
    <3>1. CASE replies' = replies
      BY <2>3, <3>1 DEF Told
    <3>2. ASSUME NEW r, replies' = [replies EXCEPT ![s] = LocalReplies(r)]
          PROVE  \A rep \in Named \cup {"success"} : replies'[s] # <<rep>>
      <4>1. replies'[s] = LocalReplies(r)
        BY <3>2 DEF Shape
      <4>2. QED
        BY <4>1, OwnReplies
    <3>3. QED
      BY <1>2, <3>1, <3>2
  <2>5. TruthOf(s)'
    BY <1>1, <2>1, <2>3, <2>4 DEF TruthOf, Outcome, Told
  <2>6. QED
    BY <2>2, <2>5
<1>5. \A x \in Streams \ {s} :
        /\ \A t \in {"opener", "acceptor"} : task'[t][x] = task[t][x]
        /\ ack'[x] = ack[x] /\ replies'[x] = replies[x] /\ attempts'[x] = attempts[x]
  BY <1>1 DEF Shape, Negotiate, setupVars
<1>6. UNCHANGED flowVars
  BY DEF Negotiate
<1>7. QED
  BY <1>1, <1>3, <1>4, <1>5, <1>6, OneStreamMoves, FlowSame

\* So does a setup that fails.
LEMMA SetupFailsIInv ==
    ASSUME SlotsAssumption, IInv, NEW s \in Streams, SetupFails(s)
    PROVE  IInv'
<1> USE DEF IInv, Sides
<1>1. /\ PermitsComeBack' /\ permits' \in [Devices -> Nat]
      /\ task' \in [Sides -> [Streams -> TaskStates]]
      /\ task'["opener"][s] = "over"
      /\ \A t \in Sides, x \in Streams : <<t, x>> # <<"opener", s>> => task'[t][x] = task[t][x]
  BY Ends DEF SetupFails, NotHolding
<1>2. Shape'
  BY <1>1, OwnReplies DEF Shape, SetupFails, setupVars, flowVars
<1>3. OrderOf(s)' /\ TruthOf(s)'
  BY <1>1, OwnReplies DEF Shape, OrderInv, TruthInv, OrderOf, TruthOf, Outcome, Told, SetupFails, setupVars, flowVars
<1>4. \A x \in Streams \ {s} :
        /\ \A t \in {"opener", "acceptor"} : task'[t][x] = task[t][x]
        /\ ack'[x] = ack[x] /\ replies'[x] = replies[x] /\ attempts'[x] = attempts[x]
  BY <1>1 DEF Shape, SetupFails, setupVars
<1>5. UNCHANGED flowVars
  BY DEF SetupFails
<1>6. QED
  BY <1>1, <1>2, <1>3, <1>4, <1>5, OneStreamMoves, FlowSame

\* The acceptor that comes into being holds nothing yet.
LEMMA OpenStreamIInv ==
    ASSUME SlotsAssumption, IInv, NEW s \in Streams, OpenStream(s)
    PROVE  IInv'
<1> USE DEF IInv, Sides
<1>1. /\ task' \in [Sides -> [Streams -> TaskStates]]
      /\ task'["opener"][s] = "ack" /\ task'["acceptor"][s] = "hello"
      /\ \A t \in Sides, x \in Streams : x # s => task'[t][x] = task[t][x]
  BY OpenTask DEF OpenStream
<1>2. task["opener"][s] = "open" /\ task["acceptor"][s] = "free"
  BY DEF OpenStream, OrderInv, OrderOf
<1>3. ASSUME NEW t \in Sides, NEW x \in Streams PROVE Holds(t, x)' <=> Holds(t, x)
  BY <1>1, <1>2 DEF Holds
<1>4. PermitsComeBack'
  BY <1>3, PermitsSame DEF OpenStream
<1>5. Shape'
  BY <1>1, <1>2 DEF Shape, OpenStream, setupVars, flowVars
<1>6. OrderOf(s)' /\ TruthOf(s)'
  BY <1>1, <1>2 DEF Shape, OrderInv, TruthInv, OrderOf, TruthOf, Outcome, Told, OpenStream, setupVars, flowVars
<1>7. \A x \in Streams \ {s} :
        /\ \A t \in {"opener", "acceptor"} : task'[t][x] = task[t][x]
        /\ ack'[x] = ack[x] /\ replies'[x] = replies[x] /\ attempts'[x] = attempts[x]
  BY <1>1 DEF Shape, OpenStream, setupVars
<1>8. UNCHANGED flowVars
  BY DEF OpenStream
<1>9. QED
  BY <1>1, <1>4, <1>5, <1>6, <1>7, <1>8, OneStreamMoves, FlowSame

\* The client is told what the acknowledgement tells.
LEMMA ReadAckIInv ==
    ASSUME SlotsAssumption, IInv, NEW s \in Streams, ReadAck(s)
    PROVE  IInv'
<1> USE DEF IInv, Sides
<1>1. /\ PermitsComeBack' /\ permits' \in [Devices -> Nat]
      /\ task' \in [Sides -> [Streams -> TaskStates]]
      /\ task'["opener"][s] = IF ack[s].accepted THEN "bridge" ELSE "over"
      /\ \A t \in Sides, x \in Streams : <<t, x>> # <<"opener", s>> => task'[t][x] = task[t][x]
  BY Moves, Ends DEF ReadAck, TaskStates, NotHolding
<1>2. /\ ack[s].accepted => ack[s].rep = "success"
      /\ ack[s].rep \in Reps /\ Decodes(ack[s]) /\ Outcome(s, ack[s].rep)
      /\ ack[s] # NoAck
  BY DEF Shape, ReadAck, Decodes, TruthInv, TruthOf
<1>3. replies' = [replies EXCEPT ![s] = <<ack[s].rep>>]
  BY DEF ReadAck
<1>4. Shape'
  BY <1>1, <1>2, <1>3 DEF Shape, ReadAck, setupVars, flowVars
<1>5. OrderOf(s)' /\ TruthOf(s)'
  BY <1>1, <1>2, <1>3 DEF Shape, OrderInv, TruthInv, OrderOf, TruthOf, Outcome, Told, ReadAck, setupVars, flowVars
<1>6. \A x \in Streams \ {s} :
        /\ \A t \in {"opener", "acceptor"} : task'[t][x] = task[t][x]
        /\ ack'[x] = ack[x] /\ replies'[x] = replies[x] /\ attempts'[x] = attempts[x]
  BY <1>1 DEF Shape, ReadAck, setupVars
<1>7. UNCHANGED flowVars
  BY DEF ReadAck
<1>8. QED
  BY <1>1, <1>4, <1>5, <1>6, <1>7, OneStreamMoves, FlowSame

\* The acceptor takes a permit, or refuses; nothing is told that was not tried.
LEMMA HelloIInv ==
    ASSUME SlotsAssumption, IInv, NEW s \in Streams, ReadHello(s) \/ HelloFails(s)
    PROVE  IInv'
<1> USE DEF IInv, Sides
<1>1. /\ PermitsComeBack' /\ permits' \in [Devices -> Nat]
      /\ task' \in [Sides -> [Streams -> TaskStates]]
      /\ task'["acceptor"][s] \in {"dial", "over"}
      /\ \A t \in Sides, x \in Streams : <<t, x>> # <<"acceptor", s>> => task'[t][x] = task[t][x]
  BY Takes, Moves DEF ReadHello, HelloFails, TaskStates, NotHolding
<1>2. ack' = ack \/ ack' = [ack EXCEPT ![s] = Rejected("general")]
  BY DEF ReadHello, HelloFails, setupVars
<1>3. /\ Rejected("general").accepted = FALSE /\ Rejected("general").rep = "general"
      /\ Rejected("general") \in [accepted : BOOLEAN, rep : Reps]
  BY RejectedReps DEF Failures
<1>4. task'["acceptor"][s] = "dial" => ack' = ack
  BY <1>1, Moves DEF ReadHello, HelloFails, TaskStates, NotHolding, setupVars
<1>5. UNCHANGED <<request, replies, attempts, flowVars>>
  BY DEF ReadHello, HelloFails, setupVars
<1>6. Shape'
  BY <1>1, <1>2, <1>3, <1>4, <1>5 DEF Shape, ReadHello, HelloFails, Named, setupVars, flowVars
<1>7. OrderOf(s)' /\ TruthOf(s)'
  BY <1>1, <1>2, <1>3, <1>4, <1>5 DEF Shape, OrderInv, TruthInv, OrderOf, TruthOf, Outcome, Told, ReadHello, HelloFails, Named, setupVars, flowVars
<1>8. \A x \in Streams \ {s} :
        /\ \A t \in {"opener", "acceptor"} : task'[t][x] = task[t][x]
        /\ ack'[x] = ack[x] /\ replies'[x] = replies[x] /\ attempts'[x] = attempts[x]
  BY <1>1, <1>2, <1>5 DEF Shape, ReadHello, HelloFails, Named, setupVars
<1>9. UNCHANGED flowVars
  BY <1>5
<1>10. QED
  BY <1>1, <1>6, <1>7, <1>8, <1>9, OneStreamMoves, FlowSame

LEMMA AttemptsAreMade == \A a \in Attempts : a # <<>>
<1>1. SUFFICES ASSUME NEW n \in 1 .. MaxAddresses,
                      NEW a \in [1 .. n -> ConnectErrors \cup {"connected"}]
               PROVE  a # <<>>
  BY DEF Attempts
<1>2. 1 \in 1 .. n
  OBVIOUS
<1>3. QED
  BY <1>2

\* The acceptor tells how its last connect ended, and if it tells anything else,
\* then that there was none.
LEMMA ConnectOutTells ==
    ASSUME Shape, TruthInv, NEW s \in Streams, ConnectOut(s)
    PROVE  /\ ack' = [x \in Streams |-> ack'[x]]
           /\ ack'[s] \in [accepted : BOOLEAN, rep : Reps]
           /\ \A x \in Streams \ {s} : ack'[x] = ack[x]
           /\ (Decodes(ack[s]) => Outcome(s, ack[s].rep))'
<1>1. ack[s] = NoAck /\ ack[s] \in [accepted : BOOLEAN, rep : Reps] /\ ~Decodes(NoAck)
  BY DEF Shape, TruthInv, TruthOf, ConnectOut, Decodes, NoAck, Failures
<1>2. CASE ack' = ack
  BY <1>1, <1>2 DEF Shape
<1>3. ASSUME NEW v, ack' = [ack EXCEPT ![s] = v]
      PROVE  /\ ack' = [x \in Streams |-> ack'[x]] /\ ack'[s] = v
             /\ \A x \in Streams \ {s} : ack'[x] = ack[x]
  BY <1>3 DEF Shape
<1>4. CASE ack' = [ack EXCEPT ![s] = Accepted] /\ Connected(attempts'[s])
  <2>1. /\ ack' = [x \in Streams |-> ack'[x]] /\ ack'[s] = Accepted
        /\ \A x \in Streams \ {s} : ack'[x] = ack[x]
    BY <1>4, <1>3
  <2>2. Outcome(s, Accepted.rep)'
    BY <1>4 DEF Outcome, Accepted, Named
  <2>3. Accepted \in [accepted : BOOLEAN, rep : Reps]
    BY DEF Accepted, Reps
  <2>4. QED
    BY <2>1, <2>2, <2>3, Zenon
<1>5. ASSUME NEW code, ack' = [ack EXCEPT ![s] = Rejected(code)],
             Rejected(code).rep \in Named =>
                 attempts'[s] # <<>> /\ ~Connected(attempts'[s]) /\ Last(attempts'[s]) = Rejected(code).rep
      PROVE  /\ ack' = [x \in Streams |-> ack'[x]]
             /\ ack'[s] \in [accepted : BOOLEAN, rep : Reps]
             /\ \A x \in Streams \ {s} : ack'[x] = ack[x]
             /\ (Decodes(ack[s]) => Outcome(s, ack[s].rep))'
  <2>1. /\ ack' = [x \in Streams |-> ack'[x]] /\ ack'[s] = Rejected(code)
        /\ \A x \in Streams \ {s} : ack'[x] = ack[x]
    BY <1>5, <1>3
  <2>2. Rejected(code).rep # "success" /\ Rejected(code) \in [accepted : BOOLEAN, rep : Reps]
    BY RejectedReps DEF Failures
  <2>3. Outcome(s, Rejected(code).rep)'
    BY <1>5, <2>2 DEF Outcome
  <2>4. QED
    BY <2>1, <2>2, <2>3, Zenon
<1>6. ASSUME NEW code \in ResolveFailures, Refuse(s, code)
      PROVE  ack' = [ack EXCEPT ![s] = Rejected(code)] /\ Rejected(code).rep \notin Named
  BY <1>6, RejectedReps DEF Refuse, ResolveFailures, Named, Failures
<1>7. ASSUME NEW a \in Attempts, attempts' = [attempts EXCEPT ![s] = a],
             IF Connected(a) THEN Acknowledge(s) ELSE Refuse(s, Rep(Last(a)))
      PROVE  \/ ack' = ack
             \/ ack' = [ack EXCEPT ![s] = Accepted] /\ Connected(attempts'[s])
             \/ /\ ack' = [ack EXCEPT ![s] = Rejected(Rep(Last(a)))]
                /\ Rejected(Rep(Last(a))).rep \in Named =>
                     /\ attempts'[s] # <<>> /\ ~Connected(attempts'[s])
                     /\ Last(attempts'[s]) = Rejected(Rep(Last(a))).rep
  <2>1. attempts'[s] = a
    BY <1>7 DEF Shape
  <2>2. CASE Connected(a)
    BY <1>7, <2>1, <2>2 DEF Acknowledge
  <2>3. CASE ~Connected(a)
    <3>1. a # <<>>
      BY AttemptsAreMade
    <3>2. \A e : Rejected(Rep(e)).rep \in Named => Rejected(Rep(e)).rep = e
      BY RejectedReps DEF Rep, Named, Failures
    <3>3. ack' = [ack EXCEPT ![s] = Rejected(Rep(Last(a)))]
      BY <1>7, <2>3 DEF Refuse
    <3>4. QED
      BY <2>1, <2>3, <3>1, <3>2, <3>3
  <2>4. QED
    BY <2>2, <2>3
<1>8. QED
  BY <1>2, <1>4, <1>5, <1>6, <1>7 DEF ConnectOut

\* The connect ends, and with it the setup of the acceptor's task or the task.
LEMMA ConnectOutIInv ==
    ASSUME SlotsAssumption, IInv, NEW s \in Streams, ConnectOut(s)
    PROVE  IInv'
<1> USE DEF IInv, Sides
<1>1. /\ PermitsComeBack' /\ permits' \in [Devices -> Nat]
      /\ task' \in [Sides -> [Streams -> TaskStates]]
      /\ task'["acceptor"][s] \in {"bridge", "over"}
      /\ \A t \in Sides, x \in Streams : <<t, x>> # <<"acceptor", s>> => task'[t][x] = task[t][x]
  BY Moves, Ends DEF ConnectOut, Acknowledge, Refuse, TaskStates, NotHolding
<1>2. task["acceptor"][s] = "dial" /\ UNCHANGED <<request, replies, flowVars>>
  BY DEF ConnectOut
<1>3. /\ attempts' = [x \in Streams |-> attempts'[x]]
      /\ \A x \in Streams \ {s} : attempts'[x] = attempts[x]
  BY DEF ConnectOut, Shape
<1>4. Shape'
  BY <1>1, <1>2, <1>3, ConnectOutTells DEF Shape, flowVars
<1>5. OrderOf(s)' /\ TruthOf(s)'
  <2>1. OrderOf(s)'
    BY <1>1, <1>2 DEF OrderInv, OrderOf
  <2>2. task["opener"][s] # "bridge" /\ \A rep \in Named \cup {"success"} : replies[s] # <<rep>>
    BY <1>2 DEF TruthInv, TruthOf, Told
  <2>3. (Decodes(ack[s]) => Outcome(s, ack[s].rep))'
    BY ConnectOutTells
  <2>4. QED
    BY <1>1, <1>2, <2>1, <2>2, <2>3 DEF TruthOf
<1>6. \A x \in Streams \ {s} :
        /\ \A t \in {"opener", "acceptor"} : task'[t][x] = task[t][x]
        /\ ack'[x] = ack[x] /\ replies'[x] = replies[x] /\ attempts'[x] = attempts[x]
  BY <1>1, <1>2, <1>3, ConnectOutTells
<1>7. UNCHANGED flowVars
  BY <1>2
<1>8. QED
  BY <1>1, <1>4, <1>5, <1>6, <1>7, OneStreamMoves, FlowSame

------------------------------------------------------------------------------
(* The bridge. *)

\* A step of one stream's data changes nothing else.
LEMMA DataMoves ==
    ASSUME IInv, UNCHANGED <<permits, task, setupVars>>, NEW s \in Streams,
           flow' \in [Streams -> [Directions -> FlowRecord]],
           copied' \in [Streams -> SUBSET Loops], fault' \in [Streams -> BOOLEAN],
           \A x \in Streams \ {s} :
               flow'[x] = flow[x] /\ copied'[x] = copied[x] /\ fault'[x] = fault[x],
           FlowOf(s)'
    PROVE  IInv'
<1>1. Shape' /\ OrderInv' /\ TruthInv'
  BY DEF IInv, Shape, OrderInv, OrderOf, TruthInv, TruthOf, Outcome, Told, setupVars
<1>2. PermitsComeBack'
  BY PermitsSame DEF IInv, Holds
<1>3. FlowInv'
  BY DEF IInv, FlowInv, FlowOf
<1>4. QED
  BY <1>1, <1>2, <1>3 DEF IInv

\* One direction of a stream moves.
LEMMA MoveTypes ==
    ASSUME Shape, NEW s \in Streams, NEW dir \in Directions, NEW f \in FlowRecord, Move(s, dir, f)
    PROVE  /\ flow' \in [Streams -> [Directions -> FlowRecord]]
           /\ flow'[s][dir] = f
           /\ \A d \in Directions \ {dir} : flow'[s][d] = flow[s][d]
           /\ \A x \in Streams \ {s} : flow'[x] = flow[x]
BY DEF Shape, Move

LEMMA LoopTypes ==
    ASSUME Shape, NEW s \in Streams, NEW dir \in Directions, NEW loop \in {"in", "out"},
           LoopEnds(s, dir, loop)
    PROVE  /\ copied' \in [Streams -> SUBSET Loops]
           /\ copied'[s] = copied[s] \cup {<<dir, loop>>}
           /\ \A x \in Streams \ {s} : copied'[x] = copied[x]
BY DEF Shape, LoopEnds, Loops

\* What a change of one field makes of a direction.
Changed(f, g, fields) ==
    /\ g \in FlowRecord
    /\ "sent" \notin fields => g.sent = f.sent
    /\ "shut" \notin fields => g.shut = f.shut
    /\ "mid" \notin fields => g.mid = f.mid
    /\ "fin" \notin fields => g.fin = f.fin
    /\ "got" \notin fields => g.got = f.got
    /\ "eof" \notin fields => g.eof = f.eof

LEMMA Changes ==
    ASSUME NEW f \in FlowRecord, NEW n \in Nat
    PROVE  /\ Changed(f, [f EXCEPT !.sent = n], {"sent"}) /\ [f EXCEPT !.sent = n].sent = n
           /\ Changed(f, [f EXCEPT !.shut = TRUE], {"shut"}) /\ [f EXCEPT !.shut = TRUE].shut = TRUE
           /\ Changed(f, [f EXCEPT !.mid = n], {"mid"}) /\ [f EXCEPT !.mid = n].mid = n
           /\ Changed(f, [f EXCEPT !.fin = TRUE], {"fin"}) /\ [f EXCEPT !.fin = TRUE].fin = TRUE
           /\ Changed(f, [f EXCEPT !.got = n], {"got"}) /\ [f EXCEPT !.got = n].got = n
           /\ Changed(f, [f EXCEPT !.eof = TRUE], {"eof"}) /\ [f EXCEPT !.eof = TRUE].eof = TRUE
<1>1. Changed(f, [f EXCEPT !.sent = n], {"sent"}) /\ [f EXCEPT !.sent = n].sent = n
  BY DEF FlowRecord, Changed
<1>2. Changed(f, [f EXCEPT !.shut = TRUE], {"shut"}) /\ [f EXCEPT !.shut = TRUE].shut = TRUE
  BY DEF FlowRecord, Changed
<1>3. Changed(f, [f EXCEPT !.mid = n], {"mid"}) /\ [f EXCEPT !.mid = n].mid = n
  BY DEF FlowRecord, Changed
<1>4. Changed(f, [f EXCEPT !.fin = TRUE], {"fin"}) /\ [f EXCEPT !.fin = TRUE].fin = TRUE
  BY DEF FlowRecord, Changed
<1>5. Changed(f, [f EXCEPT !.got = n], {"got"}) /\ [f EXCEPT !.got = n].got = n
  BY DEF FlowRecord, Changed
<1>6. Changed(f, [f EXCEPT !.eof = TRUE], {"eof"}) /\ [f EXCEPT !.eof = TRUE].eof = TRUE
  BY DEF FlowRecord, Changed
<1>7. QED
  BY <1>1, <1>2, <1>3, <1>4, <1>5, <1>6

\* The source writes more, or shuts down, only before its end has been passed on.
LEMMA SourceIInv ==
    ASSUME IInv, NEW s \in Streams, NEW dir \in Directions,
           SourceWrites(s, dir) \/ SourceShuts(s, dir)
    PROVE  IInv'
<1> DEFINE f == flow[s][dir]
<1>1. f \in FlowRecord /\ Shape /\ FlowOf(s)
  BY DEF IInv, Shape, FlowInv
<1>2. PICK g : Move(s, dir, g) /\ Changed(f, g, {"sent", "shut"}) /\ ~f.shut
  <2>1. CASE SourceWrites(s, dir)
    <3>1. f.sent + 1 \in Nat
      BY <1>1 DEF FlowRecord
    <3>2. Changed(f, [f EXCEPT !.sent = f.sent + 1], {"sent"})
      BY <1>1, <3>1, Changes
    <3>3. Changed(f, [f EXCEPT !.sent = f.sent + 1], {"sent", "shut"})
      BY <3>2 DEF Changed
    <3>4. Move(s, dir, [f EXCEPT !.sent = f.sent + 1]) /\ ~f.shut
      BY <2>1 DEF SourceWrites
    <3>5. QED
      BY <3>3, <3>4
  <2>2. CASE SourceShuts(s, dir)
    <3>1. Changed(f, [f EXCEPT !.shut = TRUE], {"shut"})
      BY <1>1, Changes
    <3>2. Changed(f, [f EXCEPT !.shut = TRUE], {"sent", "shut"})
      BY <3>1 DEF Changed
    <3>3. Move(s, dir, [f EXCEPT !.shut = TRUE]) /\ ~f.shut
      BY <2>2 DEF SourceShuts
    <3>4. QED
      BY <3>2, <3>3
  <2>3. QED
    BY <2>1, <2>2
<1>3. UNCHANGED <<permits, task, setupVars, copied, fault>>
  BY DEF SourceWrites, SourceShuts
<1> HIDE DEF f
<1>4. FlowOf(s)'
  BY <1>1, <1>2, <1>3, MoveTypes DEF FlowOf, FlowOK, Changed, f
<1>5. QED
  BY <1>1, <1>2, <1>3, <1>4, MoveTypes, DataMoves DEF Shape, Changed

\* The stream is finished when all that the source wrote is in it.
LEMMA CopyInIInv ==
    ASSUME IInv, NEW s \in Streams, NEW dir \in Directions, CopyIn(s, dir)
    PROVE  IInv'
<1> DEFINE f == flow[s][dir]
<1>1. f \in FlowRecord /\ Shape /\ FlowOf(s)
  BY DEF IInv, Shape, FlowInv
<1>2. PICK g :
        /\ Move(s, dir, g)
        /\ \/ f.mid < f.sent /\ Changed(f, g, {"mid"}) /\ UNCHANGED copied
           \/ f.mid = f.sent /\ f.shut /\ Changed(f, g, {"fin"}) /\ g.fin /\ LoopEnds(s, dir, "in")
  <2>1. f.mid + 1 \in Nat
    BY <1>1 DEF FlowRecord
  <2>2. /\ Changed(f, [f EXCEPT !.mid = f.mid + 1], {"mid"})
        /\ Changed(f, [f EXCEPT !.fin = TRUE], {"fin"}) /\ [f EXCEPT !.fin = TRUE].fin
    BY <1>1, <2>1, Changes
  <2>3. \/ /\ f.mid < f.sent /\ UNCHANGED copied
           /\ Move(s, dir, [f EXCEPT !.mid = f.mid + 1])
        \/ /\ f.mid = f.sent /\ f.shut /\ LoopEnds(s, dir, "in")
           /\ Move(s, dir, [f EXCEPT !.fin = TRUE])
    BY DEF CopyIn
  <2> HIDE DEF f
  <2>4. QED
    BY <2>2, <2>3
<1>3. UNCHANGED <<permits, task, setupVars, fault>>
  BY DEF CopyIn
<1>4. /\ copied' \in [Streams -> SUBSET Loops]
      /\ \A x \in Streams \ {s} : copied'[x] = copied[x]
      /\ \A d \in Directions : <<d, "out">> \in copied'[s] <=> <<d, "out">> \in copied[s]
  BY <1>1, <1>2, LoopTypes DEF Shape
<1> HIDE DEF f
<1>5. FlowOf(s)'
  <2>1. flow'[s][dir] = g /\ \A d \in Directions \ {dir} : flow'[s][d] = flow[s][d]
    BY <1>1, <1>2, MoveTypes DEF Changed
  <2>2. ASSUME ~fault[s]
        PROVE  /\ g.fin => g.shut /\ g.mid = g.sent
               /\ g.eof => g.fin /\ g.got = g.mid
               /\ f.eof => g.eof
    <3>1. (f.fin => f.shut /\ f.mid = f.sent) /\ (f.eof => f.fin /\ f.got = f.mid)
      BY <1>1, <2>2 DEF FlowOf, FlowOK, f
    <3>2. CASE f.mid < f.sent /\ Changed(f, g, {"mid"})
      <4>1. f.mid # f.sent
        BY <1>1, <3>2 DEF FlowRecord
      <4>2. g.fin = f.fin /\ g.eof = f.eof
        BY <3>2 DEF Changed
      <4>3. QED
        BY <3>1, <4>1, <4>2
    <3>3. CASE f.mid = f.sent /\ f.shut /\ Changed(f, g, {"fin"}) /\ g.fin
      BY <3>1, <3>3 DEF Changed
    <3>4. QED
      BY <1>2, <3>2, <3>3
  <2>3. QED
    BY <1>1, <1>3, <1>4, <2>1, <2>2 DEF FlowOf, FlowOK, f
<1>6. QED
  BY <1>1, <1>2, <1>3, <1>4, <1>5, MoveTypes, DataMoves DEF Shape, Changed

\* The end is passed on when all that is in the stream has been written.
LEMMA CopyOutIInv ==
    ASSUME IInv, NEW s \in Streams, NEW dir \in Directions, CopyOut(s, dir)
    PROVE  IInv'
<1> DEFINE f == flow[s][dir]
<1>1. f \in FlowRecord /\ Shape /\ FlowOf(s)
  BY DEF IInv, Shape, FlowInv
<1>2. PICK g :
        /\ Move(s, dir, g)
        /\ \/ f.got < f.mid /\ Changed(f, g, {"got"}) /\ UNCHANGED copied
           \/ f.got = f.mid /\ f.fin /\ Changed(f, g, {"eof"}) /\ g.eof /\ LoopEnds(s, dir, "out")
  <2>1. f.got + 1 \in Nat
    BY <1>1 DEF FlowRecord
  <2>2. /\ Changed(f, [f EXCEPT !.got = f.got + 1], {"got"})
        /\ Changed(f, [f EXCEPT !.eof = TRUE], {"eof"}) /\ [f EXCEPT !.eof = TRUE].eof
    BY <1>1, <2>1, Changes
  <2>3. \/ /\ f.got < f.mid /\ UNCHANGED copied
           /\ Move(s, dir, [f EXCEPT !.got = f.got + 1])
        \/ /\ f.got = f.mid /\ f.fin /\ LoopEnds(s, dir, "out")
           /\ Move(s, dir, [f EXCEPT !.eof = TRUE])
    BY DEF CopyOut
  <2> HIDE DEF f
  <2>4. QED
    BY <2>2, <2>3
<1>3. UNCHANGED <<permits, task, setupVars, fault>>
  BY DEF CopyOut
<1>4. /\ copied' \in [Streams -> SUBSET Loops]
      /\ \A x \in Streams \ {s} : copied'[x] = copied[x]
      /\ \A d \in Directions \ {dir} : <<d, "out">> \in copied'[s] <=> <<d, "out">> \in copied[s]
      /\ <<dir, "out">> \in copied'[s] => <<dir, "out">> \in copied[s] \/ g.eof
  BY <1>1, <1>2, LoopTypes DEF Shape
<1> HIDE DEF f
<1>5. FlowOf(s)'
  BY <1>1, <1>2, <1>3, <1>4, MoveTypes DEF FlowOf, FlowOK, FlowRecord, Changed, f
<1>6. QED
  BY <1>1, <1>2, <1>3, <1>4, <1>5, MoveTypes, DataMoves DEF Shape, Changed

\* A failure that truncates is a fault.
LEMMA FailureIInv ==
    ASSUME IInv, NEW s \in Streams,
           \/ \E side \in Sides : SocketFails(side, s)
           \/ \E dir \in Directions, loop \in {"in", "out"} : StreamFails(s, dir, loop)
    PROVE  IInv'
<1>1. Shape
  BY DEF IInv
<1>2. ASSUME NEW side \in Sides, SocketFails(side, s)
      PROVE  /\ flow' \in [Streams -> [Directions -> FlowRecord]]
             /\ copied' \in [Streams -> SUBSET Loops]
             /\ \A x \in Streams \ {s} : flow'[x] = flow[x] /\ copied'[x] = copied[x]
             /\ fault' = [fault EXCEPT ![s] = TRUE] /\ UNCHANGED <<permits, task, setupVars>>
  <2>1. LoopsOf(side) \subseteq Loops
    BY DEF LoopsOf, Loops, Directions
  <2>2. [dir \in Directions |-> [flow[s][dir] EXCEPT !.fin = @ \/ Reader(dir) = side,
                                                  !.eof = @ \/ Writer(dir) = side]]
            \in [Directions -> FlowRecord]
    <3>1. SUFFICES ASSUME NEW dir \in Directions, NEW a \in BOOLEAN, NEW b \in BOOLEAN
                   PROVE  [flow[s][dir] EXCEPT !.fin = @ \/ a, !.eof = @ \/ b] \in FlowRecord
      OBVIOUS
    <3>2. flow[s][dir] \in FlowRecord
      BY <1>1 DEF Shape
    <3>3. QED
      BY <3>2 DEF FlowRecord
  <2>3. QED
    BY <1>1, <1>2, <2>1, <2>2 DEF SocketFails, Shape
<1>3. ASSUME NEW dir \in Directions, NEW loop \in {"in", "out"}, StreamFails(s, dir, loop)
      PROVE  /\ flow' \in [Streams -> [Directions -> FlowRecord]]
             /\ copied' \in [Streams -> SUBSET Loops]
             /\ \A x \in Streams \ {s} : flow'[x] = flow[x] /\ copied'[x] = copied[x]
             /\ fault' = [fault EXCEPT ![s] = TRUE] /\ UNCHANGED <<permits, task, setupVars>>
  <2>1. PICK g \in FlowRecord : Move(s, dir, g)
    <3>1. flow[s][dir] \in FlowRecord
      BY <1>1 DEF Shape
    <3>2. [flow[s][dir] EXCEPT !.fin = TRUE] \in FlowRecord /\ [flow[s][dir] EXCEPT !.eof = TRUE] \in FlowRecord
      BY <3>1, Changes DEF Changed
    <3>3. QED
      BY <1>3, <3>2 DEF StreamFails
  <2>2. QED
    BY <1>1, <1>3, <2>1, MoveTypes, LoopTypes DEF StreamFails
<1>4. /\ flow' \in [Streams -> [Directions -> FlowRecord]]
      /\ copied' \in [Streams -> SUBSET Loops]
      /\ \A x \in Streams \ {s} : flow'[x] = flow[x] /\ copied'[x] = copied[x]
      /\ fault' = [fault EXCEPT ![s] = TRUE] /\ UNCHANGED <<permits, task, setupVars>>
  BY <1>2, <1>3
<1>5. /\ fault' \in [Streams -> BOOLEAN] /\ fault'[s]
      /\ \A x \in Streams \ {s} : fault'[x] = fault[x]
  BY <1>1, <1>4 DEF Shape
<1>6. FlowOf(s)'
  BY <1>5 DEF FlowOf
<1>7. QED
  BY <1>4, <1>5, <1>6, DataMoves

------------------------------------------------------------------------------
(* Tasks end together with their data. *)

\* A bridge that returns has passed on the end that its socket's application
\* would otherwise be the first to see.
LEMMA BridgeEndsIInv ==
    ASSUME SlotsAssumption, IInv, NEW s \in Streams, NEW side \in Sides, BridgeEnds(side, s)
    PROVE  IInv'
<1>0. Shape /\ FlowOf(s)
  BY DEF IInv, FlowInv
<1>1. /\ PermitsComeBack' /\ permits' \in [Devices -> Nat]
      /\ task' \in [Sides -> [Streams -> TaskStates]]
      /\ task'[side][s] = "over"
      /\ \A t \in Sides, x \in Streams : <<t, x>> # <<side, s>> => task'[t][x] = task[t][x]
  BY Ends DEF IInv, BridgeEnds, Bridging, Return, NotHolding
<1>2. task[side][s] = "bridge" /\ LoopsOf(side) \subseteq copied[s]
      /\ UNCHANGED <<link, setupVars, copied, fault>>
  BY DEF BridgeEnds, Bridging, Return
<1>3. /\ flow' \in [Streams -> [Directions -> FlowRecord]]
      /\ \A x \in Streams \ {s} : flow'[x] = flow[x]
      /\ \A dir \in Directions :
            flow'[s][dir] = [flow[s][dir] EXCEPT !.eof = @ \/ Writer(dir) = side]
  <2>1. [dir \in Directions |-> [flow[s][dir] EXCEPT !.eof = @ \/ Writer(dir) = side]]
            \in [Directions -> FlowRecord]
    <3>1. SUFFICES ASSUME NEW dir \in Directions, NEW b \in BOOLEAN
                   PROVE  [flow[s][dir] EXCEPT !.eof = @ \/ b] \in FlowRecord
      OBVIOUS
    <3>2. flow[s][dir] \in FlowRecord
      BY <1>0 DEF Shape
    <3>3. QED
      BY <3>2 DEF FlowRecord
  <2>2. QED
    BY <1>0, <2>1 DEF BridgeEnds, Return, Shape
<1>4. FlowOf(s)'
  <2>1. SUFFICES ASSUME NEW dir \in Directions, ~fault[s]
                 PROVE  FlowOK(flow'[s][dir], <<dir, "out">> \in copied[s])
    BY <1>2 DEF FlowOf
  <2>2. FlowOK(flow[s][dir], <<dir, "out">> \in copied[s]) /\ flow[s][dir] \in FlowRecord
    BY <1>0, <2>1 DEF FlowOf, Shape
  <2>3. Writer(dir) = side => <<dir, "out">> \in copied[s]
    BY <1>2 DEF LoopsOf
  <2>4. CASE flow[s][dir].eof
    <3>1. flow'[s][dir] = [flow[s][dir] EXCEPT !.eof = TRUE]
      BY <1>3, <2>4
    <3>2. [flow[s][dir] EXCEPT !.eof = TRUE] = flow[s][dir]
      BY <2>2, <2>4 DEF FlowRecord
    <3>3. QED
      BY <2>2, <3>1, <3>2
  <2>5. CASE ~flow[s][dir].eof
    <3>1. Writer(dir) # side
      BY <2>2, <2>3, <2>5 DEF FlowOK
    <3>2. flow'[s][dir] = [flow[s][dir] EXCEPT !.eof = FALSE]
      BY <1>3, <2>5, <3>1
    <3>3. [flow[s][dir] EXCEPT !.eof = FALSE] = flow[s][dir]
      BY <2>2, <2>5 DEF FlowRecord
    <3>4. QED
      BY <2>2, <3>2, <3>3
  <2>6. QED
    BY <2>4, <2>5
<1>5. FlowInv'
  BY <1>2, <1>3, <1>4 DEF IInv, FlowInv, FlowOf
<1>6. Shape'
  BY <1>1, <1>2, <1>3 DEF IInv, Shape, setupVars
<1>7. OrderOf(s)' /\ TruthOf(s)'
  BY <1>1, <1>2 DEF IInv, OrderInv, TruthInv, OrderOf, TruthOf, Outcome, Told, Sides, setupVars
<1>8. \A x \in Streams \ {s} :
        /\ \A t \in Sides : task'[t][x] = task[t][x]
        /\ ack'[x] = ack[x] /\ replies'[x] = replies[x] /\ attempts'[x] = attempts[x]
  BY <1>1, <1>2 DEF setupVars
<1>9. QED
  BY <1>1, <1>5, <1>6, <1>7, <1>8, OneStreamMoves DEF IInv

\* A slot that is forgotten is as new.
LEMMA ForgetIInv ==
    ASSUME IInv, NEW s \in Streams, Forget(s)
    PROVE  IInv'
<1>0. Shape
  BY DEF IInv
<1>1. /\ task' \in [Sides -> [Streams -> TaskStates]]
      /\ task'["opener"][s] = "free" /\ task'["acceptor"][s] = "free"
      /\ \A t \in Sides, x \in Streams : x # s => task'[t][x] = task[t][x]
  BY <1>0, ForgetTask DEF Forget
<1>2. task["opener"][s] = "over" /\ task["acceptor"][s] \in {"free", "over"}
  BY DEF Forget
<1>3. ASSUME NEW t \in Sides, NEW x \in Streams PROVE Holds(t, x)' <=> Holds(t, x)
  BY <1>1, <1>2 DEF Holds, Sides
<1>4. PermitsComeBack' /\ UNCHANGED permits
  BY <1>3, PermitsSame DEF IInv, Forget
<1>5. ack'[s] = NoAck /\ replies'[s] = <<>> /\ ~Decodes(NoAck)
  BY <1>0 DEF Shape, Forget, Decodes, NoAck, Failures
<1>6. \A rep : <<>> # <<rep>>
  OBVIOUS
<1>7. OrderOf(s)' /\ TruthOf(s)'
  BY <1>1, <1>5, <1>6 DEF OrderOf, TruthOf, Told, Sides
<1>8. \A x \in Streams \ {s} :
        /\ \A t \in Sides : task'[t][x] = task[t][x]
        /\ ack'[x] = ack[x] /\ replies'[x] = replies[x] /\ attempts'[x] = attempts[x]
  BY <1>0, <1>1 DEF Shape, Forget
<1>9. OrderInv' /\ TruthInv'
  BY <1>7, <1>8, OneStreamMoves DEF IInv
<1>10. NoFlow \in FlowRecord /\ FlowOK(NoFlow, FALSE)
  BY DEF NoFlow, FlowRecord, FlowOK
<1>11. /\ flow' \in [Streams -> [Directions -> FlowRecord]]
       /\ copied' \in [Streams -> SUBSET Loops] /\ fault' \in [Streams -> BOOLEAN]
       /\ \A x \in Streams \ {s} :
             flow'[x] = flow[x] /\ copied'[x] = copied[x] /\ fault'[x] = fault[x]
       /\ \A dir \in Directions : flow'[s][dir] = NoFlow
       /\ copied'[s] = {}
  BY <1>0, <1>10 DEF Shape, Forget
<1>12. FlowOf(s)'
  BY <1>10, <1>11 DEF FlowOf, FlowOK
<1>13. FlowInv'
  BY <1>11, <1>12 DEF IInv, FlowInv, FlowOf
<1>14. Shape'
  <2>1. ack' \in [Streams -> [accepted : BOOLEAN, rep : Reps]]
    BY <1>0 DEF Shape, Forget, NoAck, Reps
  <2>2. replies' = [x \in Streams |-> replies'[x]] /\ attempts' = [x \in Streams |-> attempts'[x]]
    BY <1>0 DEF Shape, Forget
  <2>3. QED
    BY <1>0, <1>1, <1>4, <1>11, <2>1, <2>2 DEF Shape
<1>15. QED
  BY <1>4, <1>9, <1>13, <1>14 DEF IInv

\* Tasks that are aborted give back their permits, and a bridge that is truncated
\* has a fault.
LEMMA AbortedIInv ==
    ASSUME SlotsAssumption, IInv, NEW side \in Sides, NEW streams \in SUBSET Streams,
           Aborted(side, streams)
    PROVE  IInv'
<1>0. Shape
  BY DEF IInv
<1>1. /\ task' \in [Sides -> [Streams -> TaskStates]]
      /\ \A x \in Streams : task'[side][x] =
           IF x \in streams /\ task[side][x] # "free" THEN "over" ELSE task[side][x]
      /\ \A t \in Sides \ {side}, x \in Streams : task'[t][x] = task[t][x]
  BY <1>0, AbortTask
<1>2. PermitsComeBack' /\ permits' \in [Devices -> Nat]
  BY <1>0, PermitsAborted DEF IInv
<1>3. UNCHANGED <<link, setupVars, copied>>
  BY DEF Aborted
<1>4. /\ fault' \in [Streams -> BOOLEAN]
      /\ \A x \in Streams : fault'[x] = (fault[x] \/ (x \in streams /\ task[side][x] = "bridge"))
  BY <1>0 DEF Shape, Aborted
<1>5. /\ flow' \in [Streams -> [Directions -> FlowRecord]]
      /\ \A x \in Streams, dir \in Directions : ~fault'[x] => flow'[x][dir] = flow[x][dir]
  <2>1. ASSUME NEW x \in Streams, NEW dir \in Directions, NEW b \in BOOLEAN
        PROVE  /\ [flow[x][dir] EXCEPT !.eof = @ \/ b] \in FlowRecord
               /\ ~b => [flow[x][dir] EXCEPT !.eof = @ \/ b] = flow[x][dir]
    <3>1. flow[x][dir] \in FlowRecord
      BY <1>0 DEF Shape
    <3>2. [flow[x][dir] EXCEPT !.eof = @ \/ b] \in FlowRecord
      BY <3>1 DEF FlowRecord
    <3>3. CASE b = FALSE
      BY <3>1, <3>2, <3>3 DEF FlowRecord
    <3>4. QED
      BY <3>2, <3>3
  <2>2. flow' = [x \in Streams |-> [dir \in Directions |->
                   [flow[x][dir] EXCEPT !.eof = @ \/
                       (x \in streams /\ task[side][x] = "bridge" /\ Writer(dir) = side)]]]
    BY DEF Aborted
  <2>3. QED
    BY <1>4, <2>1, <2>2
<1>6. FlowInv'
  BY <1>3, <1>4, <1>5 DEF IInv, FlowInv, FlowOf
<1>7. Shape'
  BY <1>0, <1>1, <1>2, <1>3, <1>4, <1>5 DEF Shape, setupVars
<1>8. ASSUME NEW x \in Streams PROVE OrderOf(x)' /\ TruthOf(x)'
  <2>1. OrderOf(x) /\ TruthOf(x)
    BY DEF IInv, OrderInv, TruthInv
  <2>2. \A t \in Sides : task'[t][x] = task[t][x] \/ (task'[t][x] = "over" /\ task[t][x] # "free")
    BY <1>1
  <2>3. UNCHANGED <<ack, replies, attempts>>
    BY <1>3 DEF setupVars
  <2>4. QED
    BY <2>1, <2>2, <2>3 DEF OrderOf, TruthOf, Outcome, Told, Sides
<1>9. QED
  BY <1>2, <1>6, <1>7, <1>8 DEF IInv, OrderInv, TruthInv

LEMMA StutterIInv ==
    ASSUME IInv, UNCHANGED <<permits, task, setupVars, flowVars>>
    PROVE  IInv'
<1>1. PermitsComeBack'
  BY PermitsSame DEF IInv, Holds
<1>2. Shape' /\ OrderInv' /\ TruthInv' /\ FlowInv'
  BY DEF IInv, Shape, OrderInv, OrderOf, TruthInv, TruthOf, Outcome, Told, FlowInv, FlowOf,
         setupVars, flowVars
<1>3. QED
  BY <1>1, <1>2 DEF IInv

------------------------------------------------------------------------------
(* The specification. *)

LEMMA InitIInv ==
    ASSUME SlotsAssumption, PermitsAssumption, Init
    PROVE  IInv
<1>1. NoFlow \in FlowRecord /\ FlowOK(NoFlow, FALSE)
  BY DEF NoFlow, FlowRecord, FlowOK
<1>2. ~Decodes(NoAck) /\ NoAck \in [accepted : BOOLEAN, rep : Reps] /\ \A rep : <<>> # <<rep>>
  BY DEF Decodes, NoAck, Reps, Failures
<1>3. Shape
  BY <1>1, <1>2 DEF Init, Shape, PermitsAssumption, TaskStates
<1>4. OrderInv
  BY DEF Init, OrderInv, OrderOf, Sides
<1>5. FlowInv
  BY <1>1 DEF Init, FlowInv, FlowOf, FlowOK
<1>6. TruthInv
  BY <1>2 DEF Init, TruthInv, TruthOf, Told, Sides
<1>7. PermitsComeBack
  <2>1. ASSUME NEW dev \in Devices PROVE Holders(dev) = {}
    BY DEF Init, Holders, Holds
  <2>2. ASSUME NEW dev \in Devices PROVE permits[dev] + Cardinality(Holders(dev)) = MaxStreams
    <3>1. Cardinality(Holders(dev)) = 0
      BY <2>1, FS_EmptySet
    <3>2. permits[dev] = MaxStreams /\ MaxStreams \in Nat
      BY DEF Init, PermitsAssumption
    <3>3. QED
      BY <3>1, <3>2
  <2>3. QED
    BY <2>2 DEF PermitsComeBack, Holders
<1>8. QED
  BY <1>3, <1>4, <1>5, <1>6, <1>7 DEF IInv

LEMMA NextIInv ==
    ASSUME SlotsAssumption, IInv, [Next]_vars
    PROVE  IInv'
<1>1. ASSUME NEW s \in Streams, Setup(s) PROVE IInv'
  BY <1>1, NegotiateIInv, OpenStreamIInv, SetupFailsIInv, ReadAckIInv, HelloIInv, ConnectOutIInv
  DEF Setup
<1>2. ASSUME NEW s \in Streams, Copy(s) PROVE IInv'
  BY <1>2, CopyInIInv, CopyOutIInv, FailureIInv, BridgeEndsIInv DEF Copy
<1>3. ASSUME NEW s \in Streams, Environment(s) PROVE IInv'
  BY <1>3, ClientArrivesIInv, SourceIInv, FailureIInv DEF Environment
<1>4. ASSUME NEW s \in Streams, Forget(s) PROVE IInv'
  BY <1>4, ForgetIInv
<1>5. ASSUME NEW side \in Sides, Abort(side) PROVE IInv'
  BY <1>5, AbortedIInv DEF Abort
<1>6. ASSUME NEW dev \in Devices, StopProxy(dev) PROVE IInv'
  <2>1. {s \in Streams : At("opener", s) = dev} \in SUBSET Streams /\ "opener" \in Sides
    BY DEF Sides
  <2>2. QED
    BY <1>6, <2>1, AbortedIInv DEF StopProxy
<1>7. CASE LinkCloses \/ UNCHANGED vars
  BY <1>7, StutterIInv DEF LinkCloses, vars, setupVars, flowVars
<1>8. QED
  BY <1>1, <1>2, <1>3, <1>4, <1>5, <1>6, <1>7 DEF Next

\* The inductive invariant holds, and what it implies.
THEOREM IInvHolds == ASSUME SlotsAssumption, PermitsAssumption PROVE Spec => []IInv
<1>1. Init => IInv
  BY InitIInv
<1>2. IInv /\ [Next]_vars => IInv'
  BY NextIInv
<1>3. QED
  BY <1>1, <1>2, PTL DEF Spec

\* An end of the data that was passed on without a fault is that of all of them.
LEMMA CutOffImplied ==
    ASSUME IInv
    PROVE  NothingIsCutOff
<1>1. SUFFICES ASSUME NEW s \in Streams, NEW dir \in Directions, flow[s][dir].eof, ~fault[s]
               PROVE  flow[s][dir].shut /\ flow[s][dir].got = flow[s][dir].sent
  BY DEF NothingIsCutOff
<1>2. QED
  BY <1>1 DEF IInv, FlowInv, FlowOf, FlowOK

\* What the client was told is how the acceptor's last connect ended.
LEMMA TruthImplied ==
    ASSUME IInv
    PROVE  ClientHearsTheTruth
<1>1. SUFFICES ASSUME NEW s \in Streams
               PROVE  /\ replies[s] = <<"success">> => Connected(attempts[s])
                      /\ task["opener"][s] = "bridge" => replies[s] = <<"success">>
                      /\ replies[s] \in {<<"refused">>, <<"netUnreachable">>} =>
                             /\ attempts[s] # <<>> /\ ~Connected(attempts[s])
                             /\ Last(attempts[s]) = replies[s][1]
  BY DEF ClientHearsTheTruth
<1>2. TruthOf(s)
  BY DEF IInv, TruthInv
<1>3. \A rep \in Named \cup {"success"} : replies[s] = <<rep>> => Outcome(s, rep) /\ replies[s][1] = rep
  BY <1>2 DEF TruthOf
<1>4. QED
  BY <1>2, <1>3 DEF TruthOf, Outcome, Named

\* The semaphores of both devices, for any number of streams: no permit is lost
\* or given back twice.
THEOREM PermitsAlwaysComeBack ==
    ASSUME SlotsAssumption, PermitsAssumption
    PROVE  Spec => []PermitsComeBack
<1>1. IInv => PermitsComeBack
  BY DEF IInv
<1>2. QED
  BY <1>1, IInvHolds, PTL

\* The bridge, for any amount of data.
THEOREM NothingIsEverCutOff ==
    ASSUME SlotsAssumption, PermitsAssumption
    PROVE  Spec => []NothingIsCutOff
<1>1. IInv => NothingIsCutOff
  BY CutOffImplied
<1>2. QED
  BY <1>1, IInvHolds, PTL

\* The replies, for any number of addresses.
THEOREM ClientAlwaysHearsTheTruth ==
    ASSUME SlotsAssumption, PermitsAssumption
    PROVE  Spec => []ClientHearsTheTruth
<1>1. IInv => ClientHearsTheTruth
  BY TruthImplied
<1>2. QED
  BY <1>1, IInvHolds, PTL

------------------------------------------------------------------------------
(* Every stream is a pipe. *)

\* What the pipe of a stream rests on beyond IInv: success is told when the opener
\* goes on to its bridge and no earlier; the acceptor has a target exactly when it
\* comes to its bridge; a unit is in the stream before it is delivered; and the
\* writer of a direction that has ended is through with it.
PipeOf(s) ==
    /\ task["opener"][s] \in {"free", "negotiate", "open", "ack"} => replies[s] # <<"success">>
    /\ task["acceptor"][s] \in {"free", "hello", "dial"} => ~Connected(attempts[s])
    /\ task["acceptor"][s] = "bridge" => Connected(attempts[s])
    /\ \A dir \in Directions :
         /\ flow[s][dir].mid <= flow[s][dir].sent
         /\ flow[s][dir].eof => <<dir, "out">> \in copied[s] \/ task[Writer(dir)][s] = "over"

PipeInv == \A s \in Streams : PipeOf(s)

PipeStep(s) == [Pipe(s)!Next]_(Pipe(s)!vars)

\* A stream that does not move is the pipe it was.
LEMMA PipeStill ==
    ASSUME NEW s, PipeOf(s),
           \A t \in Sides : task'[t][s] = task[t][s],
           replies'[s] = replies[s], attempts'[s] = attempts[s],
           flow'[s] = flow[s], copied'[s] = copied[s], fault'[s] = fault[s]
    PROVE  PipeOf(s)' /\ PipeStep(s)
<1>1. PipeOf(s)'
  BY DEF PipeOf, Sides, Writer
<1>2. ClientOf(s)' = ClientOf(s) /\ DataOf(s)' = DataOf(s)
  BY DEF ClientOf, DataOf, Sides
<1>3. QED
  BY <1>1, <1>2 DEF PipeStep, Pipe!vars

\* One stream moves, the others do not.
LEMMA OnePipeMoves ==
    ASSUME PipeInv, NEW s \in Streams, PipeOf(s)' /\ PipeStep(s),
           \A x \in Streams \ {s} :
               /\ \A t \in Sides : task'[t][x] = task[t][x]
               /\ replies'[x] = replies[x] /\ attempts'[x] = attempts[x]
               /\ flow'[x] = flow[x] /\ copied'[x] = copied[x] /\ fault'[x] = fault[x]
    PROVE  PipeInv' /\ \A x \in Streams : PipeStep(x)
<1>1. ASSUME NEW x \in Streams \ {s} PROVE PipeOf(x)' /\ PipeStep(x)
  BY <1>1, PipeStill DEF PipeInv
<1>2. QED
  BY <1>1 DEF PipeInv

\* A step of a setup moves no data: what is left is what the client and the target
\* learn from it.
LEMMA SetupPipe ==
    ASSUME IInv, PipeInv, NEW s \in Streams, UNCHANGED flowVars,
           task' \in [Sides -> [Streams -> TaskStates]],
           \A t \in Sides : task[t][s] # "over" \/ task'[t][s] = "over",
           \A x \in Streams \ {s} :
               /\ \A t \in Sides : task'[t][x] = task[t][x]
               /\ replies'[x] = replies[x] /\ attempts'[x] = attempts[x],
           task'["opener"][s] \in {"free", "negotiate", "open", "ack"} => replies'[s] # <<"success">>,
           task'["acceptor"][s] \in {"free", "hello", "dial"} => ~Connected(attempts'[s]),
           task'["acceptor"][s] = "bridge" => Connected(attempts'[s]),
           \/ ClientOf(s)' = ClientOf(s) /\ Connected(attempts[s])' = Connected(attempts[s])
           \/ Connected(attempts[s])' = Connected(attempts[s]) /\ ClientOf(s) = "idle" /\ ClientOf(s)' = "asking"
           \/ Connected(attempts[s])' = Connected(attempts[s]) /\ ClientOf(s) = "asking" /\ ClientOf(s)' = "refused"
           \/ /\ Connected(attempts[s])' = Connected(attempts[s]) /\ Connected(attempts[s])
              /\ ClientOf(s) = "asking" /\ ClientOf(s)' = "connected"
           \/ /\ ClientOf(s)' = ClientOf(s) /\ ClientOf(s) # "idle"
              /\ Connected(attempts[s]) = FALSE /\ Connected(attempts[s])' = TRUE
    PROVE  PipeInv' /\ \A x \in Streams : PipeStep(x)
<1>1. DataOf(s)' = DataOf(s) /\ fault'[s] = fault[s]
  BY DEF DataOf, flowVars
<1>2. PipeStep(s)
  BY <1>1 DEF PipeStep, Pipe!vars, Pipe!Next, Pipe!Ask, Pipe!Refuse, Pipe!Tell, Pipe!Reach
<1>3. PipeOf(s)'
  <2>1. ASSUME NEW dir \in Directions PROVE Writer(dir) \in Sides
    BY DEF Writer, Sides
  <2>2. PipeOf(s)
    BY DEF PipeInv
  <2>3. QED
    BY <2>1, <2>2 DEF PipeOf, flowVars
<1>4. UNCHANGED <<flow, copied, fault>>
  BY DEF flowVars
<1>5. QED
  BY <1>2, <1>3, <1>4, OnePipeMoves

\* The client asks, is refused or told; the target is reached.
LEMMA ClientPipe ==
    ASSUME IInv, PipeInv, NEW s \in Streams,
           (\E r \in Requests : ClientArrives(s, r)) \/ Negotiate(s) \/ SetupFails(s) \/ ReadAck(s)
    PROVE  PipeInv' /\ \A x \in Streams : PipeStep(x)
<1>1. Shape /\ TruthOf(s) /\ PipeOf(s) /\ OrderOf(s)
  BY DEF IInv, TruthInv, PipeInv, OrderInv
<1>2. PICK pc \in TaskStates \ {"free"} :
        /\ Go("opener", s, pc)
        /\ task["opener"][s] \in {"free", "negotiate", "open", "ack"}
        /\ \/ task["opener"][s] = "free" /\ pc = "negotiate" /\ replies' = replies
           \/ task["opener"][s] = "negotiate" /\ pc = "open" /\ replies' = replies
           \/ task["opener"][s] # "free" /\ pc = "over" /\ \E r : replies' = [replies EXCEPT ![s] = LocalReplies(r)]
           \/ task["opener"][s] # "free" /\ pc = "over" /\ replies' = [replies EXCEPT ![s] = <<"general">>]
           \/ /\ task["opener"][s] = "ack" /\ Decodes(ack[s]) /\ ack[s].accepted
              /\ pc = "bridge" /\ replies' = [replies EXCEPT ![s] = <<ack[s].rep>>]
           \/ /\ task["opener"][s] = "ack" /\ Decodes(ack[s]) /\ ~ack[s].accepted
              /\ pc = "over" /\ replies' = [replies EXCEPT ![s] = <<ack[s].rep>>]
  BY DEF ClientArrives, Negotiate, SetupFails, ReadAck, End, TaskStates
<1>3. UNCHANGED <<attempts, flowVars>>
  BY DEF ClientArrives, Negotiate, SetupFails, ReadAck
<1>4. /\ task' \in [Sides -> [Streams -> TaskStates]]
      /\ task'["opener"][s] = pc
      /\ \A t \in Sides, x \in Streams : <<t, x>> # <<"opener", s>> => task'[t][x] = task[t][x]
  BY <1>1, <1>2, GoTask DEF Sides
<1>5. \A x \in Streams \ {s} : replies'[x] = replies[x]
  BY <1>1, <1>2 DEF Shape
<1>6. /\ pc \in {"negotiate", "open"} => replies'[s] = replies[s]
      /\ pc = "over" => replies'[s] # <<"success">>
      /\ pc = "bridge" => replies'[s] = <<"success">> /\ Connected(attempts[s])
  <2>1. CASE replies' = replies /\ pc \in {"negotiate", "open"}
    BY <2>1
  <2>2. ASSUME NEW r, pc = "over", replies' = [replies EXCEPT ![s] = LocalReplies(r)]
        PROVE  replies'[s] # <<"success">>
    BY <1>1, <2>2, OwnReplies DEF Shape
  <2>3. CASE pc = "over" /\ replies' = [replies EXCEPT ![s] = <<"general">>]
    BY <1>1, <2>3, OwnReplies DEF Shape
  <2>4. CASE Decodes(ack[s]) /\ ack[s].accepted /\ pc = "bridge" /\ replies' = [replies EXCEPT ![s] = <<ack[s].rep>>]
    <3>1. ack[s].rep = "success"
      BY <2>4 DEF Decodes
    <3>2. Connected(attempts[s])
      BY <1>1, <2>4, <3>1 DEF TruthOf, Outcome
    <3>3. QED
      BY <1>1, <2>4, <3>1, <3>2 DEF Shape
  <2>5. CASE Decodes(ack[s]) /\ ~ack[s].accepted /\ pc = "over" /\ replies' = [replies EXCEPT ![s] = <<ack[s].rep>>]
    <3>1. ack[s].rep \in Failures
      BY <2>5 DEF Decodes
    <3>2. ack[s].rep # "success"
      BY <3>1 DEF Failures
    <3>3. QED
      BY <1>1, <2>5, <3>2 DEF Shape
  <2>6. QED
    BY <1>2, <2>1, <2>2, <2>3, <2>4, <2>5
<1>7. pc \in {"negotiate", "open", "over", "bridge"} /\ (pc = "negotiate" <=> task["opener"][s] = "free")
  BY <1>2
<1>8. replies[s] # <<"success">>
  BY <1>1, <1>2 DEF PipeOf
<1>9. \/ ClientOf(s)' = ClientOf(s)
      \/ ClientOf(s) = "idle" /\ ClientOf(s)' = "asking"
      \/ ClientOf(s) = "asking" /\ ClientOf(s)' = "refused"
      \/ Connected(attempts[s]) /\ ClientOf(s) = "asking" /\ ClientOf(s)' = "connected"
  BY <1>2, <1>4, <1>6, <1>7, <1>8 DEF ClientOf
<1>10. task'["acceptor"][s] = task["acceptor"][s]
  BY <1>4 DEF Sides
<1>11. \A t \in Sides : task[t][s] # "over" \/ task'[t][s] = "over"
  BY <1>2, <1>4, <1>10 DEF Sides
<1>12. \A x \in Streams \ {s} :
         /\ \A t \in Sides : task'[t][x] = task[t][x]
         /\ replies'[x] = replies[x] /\ attempts'[x] = attempts[x]
  BY <1>3, <1>4, <1>5
<1>13. /\ task'["opener"][s] \in {"free", "negotiate", "open", "ack"} => replies'[s] # <<"success">>
       /\ task'["acceptor"][s] \in {"free", "hello", "dial"} => ~Connected(attempts'[s])
       /\ task'["acceptor"][s] = "bridge" => Connected(attempts'[s])
  BY <1>1, <1>3, <1>4, <1>6, <1>7, <1>8, <1>10 DEF PipeOf
<1>14. Connected(attempts[s])' = Connected(attempts[s])
  BY <1>3
<1>15. QED
  BY <1>3, <1>4, <1>9, <1>11, <1>12, <1>13, <1>14, SetupPipe

\* The acceptor's task comes to its stream: its client and target notice nothing.
LEMMA HelloPipe ==
    ASSUME IInv, PipeInv, NEW s \in Streams, OpenStream(s) \/ ReadHello(s) \/ HelloFails(s)
    PROVE  PipeInv' /\ \A x \in Streams : PipeStep(x)
<1>1. Shape /\ PipeOf(s) /\ OrderOf(s)
  BY DEF IInv, PipeInv, OrderInv
<1>2. UNCHANGED <<replies, attempts, flowVars>>
  BY DEF OpenStream, ReadHello, HelloFails, setupVars
<1>3. CASE OpenStream(s)
  <2>1. /\ task' \in [Sides -> [Streams -> TaskStates]]
        /\ task'["opener"][s] = "ack" /\ task'["acceptor"][s] = "hello"
        /\ \A t \in Sides, x \in Streams : x # s => task'[t][x] = task[t][x]
    BY <1>1, <1>3, OpenTask DEF OpenStream
  <2>2. task["opener"][s] = "open" /\ task["acceptor"][s] = "free"
    BY <1>1, <1>3 DEF OpenStream, OrderOf
  <2>3. ClientOf(s)' = ClientOf(s)
    BY <1>2, <2>1, <2>2 DEF ClientOf
  <2>4. \A t \in Sides : task[t][s] # "over" \/ task'[t][s] = "over"
    BY <2>2 DEF Sides
  <2>5. /\ task'["opener"][s] \in {"free", "negotiate", "open", "ack"} => replies'[s] # <<"success">>
        /\ task'["acceptor"][s] \in {"free", "hello", "dial"} => ~Connected(attempts'[s])
        /\ task'["acceptor"][s] = "bridge" => Connected(attempts'[s])
    BY <1>1, <1>2, <2>1, <2>2 DEF PipeOf
  <2>6. \A x \in Streams \ {s} :
          /\ \A t \in Sides : task'[t][x] = task[t][x]
          /\ replies'[x] = replies[x] /\ attempts'[x] = attempts[x]
    BY <1>2, <2>1
  <2>7. Connected(attempts[s])' = Connected(attempts[s])
    BY <1>2
  <2>8. QED
    BY <1>2, <2>1, <2>3, <2>4, <2>5, <2>6, <2>7, SetupPipe
<1>4. CASE ReadHello(s) \/ HelloFails(s)
  <2>1. PICK pc \in {"dial", "over"} : Go("acceptor", s, pc) /\ task["acceptor"][s] = "hello"
    BY <1>4 DEF ReadHello, HelloFails
  <2>2. /\ task' \in [Sides -> [Streams -> TaskStates]]
        /\ task'["acceptor"][s] = pc
        /\ \A t \in Sides, x \in Streams : <<t, x>> # <<"acceptor", s>> => task'[t][x] = task[t][x]
    BY <1>1, <2>1, GoTask DEF Sides, TaskStates
  <2>3. task'["opener"][s] = task["opener"][s]
    BY <2>2 DEF Sides
  <2>4. ClientOf(s)' = ClientOf(s)
    BY <1>2, <2>3 DEF ClientOf
  <2>5. \A t \in Sides : task[t][s] # "over" \/ task'[t][s] = "over"
    BY <2>1, <2>3 DEF Sides
  <2>6. /\ task'["opener"][s] \in {"free", "negotiate", "open", "ack"} => replies'[s] # <<"success">>
        /\ task'["acceptor"][s] \in {"free", "hello", "dial"} => ~Connected(attempts'[s])
        /\ task'["acceptor"][s] = "bridge" => Connected(attempts'[s])
    BY <1>1, <1>2, <2>1, <2>2, <2>3 DEF PipeOf
  <2>7. \A x \in Streams \ {s} :
          /\ \A t \in Sides : task'[t][x] = task[t][x]
          /\ replies'[x] = replies[x] /\ attempts'[x] = attempts[x]
    BY <1>2, <2>2
  <2>8. Connected(attempts[s])' = Connected(attempts[s])
    BY <1>2
  <2>9. QED
    BY <1>2, <2>2, <2>4, <2>5, <2>6, <2>7, <2>8, SetupPipe
<1>5. QED
  BY <1>3, <1>4

\* The target is reached exactly when a connect succeeds.
LEMMA ConnectOutPipe ==
    ASSUME IInv, PipeInv, NEW s \in Streams, ConnectOut(s)
    PROVE  PipeInv' /\ \A x \in Streams : PipeStep(x)
<1>1. Shape /\ PipeOf(s) /\ OrderOf(s)
  BY DEF IInv, PipeInv, OrderInv
<1>2. task["acceptor"][s] = "dial" /\ UNCHANGED <<request, replies, flowVars>>
  BY DEF ConnectOut
<1>3. ~Connected(attempts[s]) /\ task["opener"][s] # "free"
  BY <1>1, <1>2 DEF PipeOf, OrderOf
<1>4. PICK pc \in {"bridge", "over"} : Go("acceptor", s, pc) /\ (pc = "bridge" => Connected(attempts'[s]))
  <2>1. CASE \E rep \in ResolveFailures : Refuse(s, rep)
    BY <2>1 DEF Refuse, End
  <2>2. ASSUME NEW a \in Attempts, attempts' = [attempts EXCEPT ![s] = a],
               IF Connected(a) THEN Acknowledge(s) ELSE Refuse(s, Rep(Last(a)))
        PROVE  \E pc \in {"bridge", "over"} :
                  Go("acceptor", s, pc) /\ (pc = "bridge" => Connected(attempts'[s]))
    <3>1. attempts'[s] = a
      BY <1>1, <2>2 DEF Shape
    <3>2. CASE Connected(a)
      BY <2>2, <3>1, <3>2 DEF Acknowledge, End
    <3>3. CASE ~Connected(a)
      BY <2>2, <3>3 DEF Refuse, End
    <3>4. QED
      BY <3>2, <3>3
  <2>3. QED
    BY <2>1, <2>2 DEF ConnectOut
<1>5. /\ task' \in [Sides -> [Streams -> TaskStates]]
      /\ task'["acceptor"][s] = pc
      /\ \A t \in Sides, x \in Streams : <<t, x>> # <<"acceptor", s>> => task'[t][x] = task[t][x]
  BY <1>1, <1>4, GoTask DEF Sides, TaskStates
<1>6. task'["opener"][s] = task["opener"][s]
  BY <1>5 DEF Sides
<1>7. ClientOf(s)' = ClientOf(s) /\ ClientOf(s) # "idle"
  BY <1>2, <1>3, <1>6 DEF ClientOf
<1>8. \A t \in Sides : task[t][s] # "over" \/ task'[t][s] = "over"
  BY <1>2, <1>6 DEF Sides
<1>9. \A x \in Streams \ {s} : attempts'[x] = attempts[x]
  BY <1>1 DEF ConnectOut, Shape
<1>10. \A x \in Streams \ {s} :
         /\ \A t \in Sides : task'[t][x] = task[t][x]
         /\ replies'[x] = replies[x] /\ attempts'[x] = attempts[x]
  BY <1>2, <1>5, <1>9
<1>11. /\ task'["opener"][s] \in {"free", "negotiate", "open", "ack"} => replies'[s] # <<"success">>
       /\ task'["acceptor"][s] \in {"free", "hello", "dial"} => ~Connected(attempts'[s])
       /\ task'["acceptor"][s] = "bridge" => Connected(attempts'[s])
  BY <1>1, <1>2, <1>4, <1>5, <1>6 DEF PipeOf
<1>12. Connected(attempts[s])' = Connected(attempts[s]) \/ Connected(attempts[s])' = TRUE
  BY <1>3 DEF Connected
<1>13. Connected(attempts[s]) = FALSE
  BY <1>3 DEF Connected
<1>14. QED
  BY <1>2, <1>5, <1>7, <1>8, <1>10, <1>11, <1>12, <1>13, SetupPipe

\* A bridge has its application: the client was told, the target is there.
LEMMA BridgeOpen ==
    ASSUME TruthInv, PipeInv, NEW s \in Streams, NEW dir \in Directions
    PROVE  /\ Bridging(Reader(dir), s) => Pipe(s)!SourceOpen(dir)
           /\ Bridging(Writer(dir), s) => Pipe(s)!SinkOpen(dir)
           /\ \A side \in Sides : Bridging(side, s) => ClientOf(s) = "connected" \/ Connected(attempts[s])
<1>1. task["opener"][s] = "bridge" => ClientOf(s) = "connected"
  BY DEF TruthInv, TruthOf, ClientOf
<1>2. task["acceptor"][s] = "bridge" => Connected(attempts[s])
  BY DEF PipeInv, PipeOf
<1>3. QED
  BY <1>1, <1>2 DEF Bridging, Reader, Writer, Directions, Sides, Pipe!SourceOpen, Pipe!SinkOpen

\* What the two applications see of a direction.
LEMMA DataAt ==
    ASSUME NEW s, NEW dir \in Directions
    PROVE  /\ DataOf(s)[dir] = [sent |-> flow[s][dir].sent, shut |-> flow[s][dir].shut,
                                got |-> flow[s][dir].got, eof |-> flow[s][dir].eof]
           /\ DataOf(s)[dir].sent = flow[s][dir].sent /\ DataOf(s)[dir].shut = flow[s][dir].shut
           /\ DataOf(s)[dir].got = flow[s][dir].got /\ DataOf(s)[dir].eof = flow[s][dir].eof
BY DEF DataOf

\* A change of one of the things they see.
LEMMA DataChanges ==
    ASSUME NEW s, NEW dir \in Directions
    PROVE  /\ [DataOf(s) EXCEPT ![dir].sent = @ + 1] =
                [DataOf(s) EXCEPT ![dir] = [sent |-> flow[s][dir].sent + 1, shut |-> flow[s][dir].shut,
                                            got |-> flow[s][dir].got, eof |-> flow[s][dir].eof]]
           /\ [DataOf(s) EXCEPT ![dir].got = @ + 1] =
                [DataOf(s) EXCEPT ![dir] = [sent |-> flow[s][dir].sent, shut |-> flow[s][dir].shut,
                                            got |-> flow[s][dir].got + 1, eof |-> flow[s][dir].eof]]
           /\ [DataOf(s) EXCEPT ![dir].shut = TRUE] =
                [DataOf(s) EXCEPT ![dir] = [sent |-> flow[s][dir].sent, shut |-> TRUE,
                                            got |-> flow[s][dir].got, eof |-> flow[s][dir].eof]]
           /\ [DataOf(s) EXCEPT ![dir].eof = TRUE] =
                [DataOf(s) EXCEPT ![dir] = [sent |-> flow[s][dir].sent, shut |-> flow[s][dir].shut,
                                            got |-> flow[s][dir].got, eof |-> TRUE]]
<1> DEFINE D == DataOf(s)
           a == flow[s][dir].sent
           b == flow[s][dir].shut
           c == flow[s][dir].got
           e == flow[s][dir].eof
<1>1. D[dir] = [sent |-> a, shut |-> b, got |-> c, eof |-> e]
  BY DataAt
<1> HIDE DEF D, a, b, c, e
<1>2. /\ [D[dir] EXCEPT !.sent = @ + 1] = [sent |-> a + 1, shut |-> b, got |-> c, eof |-> e]
      /\ [D[dir] EXCEPT !.got = @ + 1] = [sent |-> a, shut |-> b, got |-> c + 1, eof |-> e]
  BY <1>1
<1>3. ASSUME NEW v
      PROVE  /\ [D[dir] EXCEPT !.shut = v] = [sent |-> a, shut |-> v, got |-> c, eof |-> e]
             /\ [D[dir] EXCEPT !.eof = v] = [sent |-> a, shut |-> b, got |-> c, eof |-> v]
  BY <1>1
<1> DEFINE yes == TRUE
<1> HIDE DEF yes
<1>4. /\ [D[dir] EXCEPT !.shut = yes] = [sent |-> a, shut |-> yes, got |-> c, eof |-> e]
      /\ [D[dir] EXCEPT !.eof = yes] = [sent |-> a, shut |-> b, got |-> c, eof |-> yes]
  BY <1>3, Zenon
<1>5. /\ [D EXCEPT ![dir].sent = @ + 1] = [D EXCEPT ![dir] = [sent |-> a + 1, shut |-> b, got |-> c, eof |-> e]]
      /\ [D EXCEPT ![dir].got = @ + 1] = [D EXCEPT ![dir] = [sent |-> a, shut |-> b, got |-> c + 1, eof |-> e]]
      /\ [D EXCEPT ![dir].shut = yes] = [D EXCEPT ![dir] = [sent |-> a, shut |-> yes, got |-> c, eof |-> e]]
      /\ [D EXCEPT ![dir].eof = yes] = [D EXCEPT ![dir] = [sent |-> a, shut |-> b, got |-> c, eof |-> yes]]
  BY <1>2, <1>4
<1>6. QED
  BY <1>5 DEF D, a, b, c, e, yes

\* One direction moves, and with it the pipe.
LEMMA DataPipe ==
    ASSUME IInv, PipeInv, NEW s \in Streams, NEW dir \in Directions, NEW g \in FlowRecord,
           Move(s, dir, g), UNCHANGED <<task, setupVars>>,
           copied' \in [Streams -> SUBSET Loops], copied[s] \subseteq copied'[s],
           fault' \in [Streams -> BOOLEAN],
           \A x \in Streams \ {s} : copied'[x] = copied[x] /\ fault'[x] = fault[x],
           g.mid <= g.sent, g.eof => flow[s][dir].eof \/ <<dir, "out">> \in copied'[s],
           PipeStep(s)
    PROVE  PipeInv' /\ \A x \in Streams : PipeStep(x)
<1>1. /\ flow'[s][dir] = g
      /\ \A d \in Directions \ {dir} : flow'[s][d] = flow[s][d]
      /\ \A x \in Streams \ {s} : flow'[x] = flow[x]
  BY MoveTypes DEF IInv
<1>2. PipeOf(s)'
  <2>1. PipeOf(s)
    BY DEF PipeInv
  <2>2. ASSUME NEW d \in Directions
        PROVE  /\ flow'[s][d].mid <= flow'[s][d].sent
               /\ flow'[s][d].eof => <<d, "out">> \in copied'[s] \/ task'[Writer(d)][s] = "over"
    BY <1>1, <2>1 DEF PipeOf
  <2>3. QED
    BY <2>1, <2>2 DEF PipeOf, setupVars
<1>3. QED
  BY <1>1, <1>2, OnePipeMoves DEF setupVars

\* The step of the pipe, in terms of the direction that moves.
LEMMA DataStep ==
    ASSUME IInv, NEW s \in Streams, NEW dir \in Directions, NEW g \in FlowRecord,
           Move(s, dir, g), UNCHANGED <<task, setupVars>>
    PROVE  /\ ClientOf(s)' = ClientOf(s) /\ Connected(attempts[s])' = Connected(attempts[s])
           /\ DataOf(s)' = [DataOf(s) EXCEPT ![dir] =
                                [sent |-> g.sent, shut |-> g.shut, got |-> g.got, eof |-> g.eof]]
<1>1. ClientOf(s)' = ClientOf(s) /\ Connected(attempts[s])' = Connected(attempts[s])
  BY DEF ClientOf, setupVars
<1>2. flow'[s][dir] = g /\ \A d \in Directions \ {dir} : flow'[s][d] = flow[s][d]
  BY MoveTypes DEF IInv
<1>3. DataOf(s)' = [DataOf(s) EXCEPT ![dir] =
                       [sent |-> g.sent, shut |-> g.shut, got |-> g.got, eof |-> g.eof]]
  BY <1>2 DEF DataOf
<1>4. QED
  BY <1>1, <1>3

\* What the applications write.
LEMMA SourcePipe ==
    ASSUME IInv, PipeInv, NEW s \in Streams, NEW dir \in Directions,
           SourceWrites(s, dir) \/ SourceShuts(s, dir)
    PROVE  PipeInv' /\ \A x \in Streams : PipeStep(x)
<1> DEFINE f == flow[s][dir]
<1>1. f \in FlowRecord /\ Shape /\ PipeOf(s) /\ TruthInv
  BY DEF IInv, Shape, PipeInv
<1>2. UNCHANGED <<permits, task, setupVars, copied, fault>> /\ Pipe(s)!SourceOpen(dir) /\ ~f.shut
  BY <1>1, BridgeOpen DEF SourceWrites, SourceShuts
<1>3. f.mid <= f.sent
  BY <1>1 DEF PipeOf
<1>4. CASE SourceWrites(s, dir)
  <2> DEFINE g == [f EXCEPT !.sent = f.sent + 1]
  <2>1. f.sent + 1 \in Nat /\ f.mid \in Nat /\ f.sent \in Nat
    BY <1>1 DEF FlowRecord
  <2>2. g \in FlowRecord /\ g.sent = f.sent + 1 /\ g.shut = f.shut /\ g.mid = f.mid /\ g.got = f.got /\ g.eof = f.eof
    BY <1>1, <2>1, Changes DEF Changed
  <2>3. Move(s, dir, g)
    BY <1>4 DEF SourceWrites
  <2> HIDE DEF g
  <2>4. /\ ClientOf(s)' = ClientOf(s) /\ Connected(attempts[s])' = Connected(attempts[s])
        /\ DataOf(s)' = [DataOf(s) EXCEPT ![dir] =
                             [sent |-> f.sent + 1, shut |-> f.shut, got |-> f.got, eof |-> f.eof]]
    BY <1>2, <2>2, <2>3, DataStep
  <2>5. DataOf(s)' = [DataOf(s) EXCEPT ![dir].sent = @ + 1]
    BY <2>4, DataChanges
  <2>6. Pipe(s)!Write(dir)
    <3>1. ~DataOf(s)[dir].shut
      BY <1>2, DataAt, Zenon
    <3>2. fault'[s] = fault[s]
      BY <1>2
    <3>3. QED
      BY <1>2, <2>4, <2>5, <3>1, <3>2, Zenon DEF Pipe!Write
  <2>7. PipeStep(s)
    BY <2>6 DEF PipeStep, Pipe!Next, Pipe!Directions, Directions
  <2>8. g.mid <= g.sent
    BY <1>3, <2>1, <2>2
  <2>9. QED
    BY <1>1, <1>2, <2>2, <2>3, <2>7, <2>8, DataPipe DEF Shape
<1>5. CASE SourceShuts(s, dir)
  <2> DEFINE g == [f EXCEPT !.shut = TRUE]
  <2>1. g \in FlowRecord /\ g.sent = f.sent /\ g.shut = TRUE /\ g.mid = f.mid /\ g.got = f.got /\ g.eof = f.eof
    BY <1>1, Changes DEF Changed
  <2>2. Move(s, dir, g)
    BY <1>5 DEF SourceShuts
  <2> HIDE DEF g
  <2>3. /\ ClientOf(s)' = ClientOf(s) /\ Connected(attempts[s])' = Connected(attempts[s])
        /\ DataOf(s)' = [DataOf(s) EXCEPT ![dir] =
                             [sent |-> f.sent, shut |-> TRUE, got |-> f.got, eof |-> f.eof]]
    BY <1>2, <2>1, <2>2, DataStep
  <2>4. DataOf(s)' = [DataOf(s) EXCEPT ![dir].shut = TRUE]
    <3>1. [DataOf(s) EXCEPT ![dir].shut = TRUE] =
            [DataOf(s) EXCEPT ![dir] = [sent |-> f.sent, shut |-> TRUE, got |-> f.got, eof |-> f.eof]]
      BY DataChanges, Zenon
    <3>2. QED
      BY <2>3, <3>1, Zenon
  <2>5. Pipe(s)!Shut(dir)
    <3>1. ~DataOf(s)[dir].shut
      BY <1>2, DataAt, Zenon
    <3>2. fault'[s] = fault[s]
      BY <1>2
    <3>3. QED
      BY <1>2, <2>3, <2>4, <3>1, <3>2, Zenon DEF Pipe!Shut
  <2>6. PipeStep(s)
    BY <2>5 DEF PipeStep, Pipe!Next, Pipe!Directions, Directions
  <2>7. QED
    BY <1>1, <1>2, <1>3, <2>1, <2>2, <2>6, DataPipe DEF Shape
<1>6. QED
  BY <1>4, <1>5

\* What is on its way in the stream neither application sees.
LEMMA CopyInPipe ==
    ASSUME IInv, PipeInv, NEW s \in Streams, NEW dir \in Directions, CopyIn(s, dir)
    PROVE  PipeInv' /\ \A x \in Streams : PipeStep(x)
<1> DEFINE f == flow[s][dir]
<1>1. f \in FlowRecord /\ Shape /\ PipeOf(s)
  BY DEF IInv, Shape, PipeInv
<1>2. UNCHANGED <<permits, task, setupVars, fault>>
  BY DEF CopyIn
<1>3. PICK g \in FlowRecord :
        /\ Move(s, dir, g) /\ g.mid <= g.sent
        /\ g.sent = f.sent /\ g.shut = f.shut /\ g.got = f.got /\ g.eof = f.eof
        /\ copied' = copied \/ LoopEnds(s, dir, "in")
  <2>0. f.mid <= f.sent
    BY <1>1 DEF PipeOf
  <2>1. f.mid + 1 \in Nat /\ f.mid \in Nat /\ f.sent \in Nat
    BY <1>1 DEF FlowRecord
  <2>2. /\ Changed(f, [f EXCEPT !.mid = f.mid + 1], {"mid"}) /\ [f EXCEPT !.mid = f.mid + 1].mid = f.mid + 1
        /\ Changed(f, [f EXCEPT !.fin = TRUE], {"fin"})
    BY <1>1, <2>1, Changes
  <2>3. \/ /\ f.mid < f.sent /\ UNCHANGED copied
           /\ Move(s, dir, [f EXCEPT !.mid = f.mid + 1])
        \/ LoopEnds(s, dir, "in") /\ Move(s, dir, [f EXCEPT !.fin = TRUE])
    BY DEF CopyIn
  <2>4. CASE f.mid < f.sent /\ UNCHANGED copied /\ Move(s, dir, [f EXCEPT !.mid = f.mid + 1])
    <3> DEFINE g == [f EXCEPT !.mid = f.mid + 1]
    <3>1. g \in FlowRecord /\ g.mid = f.mid + 1 /\ g.sent = f.sent /\ g.shut = f.shut /\ g.got = f.got /\ g.eof = f.eof
      BY <2>2 DEF Changed
    <3> HIDE DEF g
    <3>2. g.mid <= g.sent
      BY <2>1, <2>4, <3>1
    <3>3. Move(s, dir, g) /\ UNCHANGED copied
      BY <2>4 DEF g
    <3>4. QED
      BY <3>1, <3>2, <3>3
  <2>5. CASE LoopEnds(s, dir, "in") /\ Move(s, dir, [f EXCEPT !.fin = TRUE])
    <3> DEFINE g == [f EXCEPT !.fin = TRUE]
    <3>1. g \in FlowRecord /\ g.mid = f.mid /\ g.sent = f.sent /\ g.shut = f.shut /\ g.got = f.got /\ g.eof = f.eof
      BY <2>2 DEF Changed
    <3> HIDE DEF g
    <3>2. Move(s, dir, g) /\ LoopEnds(s, dir, "in")
      BY <2>5 DEF g
    <3>3. QED
      BY <2>0, <3>1, <3>2
  <2>6. QED
    BY <2>3, <2>4, <2>5
<1> HIDE DEF f
<1>4. /\ copied' \in [Streams -> SUBSET Loops] /\ copied[s] \subseteq copied'[s]
      /\ \A x \in Streams \ {s} : copied'[x] = copied[x]
  BY <1>1, <1>3, LoopTypes DEF Shape
<1>5. /\ ClientOf(s)' = ClientOf(s) /\ Connected(attempts[s])' = Connected(attempts[s])
      /\ DataOf(s)' = [DataOf(s) EXCEPT ![dir] =
                           [sent |-> f.sent, shut |-> f.shut, got |-> f.got, eof |-> f.eof]]
  BY <1>2, <1>3, DataStep
<1>6. DataOf(s)' = DataOf(s)
  BY <1>5, DataAt DEF DataOf, f
<1>7. PipeStep(s)
  BY <1>2, <1>5, <1>6 DEF PipeStep, Pipe!vars
<1>8. QED
  BY <1>1, <1>2, <1>3, <1>4, <1>7, DataPipe DEF Shape, f

\* What arrives, and the end of it.
LEMMA CopyOutPipe ==
    ASSUME IInv, PipeInv, NEW s \in Streams, NEW dir \in Directions, CopyOut(s, dir)
    PROVE  PipeInv' /\ \A x \in Streams : PipeStep(x)
<1> DEFINE f == flow[s][dir]
<1>1. f \in FlowRecord /\ Shape /\ PipeOf(s) /\ FlowOf(s) /\ TruthInv
  BY DEF IInv, Shape, PipeInv, FlowInv
<1>2. /\ UNCHANGED <<permits, task, setupVars, fault>>
      /\ task[Writer(dir)][s] = "bridge" /\ <<dir, "out">> \notin copied[s]
  BY DEF CopyOut, Running, Bridging
<1>3. Pipe(s)!SinkOpen(dir) /\ ~f.eof /\ f.mid <= f.sent
  BY <1>1, <1>2, BridgeOpen DEF PipeOf, Bridging
<1>4. CASE f.got < f.mid /\ Move(s, dir, [f EXCEPT !.got = @ + 1]) /\ UNCHANGED copied
  <2> DEFINE g == [f EXCEPT !.got = f.got + 1]
  <2>1. f.got + 1 \in Nat /\ f.mid \in Nat /\ f.sent \in Nat /\ f.got \in Nat
    BY <1>1 DEF FlowRecord
  <2>2. g \in FlowRecord /\ g.sent = f.sent /\ g.shut = f.shut /\ g.mid = f.mid /\ g.got = f.got + 1 /\ g.eof = f.eof
    BY <1>1, <2>1, Changes DEF Changed
  <2>3. Move(s, dir, g)
    BY <1>4
  <2> HIDE DEF g
  <2>4. /\ ClientOf(s)' = ClientOf(s) /\ Connected(attempts[s])' = Connected(attempts[s])
        /\ DataOf(s)' = [DataOf(s) EXCEPT ![dir] =
                             [sent |-> f.sent, shut |-> f.shut, got |-> f.got + 1, eof |-> f.eof]]
    BY <1>2, <2>2, <2>3, DataStep
  <2>5. DataOf(s)' = [DataOf(s) EXCEPT ![dir].got = @ + 1]
    BY <2>4, DataChanges
  <2>6. f.got < f.sent
    BY <1>3, <1>4, <2>1
  <2>7. Pipe(s)!Deliver(dir)
    <3>1. ~DataOf(s)[dir].eof /\ DataOf(s)[dir].got < DataOf(s)[dir].sent
      BY <1>3, <2>6, DataAt, Zenon
    <3>2. fault'[s] = fault[s]
      BY <1>2
    <3>3. QED
      BY <1>3, <2>4, <2>5, <3>1, <3>2, Zenon DEF Pipe!Deliver
  <2>8. PipeStep(s)
    BY <2>7 DEF PipeStep, Pipe!Next, Pipe!Directions, Directions
  <2>9. QED
    BY <1>1, <1>2, <1>3, <1>4, <2>2, <2>3, <2>8, DataPipe DEF Shape
<1>5. CASE f.got = f.mid /\ f.fin /\ Move(s, dir, [f EXCEPT !.eof = TRUE]) /\ LoopEnds(s, dir, "out")
  <2> DEFINE g == [f EXCEPT !.eof = TRUE]
  <2>1. g \in FlowRecord /\ g.sent = f.sent /\ g.shut = f.shut /\ g.mid = f.mid /\ g.got = f.got /\ g.eof = TRUE
    BY <1>1, Changes DEF Changed
  <2>2. Move(s, dir, g)
    BY <1>5
  <2> HIDE DEF g
  <2>3. /\ ClientOf(s)' = ClientOf(s) /\ Connected(attempts[s])' = Connected(attempts[s])
        /\ DataOf(s)' = [DataOf(s) EXCEPT ![dir] =
                             [sent |-> f.sent, shut |-> f.shut, got |-> f.got, eof |-> TRUE]]
    BY <1>2, <2>1, <2>2, DataStep
  <2>4. DataOf(s)' = [DataOf(s) EXCEPT ![dir].eof = TRUE]
    <3>1. [DataOf(s) EXCEPT ![dir].eof = TRUE] =
            [DataOf(s) EXCEPT ![dir] = [sent |-> f.sent, shut |-> f.shut, got |-> f.got, eof |-> TRUE]]
      BY DataChanges, Zenon
    <3>2. QED
      BY <2>3, <3>1, Zenon
  <2>5. fault[s] \/ (f.shut /\ f.got = f.sent)
    BY <1>1, <1>5 DEF FlowOf, FlowOK
  <2>6. Pipe(s)!End(dir)
    <3>1. fault[s] \/ (DataOf(s)[dir].shut /\ DataOf(s)[dir].got = DataOf(s)[dir].sent)
      BY <2>5, DataAt, Zenon
    <3>2. fault'[s] = fault[s]
      BY <1>2
    <3>3. QED
      BY <2>3, <2>4, <3>1, <3>2, Zenon DEF Pipe!End
  <2>7. PipeStep(s)
    BY <2>6 DEF PipeStep, Pipe!Next, Pipe!Directions, Directions
  <2>8. /\ copied' \in [Streams -> SUBSET Loops]
        /\ copied'[s] = copied[s] \cup {<<dir, "out">>}
        /\ \A x \in Streams \ {s} : copied'[x] = copied[x]
    BY <1>1, <1>5, LoopTypes
  <2>9. g.mid <= g.sent /\ <<dir, "out">> \in copied'[s] /\ copied[s] \subseteq copied'[s]
    BY <1>3, <2>1, <2>8
  <2>10. QED
    BY <1>1, <1>2, <2>1, <2>2, <2>7, <2>8, <2>9, DataPipe DEF Shape
<1>6. QED
  BY <1>4, <1>5 DEF CopyOut

\* A direction is ended early, which changes nothing else that is seen of it.
LEMMA Endings ==
    ASSUME NEW f \in FlowRecord, NEW a \in BOOLEAN, NEW b \in BOOLEAN
    PROVE  /\ [f EXCEPT !.fin = @ \/ a, !.eof = @ \/ b].mid = f.mid
           /\ [f EXCEPT !.fin = @ \/ a, !.eof = @ \/ b].sent = f.sent
           /\ [f EXCEPT !.fin = @ \/ a, !.eof = @ \/ b].shut = f.shut
           /\ [f EXCEPT !.fin = @ \/ a, !.eof = @ \/ b].got = f.got
           /\ [f EXCEPT !.fin = @ \/ a, !.eof = @ \/ b].eof = (f.eof \/ b)
           /\ [f EXCEPT !.eof = @ \/ b].mid = f.mid
           /\ [f EXCEPT !.eof = @ \/ b].sent = f.sent
           /\ [f EXCEPT !.eof = @ \/ b].shut = f.shut
           /\ [f EXCEPT !.eof = @ \/ b].got = f.got
           /\ [f EXCEPT !.eof = @ \/ b].eof = (f.eof \/ b)
BY DEF FlowRecord

\* What is seen of a stream whose directions are at most ended.
OnlyEnds(s) ==
    \A dir \in Directions :
        /\ flow'[s][dir].mid = flow[s][dir].mid /\ flow'[s][dir].sent = flow[s][dir].sent
        /\ flow'[s][dir].shut = flow[s][dir].shut /\ flow'[s][dir].got = flow[s][dir].got
        /\ flow[s][dir].eof => flow'[s][dir].eof

LEMMA BreakPipe ==
    ASSUME Shape, Shape', NEW s \in Streams, OnlyEnds(s), fault'[s],
           ClientOf(s) = "connected" \/ Connected(attempts[s]),
           ClientOf(s)' = ClientOf(s), Connected(attempts[s])' = Connected(attempts[s])
    PROVE  PipeStep(s)
<1> DEFINE ends == {dir \in Directions : flow'[s][dir].eof}
<1>1. ASSUME NEW dir \in Directions
      PROVE  DataOf(s)'[dir] = [DataOf(s)[dir] EXCEPT !.eof = @ \/ dir \in ends]
  <2>1. /\ flow[s][dir].eof \in BOOLEAN /\ flow'[s][dir].eof \in BOOLEAN
    BY DEF Shape, FlowRecord
  <2>2. DataOf(s)[dir] = [sent |-> flow[s][dir].sent, shut |-> flow[s][dir].shut,
                          got |-> flow[s][dir].got, eof |-> flow[s][dir].eof]
    BY DataAt
  <2>3. DataOf(s)'[dir] = [sent |-> flow[s][dir].sent, shut |-> flow[s][dir].shut,
                           got |-> flow[s][dir].got, eof |-> flow'[s][dir].eof]
    BY DEF DataOf, OnlyEnds
  <2>4. (flow[s][dir].eof \/ dir \in ends) = flow'[s][dir].eof
    BY <2>1 DEF OnlyEnds
  <2>5. \A a, b, c, e, t : [[sent |-> a, shut |-> b, got |-> c, eof |-> e] EXCEPT !.eof = t]
                              = [sent |-> a, shut |-> b, got |-> c, eof |-> t]
    OBVIOUS
  <2>6. [DataOf(s)[dir] EXCEPT !.eof = DataOf(s)[dir].eof \/ dir \in ends]
           = [DataOf(s)[dir] EXCEPT !.eof = flow'[s][dir].eof]
    BY <2>4, DataAt, Zenon
  <2> HIDE DEF ends
  <2>7. [[sent |-> flow[s][dir].sent, shut |-> flow[s][dir].shut, got |-> flow[s][dir].got,
          eof |-> flow[s][dir].eof] EXCEPT !.eof = flow'[s][dir].eof]
           = [sent |-> flow[s][dir].sent, shut |-> flow[s][dir].shut,
              got |-> flow[s][dir].got, eof |-> flow'[s][dir].eof]
    BY <2>5
  <2>8. [DataOf(s)[dir] EXCEPT !.eof = flow'[s][dir].eof] = DataOf(s)'[dir]
    BY <2>2, <2>3, <2>7, Zenon
  <2>9. QED
    BY <2>6, <2>8, Zenon
<1>2. DataOf(s)' = [dir \in Directions |-> DataOf(s)'[dir]]
  BY DEF DataOf
<1>3. DataOf(s)' = [dir \in Directions |-> [DataOf(s)[dir] EXCEPT !.eof = @ \/ dir \in ends]]
  <2> HIDE DEF ends
  <2>1. QED
    BY <1>1, <1>2
<1>4. fault'[s] = TRUE
  BY DEF Shape
<1>5. ends \in SUBSET Directions
  OBVIOUS
<1> HIDE DEF ends
<1>6. Pipe(s)!Break(ends)
  BY <1>3, <1>4, Zenon DEF Pipe!Break, Pipe!Directions, Directions
<1>7. QED
  BY <1>5, <1>6 DEF PipeStep, Pipe!Next, Pipe!Directions, Directions

\* The writer of what has been ended is through with it.
LEMMA EndsOf ==
    ASSUME NEW s, PipeOf(s), OnlyEnds(s),
           replies'[s] = replies[s], attempts'[s] = attempts[s], copied[s] \subseteq copied'[s],
           \A t \in Sides : task'[t][s] = task[t][s] \/ task'[t][s] = "over",
           \A dir \in Directions : flow'[s][dir].eof =>
               flow[s][dir].eof \/ <<dir, "out">> \in copied'[s] \/ task'[Writer(dir)][s] = "over"
    PROVE  PipeOf(s)'
<1>1. \A dir \in Directions : Writer(dir) \in Sides
  BY DEF Writer, Sides
<1>2. ASSUME NEW dir \in Directions
      PROVE  /\ flow'[s][dir].mid <= flow'[s][dir].sent
             /\ flow'[s][dir].eof => <<dir, "out">> \in copied'[s] \/ task'[Writer(dir)][s] = "over"
  BY <1>1 DEF PipeOf, OnlyEnds
<1>3. \A t \in Sides : task'[t][s] = task[t][s] \/ task'[t][s] = "over"
  OBVIOUS
<1>4. QED
  BY <1>2, <1>3 DEF PipeOf, Sides

\* A socket or the stream fails.
LEMMA FailurePipe ==
    ASSUME IInv, IInv', PipeInv, NEW s \in Streams,
           \/ \E side \in Sides : SocketFails(side, s)
           \/ \E dir \in Directions, loop \in {"in", "out"} : StreamFails(s, dir, loop)
    PROVE  PipeInv' /\ \A x \in Streams : PipeStep(x)
<1>1. Shape /\ Shape' /\ PipeOf(s) /\ TruthInv
  BY DEF IInv, PipeInv
<1>2. \A dir \in Directions : flow[s][dir] \in FlowRecord
  BY <1>1 DEF Shape
<1>3. ASSUME NEW side \in Sides, SocketFails(side, s)
      PROVE  /\ OnlyEnds(s) /\ copied[s] \subseteq copied'[s] /\ fault'[s]
             /\ \A x \in Streams \ {s} : flow'[x] = flow[x] /\ copied'[x] = copied[x] /\ fault'[x] = fault[x]
             /\ \A dir \in Directions : flow'[s][dir].eof => flow[s][dir].eof \/ <<dir, "out">> \in copied'[s]
             /\ ClientOf(s) = "connected" \/ Connected(attempts[s])
             /\ UNCHANGED <<task, setupVars>>
  <2>1. ASSUME NEW dir \in Directions
        PROVE  flow'[s][dir] = [flow[s][dir] EXCEPT !.fin = @ \/ Reader(dir) = side,
                                                   !.eof = @ \/ Writer(dir) = side]
    BY <1>1, <1>3 DEF SocketFails, Shape
  <2>2. ASSUME NEW dir \in Directions
        PROVE  /\ flow'[s][dir].mid = flow[s][dir].mid /\ flow'[s][dir].sent = flow[s][dir].sent
               /\ flow'[s][dir].shut = flow[s][dir].shut /\ flow'[s][dir].got = flow[s][dir].got
               /\ flow'[s][dir].eof = (flow[s][dir].eof \/ Writer(dir) = side)
    <3> DEFINE a == (Reader(dir) = side)
               b == (Writer(dir) = side)
    <3>1. a \in BOOLEAN /\ b \in BOOLEAN
      OBVIOUS
    <3>2. flow'[s][dir] = [flow[s][dir] EXCEPT !.fin = @ \/ a, !.eof = @ \/ b]
      BY <2>1
    <3> HIDE DEF a, b
    <3> DEFINE f == flow[s][dir]
    <3>3. /\ [f EXCEPT !.fin = @ \/ a, !.eof = @ \/ b].mid = f.mid
          /\ [f EXCEPT !.fin = @ \/ a, !.eof = @ \/ b].sent = f.sent
          /\ [f EXCEPT !.fin = @ \/ a, !.eof = @ \/ b].shut = f.shut
          /\ [f EXCEPT !.fin = @ \/ a, !.eof = @ \/ b].got = f.got
          /\ [f EXCEPT !.fin = @ \/ a, !.eof = @ \/ b].eof = (f.eof \/ b)
      <4>1. f \in FlowRecord
        BY <1>2
      <4> HIDE DEF f
      <4>2. QED
        BY <3>1, <4>1, Endings
    <3> HIDE DEF f
    <3>4. flow'[s][dir] = [f EXCEPT !.fin = @ \/ a, !.eof = @ \/ b]
      BY <3>2 DEF f
    <3>5. QED
      BY <3>3, <3>4, Zenon DEF b, f
  <2>3. OnlyEnds(s)
    BY <2>2 DEF OnlyEnds
  <2>4. copied'[s] = copied[s] \cup LoopsOf(side) /\ fault'[s] = TRUE
    BY <1>1, <1>3 DEF SocketFails, Shape
  <2>5. \A dir \in Directions : Writer(dir) = side => <<dir, "out">> \in LoopsOf(side)
    BY DEF LoopsOf
  <2>6. \A x \in Streams \ {s} : flow'[x] = flow[x] /\ copied'[x] = copied[x] /\ fault'[x] = fault[x]
    BY <1>1, <1>3 DEF SocketFails, Shape
  <2>7. ClientOf(s) = "connected" \/ Connected(attempts[s])
    BY <1>1, <1>3, BridgeOpen DEF SocketFails, Directions
  <2>8. UNCHANGED <<task, setupVars>>
    BY <1>3 DEF SocketFails
  <2>9. \A dir \in Directions : flow'[s][dir].eof => flow[s][dir].eof \/ <<dir, "out">> \in copied'[s]
    BY <2>2, <2>4, <2>5
  <2>10. QED
    BY <2>3, <2>4, <2>6, <2>7, <2>8, <2>9
<1>4. ASSUME NEW dir \in Directions, NEW loop \in {"in", "out"}, StreamFails(s, dir, loop)
      PROVE  /\ OnlyEnds(s) /\ copied[s] \subseteq copied'[s] /\ fault'[s]
             /\ \A x \in Streams \ {s} : flow'[x] = flow[x] /\ copied'[x] = copied[x] /\ fault'[x] = fault[x]
             /\ \A d \in Directions : flow'[s][d].eof => flow[s][d].eof \/ <<d, "out">> \in copied'[s]
             /\ ClientOf(s) = "connected" \/ Connected(attempts[s])
             /\ UNCHANGED <<task, setupVars>>
  <2> DEFINE f == flow[s][dir]
  <2>1. PICK g \in FlowRecord :
          /\ Move(s, dir, g) /\ g.mid = f.mid /\ g.sent = f.sent /\ g.shut = f.shut /\ g.got = f.got
          /\ f.eof => g.eof
          /\ loop = "in" => g.eof = f.eof
    <3>1. f \in FlowRecord
      BY <1>2
    <3>2. CASE loop = "in"
      <4> DEFINE g == [f EXCEPT !.fin = TRUE]
      <4>1. g \in FlowRecord /\ g.mid = f.mid /\ g.sent = f.sent /\ g.shut = f.shut /\ g.got = f.got /\ g.eof = f.eof
        BY <3>1, Changes DEF Changed
      <4>2. Move(s, dir, g)
        BY <1>4, <3>2 DEF StreamFails
      <4> HIDE DEF g, f
      <4>3. QED
        BY <3>2, <4>1, <4>2
    <3>3. CASE loop # "in"
      <4> DEFINE g == [f EXCEPT !.eof = TRUE]
      <4>1. g \in FlowRecord /\ g.mid = f.mid /\ g.sent = f.sent /\ g.shut = f.shut /\ g.got = f.got /\ g.eof
        BY <3>1, Changes DEF Changed
      <4>2. Move(s, dir, g)
        BY <1>4, <3>3 DEF StreamFails
      <4> HIDE DEF g, f
      <4>3. QED
        BY <3>3, <4>1, <4>2
    <3>4. QED
      BY <3>2, <3>3
  <2>2. flow'[s][dir] = g /\ \A d \in Directions \ {dir} : flow'[s][d] = flow[s][d]
    BY <1>1, <2>1, MoveTypes
  <2>3. OnlyEnds(s)
    BY <2>1, <2>2 DEF OnlyEnds
  <2>4. copied'[s] = copied[s] \cup {<<dir, loop>>} /\ \A x \in Streams \ {s} : copied'[x] = copied[x]
    BY <1>1, <1>4, LoopTypes DEF StreamFails
  <2>5. fault'[s] = TRUE /\ \A x \in Streams \ {s} : fault'[x] = fault[x]
    BY <1>1, <1>4 DEF StreamFails, Shape
  <2>6. \A x \in Streams \ {s} : flow'[x] = flow[x]
    BY <1>1, <2>1, MoveTypes
  <2>7. ClientOf(s) = "connected" \/ Connected(attempts[s])
    <3>1. Reader(dir) \in Sides /\ Writer(dir) \in Sides
      BY DEF Reader, Writer, Sides
    <3>2. Bridging(Reader(dir), s) \/ Bridging(Writer(dir), s)
      BY <1>4 DEF StreamFails, Running
    <3>3. QED
      BY <1>1, <3>1, <3>2, BridgeOpen
  <2>8. UNCHANGED <<task, setupVars>>
    BY <1>4 DEF StreamFails
  <2>9. \A d \in Directions : flow'[s][d].eof => flow[s][d].eof \/ <<d, "out">> \in copied'[s]
    BY <2>1, <2>2, <2>4
  <2>10. QED
    BY <2>3, <2>4, <2>5, <2>6, <2>7, <2>8, <2>9
<1>5. /\ OnlyEnds(s) /\ copied[s] \subseteq copied'[s] /\ fault'[s]
      /\ \A x \in Streams \ {s} : flow'[x] = flow[x] /\ copied'[x] = copied[x] /\ fault'[x] = fault[x]
      /\ \A dir \in Directions : flow'[s][dir].eof => flow[s][dir].eof \/ <<dir, "out">> \in copied'[s]
      /\ ClientOf(s) = "connected" \/ Connected(attempts[s])
      /\ UNCHANGED <<task, setupVars>>
  BY <1>3, <1>4
<1>6. ClientOf(s)' = ClientOf(s) /\ Connected(attempts[s])' = Connected(attempts[s])
  BY <1>5 DEF ClientOf, setupVars
<1>7. PipeStep(s)
  BY <1>1, <1>5, <1>6, BreakPipe
<1>8. PipeOf(s)'
  BY <1>1, <1>5, EndsOf DEF setupVars
<1>9. QED
  BY <1>5, <1>7, <1>8, OnePipeMoves DEF setupVars

\* Tasks end.  An end of data that has not been passed on yet is passed on now, and
\* without a fault there is none.
LEMMA TasksEndPipe ==
    ASSUME IInv, IInv', PipeInv, NEW s \in Streams,
           UNCHANGED <<setupVars, copied>>,
           \A t \in Sides : task'[t][s] = task[t][s] \/ (task'[t][s] = "over" /\ task[t][s] # "free"),
           \/ fault'[s] = fault[s] /\ ~fault[s] /\ DataOf(s)' = DataOf(s)
           \/ fault'[s] = fault[s] /\ flow'[s] = flow[s]
           \/ /\ fault'[s] /\ \E side \in Sides : Bridging(side, s)
              /\ \A t \in Sides : task'[t][s] # task[t][s] => task[t][s] = "bridge",
           OnlyEnds(s),
           \A dir \in Directions :
               flow'[s][dir].eof => flow[s][dir].eof \/ task'[Writer(dir)][s] = "over"
    PROVE  PipeOf(s)' /\ PipeStep(s)
<1>1. Shape /\ Shape' /\ PipeOf(s) /\ TruthInv /\ TruthOf(s)
  BY DEF IInv, PipeInv, TruthInv
<1>2. PipeOf(s)'
  BY <1>1, EndsOf DEF setupVars
<1>3. Connected(attempts[s])' = Connected(attempts[s]) /\ replies' = replies
  BY DEF setupVars
<1>4. task["opener"][s] = "bridge" => replies[s] = <<"success">>
  BY <1>1 DEF TruthOf
<1>5. task'["opener"][s] = task["opener"][s] \/ (task'["opener"][s] = "over" /\ task["opener"][s] # "free")
  BY DEF Sides
<1>6. CASE fault'[s] = fault[s] /\ DataOf(s)' = DataOf(s)
  <2>1. ClientOf(s)' = ClientOf(s) \/ (ClientOf(s) = "asking" /\ ClientOf(s)' = "refused")
    BY <1>3, <1>5 DEF ClientOf
  <2>2. QED
    BY <1>2, <1>3, <1>6, <2>1 DEF PipeStep, Pipe!vars, Pipe!Next, Pipe!Refuse
<1>7. CASE /\ fault'[s] /\ \E side \in Sides : Bridging(side, s)
           /\ \A t \in Sides : task'[t][s] # task[t][s] => task[t][s] = "bridge"
  <2>1. ClientOf(s)' = ClientOf(s)
    BY <1>3, <1>4, <1>5, <1>7 DEF ClientOf, Sides
  <2>2. ClientOf(s) = "connected" \/ Connected(attempts[s])
    BY <1>1, <1>7, BridgeOpen DEF Directions
  <2>3. QED
    BY <1>1, <1>2, <1>3, <1>7, <2>1, <2>2, BreakPipe
<1>8. flow'[s] = flow[s] => DataOf(s)' = DataOf(s)
  BY DEF DataOf
<1>9. QED
  BY <1>6, <1>7, <1>8

\* A bridge returns when both of its loops have ended.
LEMMA BridgeEndsPipe ==
    ASSUME IInv, IInv', PipeInv, NEW s \in Streams, NEW side \in Sides, BridgeEnds(side, s)
    PROVE  PipeInv' /\ \A x \in Streams : PipeStep(x)
<1>1. Shape /\ Shape' /\ FlowOf(s)
  BY DEF IInv, FlowInv
<1>2. /\ task[side][s] = "bridge" /\ LoopsOf(side) \subseteq copied[s]
      /\ UNCHANGED <<link, setupVars, copied, fault>> /\ Go(side, s, "over")
  BY DEF BridgeEnds, Bridging, Return, End
<1>3. /\ task'[side][s] = "over"
      /\ \A t \in Sides, x \in Streams : <<t, x>> # <<side, s>> => task'[t][x] = task[t][x]
  BY <1>1, <1>2, GoTask DEF TaskStates
<1>4. ASSUME NEW dir \in Directions
      PROVE  /\ flow'[s][dir].mid = flow[s][dir].mid /\ flow'[s][dir].sent = flow[s][dir].sent
             /\ flow'[s][dir].shut = flow[s][dir].shut /\ flow'[s][dir].got = flow[s][dir].got
             /\ flow'[s][dir].eof = (flow[s][dir].eof \/ Writer(dir) = side)
  <2> DEFINE b == (Writer(dir) = side)
  <2>1. b \in BOOLEAN
    OBVIOUS
  <2>2. flow'[s][dir] = [flow[s][dir] EXCEPT !.eof = @ \/ b]
    BY <1>1 DEF BridgeEnds, Return, Shape
  <2>3. flow[s][dir] \in FlowRecord
    BY <1>1 DEF Shape
  <2> HIDE DEF b
  <2> DEFINE f == flow[s][dir]
  <2>4. f \in FlowRecord /\ flow'[s][dir] = [f EXCEPT !.eof = @ \/ b]
    BY <2>2, <2>3
  <2> HIDE DEF f
  <2>5. /\ [f EXCEPT !.eof = @ \/ b].mid = f.mid /\ [f EXCEPT !.eof = @ \/ b].sent = f.sent
       /\ [f EXCEPT !.eof = @ \/ b].shut = f.shut /\ [f EXCEPT !.eof = @ \/ b].got = f.got
       /\ [f EXCEPT !.eof = @ \/ b].eof = (f.eof \/ b)
    BY <2>1, <2>4, Endings
  <2>6. QED
    BY <2>4, <2>5, Zenon DEF b, f
<1>5. OnlyEnds(s)
  BY <1>4 DEF OnlyEnds
<1>6. ASSUME fault[s] PROVE PipeOf(s)' /\ PipeStep(s)
  <2>1. \A t \in Sides : task'[t][s] # task[t][s] => task[t][s] = "bridge"
    BY <1>2, <1>3
  <2>2. fault'[s] /\ Bridging(side, s)
    BY <1>2, <1>6 DEF Bridging
  <2>3. QED
    BY <1>2, <1>3, <1>4, <1>5, <2>1, <2>2, TasksEndPipe
<1>7. ASSUME ~fault[s] PROVE PipeOf(s)' /\ PipeStep(s)
  <2>1. ASSUME NEW dir \in Directions PROVE flow'[s][dir].eof = flow[s][dir].eof
    <3>1. Writer(dir) = side => <<dir, "out">> \in copied[s]
      BY <1>2 DEF LoopsOf
    <3>2. <<dir, "out">> \in copied[s] => flow[s][dir].eof
      BY <1>1, <1>7 DEF FlowOf, FlowOK
    <3>3. flow[s][dir].eof \in BOOLEAN /\ flow'[s][dir].eof \in BOOLEAN
      BY <1>1 DEF Shape, FlowRecord
    <3>4. QED
      BY <1>4, <3>1, <3>2, <3>3
  <2>2. DataOf(s)' = DataOf(s)
    BY <1>4, <2>1 DEF DataOf
  <2>3. fault'[s] = fault[s]
    BY <1>2
  <2>4. QED
    BY <1>2, <1>3, <1>4, <1>5, <1>7, <2>2, <2>3, TasksEndPipe
<1>8. \A x \in Streams \ {s} : flow'[x] = flow[x]
  BY <1>1 DEF BridgeEnds, Return, Shape
<1>9. PipeOf(s)' /\ PipeStep(s)
  BY <1>6, <1>7
<1>10. QED
  BY <1>2, <1>3, <1>8, <1>9, OnePipeMoves DEF setupVars

\* Tasks are aborted: the bridges among them break, and the clients that were still
\* asking are refused.
LEMMA AbortedPipe ==
    ASSUME IInv, IInv', PipeInv, NEW side \in Sides, NEW streams \in SUBSET Streams,
           Aborted(side, streams)
    PROVE  PipeInv' /\ \A x \in Streams : PipeStep(x)
<1>1. Shape /\ Shape'
  BY DEF IInv
<1>2. /\ \A x \in Streams : task'[side][x] =
           IF x \in streams /\ task[side][x] # "free" THEN "over" ELSE task[side][x]
      /\ \A t \in Sides \ {side}, x \in Streams : task'[t][x] = task[t][x]
  BY <1>1, AbortTask
<1>3. UNCHANGED <<setupVars, copied>>
  BY DEF Aborted
<1>4. ASSUME NEW x \in Streams PROVE PipeOf(x)' /\ PipeStep(x)
  <2> DEFINE hit == (x \in streams /\ task[side][x] = "bridge")
  <2>1. fault'[x] = (fault[x] \/ hit)
    BY <1>1 DEF Shape, Aborted
  <2>2. ASSUME NEW dir \in Directions
        PROVE  /\ flow'[x][dir].mid = flow[x][dir].mid /\ flow'[x][dir].sent = flow[x][dir].sent
               /\ flow'[x][dir].shut = flow[x][dir].shut /\ flow'[x][dir].got = flow[x][dir].got
               /\ flow'[x][dir].eof = (flow[x][dir].eof \/ (hit /\ Writer(dir) = side))
    <3> DEFINE b == (hit /\ Writer(dir) = side)
    <3>1. b \in BOOLEAN
      OBVIOUS
    <3>2. flow'[x][dir] = [flow[x][dir] EXCEPT !.eof = @ \/ b]
      BY DEF Aborted
    <3>3. flow[x][dir] \in FlowRecord
      BY <1>1 DEF Shape
    <3> HIDE DEF b
    <3> DEFINE f == flow[x][dir]
    <3>4. f \in FlowRecord /\ flow'[x][dir] = [f EXCEPT !.eof = @ \/ b]
      BY <3>2, <3>3
    <3> HIDE DEF f
    <3>5. /\ [f EXCEPT !.eof = @ \/ b].mid = f.mid /\ [f EXCEPT !.eof = @ \/ b].sent = f.sent
         /\ [f EXCEPT !.eof = @ \/ b].shut = f.shut /\ [f EXCEPT !.eof = @ \/ b].got = f.got
         /\ [f EXCEPT !.eof = @ \/ b].eof = (f.eof \/ b)
      BY <3>1, <3>4, Endings
    <3>6. QED
      BY <3>4, <3>5, Zenon DEF b, f
  <2>3. OnlyEnds(x)
    BY <2>2 DEF OnlyEnds
  <2>4. \A t \in Sides : task'[t][x] = task[t][x] \/ (task'[t][x] = "over" /\ task[t][x] # "free")
    BY <1>2
  <2>5. hit => task'[side][x] = "over"
    BY <1>2
  <2>6. \A dir \in Directions :
          flow'[x][dir].eof => flow[x][dir].eof \/ task'[Writer(dir)][x] = "over"
    BY <2>2, <2>5
  <2>7. CASE hit
    <3>1. \A t \in Sides : task'[t][x] # task[t][x] => task[t][x] = "bridge"
      BY <1>2, <2>7
    <3>2. fault'[x] /\ Bridging(side, x)
      BY <2>1, <2>7 DEF Bridging
    <3>3. QED
      BY <1>3, <2>3, <2>4, <2>6, <3>1, <3>2, TasksEndPipe
  <2>8. CASE ~hit
    <3>1. fault'[x] = fault[x]
      BY <1>1, <2>1, <2>8 DEF Shape
    <3>2. ASSUME NEW dir \in Directions PROVE flow'[x][dir] = flow[x][dir]
      <4>1. flow[x][dir] \in FlowRecord
        BY <1>1 DEF Shape
      <4>2. flow'[x][dir] = [flow[x][dir] EXCEPT !.eof = @ \/ FALSE]
        BY <2>8 DEF Aborted
      <4>3. QED
        BY <4>1, <4>2 DEF FlowRecord
    <3>3. flow'[x] = flow[x]
      BY <1>1, <3>2 DEF Shape
    <3> HIDE DEF hit
    <3>4. QED
      BY <1>3, <2>3, <2>4, <2>6, <3>1, <3>3, TasksEndPipe
  <2>9. QED
    BY <2>7, <2>8
<1>5. QED
  BY <1>4 DEF PipeInv

LEMMA EmptyFlow ==
    [sent |-> NoFlow.sent, shut |-> NoFlow.shut, got |-> NoFlow.got, eof |-> NoFlow.eof]
        = [sent |-> 0, shut |-> FALSE, got |-> 0, eof |-> FALSE]
<1>1. NoFlow.sent = 0 /\ NoFlow.shut = FALSE /\ NoFlow.got = 0 /\ NoFlow.eof = FALSE
  BY DEF NoFlow
<1>2. QED
  BY <1>1, Zenon

\* The slot serves another client.
LEMMA ForgetPipe ==
    ASSUME IInv, PipeInv, NEW s \in Streams, Forget(s)
    PROVE  PipeInv' /\ \A x \in Streams : PipeStep(x)
<1>1. Shape
  BY DEF IInv
<1>2. /\ task'["opener"][s] = "free" /\ task'["acceptor"][s] = "free"
      /\ \A t \in Sides, x \in Streams : x # s => task'[t][x] = task[t][x]
  BY <1>1, ForgetTask DEF Forget
<1>3. /\ task["opener"][s] = "over" /\ replies'[s] = <<>> /\ attempts'[s] = <<>>
      /\ fault'[s] = FALSE /\ copied'[s] = {}
      /\ \A dir \in Directions : flow'[s][dir] = NoFlow
      /\ \A x \in Streams \ {s} :
           /\ replies'[x] = replies[x] /\ attempts'[x] = attempts[x]
           /\ flow'[x] = flow[x] /\ copied'[x] = copied[x] /\ fault'[x] = fault[x]
  BY <1>1 DEF Shape, Forget
<1>4. ClientOf(s) \in {"connected", "refused"} /\ ClientOf(s)' = "idle"
  BY <1>2, <1>3 DEF ClientOf
<1>5. Connected(attempts[s])' = FALSE
  BY <1>3 DEF Connected
<1>6. DataOf(s)' = Pipe(s)!Empty
  BY <1>3, EmptyFlow DEF DataOf, Pipe!Empty, Pipe!Directions, Directions
<1>7. PipeStep(s)
  BY <1>3, <1>4, <1>5, <1>6 DEF PipeStep, Pipe!Next, Pipe!Forget
<1>8. PipeOf(s)'
  <2>1. <<>> # <<"success">>
    OBVIOUS
  <2>2. NoFlow.mid <= NoFlow.sent /\ ~NoFlow.eof
    BY DEF NoFlow
  <2>3. QED
    BY <1>2, <1>3, <1>5, <2>1, <2>2 DEF PipeOf
<1>9. QED
  BY <1>2, <1>3, <1>7, <1>8, OnePipeMoves

LEMMA StillPipe ==
    ASSUME PipeInv, UNCHANGED <<task, setupVars, flowVars>>
    PROVE  PipeInv' /\ \A x \in Streams : PipeStep(x)
<1>1. ASSUME NEW x \in Streams PROVE PipeOf(x)' /\ PipeStep(x)
  BY PipeStill DEF PipeInv, setupVars, flowVars
<1>2. QED
  BY <1>1 DEF PipeInv

LEMMA InitPipe ==
    ASSUME Init
    PROVE  PipeInv /\ \A s \in Streams : Pipe(s)!Init
<1>1. ASSUME NEW s \in Streams PROVE PipeOf(s) /\ Pipe(s)!Init
  <2>1. /\ task["opener"][s] = "free" /\ task["acceptor"][s] = "free" /\ replies[s] = <<>>
        /\ attempts[s] = <<>> /\ fault[s] = FALSE /\ copied[s] = {}
        /\ \A dir \in Directions : flow[s][dir] = NoFlow
    BY DEF Init, Sides
  <2>2. ClientOf(s) = "idle" /\ Connected(attempts[s]) = FALSE
    BY <2>1 DEF ClientOf, Connected
  <2>3. DataOf(s) = Pipe(s)!Empty
    BY <2>1, EmptyFlow DEF DataOf, Pipe!Empty, Pipe!Directions, Directions
  <2>4. <<>> # <<"success">> /\ NoFlow.mid <= NoFlow.sent /\ ~NoFlow.eof
    BY DEF NoFlow
  <2>5. QED
    BY <2>1, <2>2, <2>3, <2>4 DEF PipeOf, Pipe!Init
<1>2. QED
  BY <1>1 DEF PipeInv

LEMMA NextPipe ==
    ASSUME IInv, IInv', PipeInv, [Next]_vars
    PROVE  PipeInv' /\ \A s \in Streams : PipeStep(s)
<1> DEFINE Goal == PipeInv' /\ \A s \in Streams : PipeStep(s)
<1>1. ASSUME NEW s \in Streams, Setup(s) PROVE Goal
  BY <1>1, ClientPipe, HelloPipe, ConnectOutPipe DEF Setup
<1>2. ASSUME NEW s \in Streams, Copy(s) PROVE Goal
  BY <1>2, CopyInPipe, CopyOutPipe, FailurePipe, BridgeEndsPipe DEF Copy
<1>3. ASSUME NEW s \in Streams, Environment(s) PROVE Goal
  BY <1>3, ClientPipe, SourcePipe, FailurePipe DEF Environment
<1>4. ASSUME NEW s \in Streams, Forget(s) PROVE Goal
  BY <1>4, ForgetPipe
<1>5. ASSUME NEW side \in Sides, Abort(side) PROVE Goal
  BY <1>5, AbortedPipe DEF Abort
<1>6. ASSUME NEW dev \in Devices, StopProxy(dev) PROVE Goal
  <2>1. {s \in Streams : At("opener", s) = dev} \in SUBSET Streams /\ "opener" \in Sides
    BY DEF Sides
  <2>2. QED
    BY <1>6, <2>1, AbortedPipe DEF StopProxy
<1>7. ASSUME LinkCloses \/ UNCHANGED vars PROVE Goal
  BY <1>7, StillPipe DEF LinkCloses, vars, setupVars, flowVars
<1> HIDE DEF Goal
<1>8. Goal
  BY <1>1, <1>2, <1>3, <1>4, <1>5, <1>6, <1>7 DEF Next
<1>9. QED
  BY <1>8 DEF Goal

\* A tunnelled stream is the pipe that its client and its target expect, for any
\* number of streams and devices' permits, addresses and units of data.
THEOREM Refinement ==
    ASSUME SlotsAssumption, PermitsAssumption
    PROVE  Spec => ImplementsPipe
<1>1. Init => IInv /\ PipeInv /\ \A s \in Streams : Pipe(s)!Init
  BY InitIInv, InitPipe
<1>2. IInv /\ PipeInv /\ [Next]_vars =>
        (IInv /\ PipeInv)' /\ \A s \in Streams : [Pipe(s)!Next]_(Pipe(s)!vars)
  <2> SUFFICES ASSUME IInv, PipeInv, [Next]_vars
               PROVE  (IInv /\ PipeInv)' /\ \A s \in Streams : [Pipe(s)!Next]_(Pipe(s)!vars)
    OBVIOUS
  <2>1. IInv'
    BY NextIInv
  <2>2. PipeInv' /\ \A s \in Streams : PipeStep(s)
    BY <2>1, NextPipe
  <2>3. QED
    BY <2>1, <2>2 DEF PipeStep
<1>3. QED
  BY <1>1, <1>2, PTL DEF Spec, ImplementsPipe
==============================================================================
