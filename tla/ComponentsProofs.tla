--------------------------- MODULE ComponentsProofs ---------------------------
(***************************************************************************)
(* What the components of Components guarantee on instances of any size.   *)
(* The focus never changes, and outside its focus a component is idle, so  *)
(* the inductive invariant of each component's module carries over as it   *)
(* is.  Two have theirs here: the dial loop, whose attempts and the        *)
(* history of them are one count, and the log, whose rings never shrink.   *)
(***************************************************************************)
EXTENDS Components, FiniteSetTheorems, FunctionTheorems, SequenceTheorems, TLAPS

\* The tunnel's variables are shared by two instances, one of them in use.
TunnelInv ==
    /\ focus = "permits" => Permits!IInv
    /\ focus # "permits" => Tunnel!IInv

\* Until the first session `attempts` counts the attempts that have failed, and one
\* more is under way outside the wait.
DialInv ==
    /\ attempts \in Nat /\ tries \in Nat /\ established \in BOOLEAN
    /\ pc \in {"resolve", "connect", "auth", "serve", "count", "sleep", "over"}
    /\ pc # "over" =>
         /\ outcome # "connection"
         /\ ~established =>
              /\ attempts < MaxInitialAttempts
              /\ tries = IF pc \in {"resolve", "sleep"} THEN attempts ELSE attempts + 1
    /\ GivesUpOnTime

------------------------------------------------------------------------------
(* The stream tunnel. *)

LEMMA StreamFacts ==
    /\ Tunnel!SlotsAssumption /\ Tunnel!PermitsAssumption
    /\ Permits!SlotsAssumption /\ Permits!PermitsAssumption
<1>1. Permits!SlotsAssumption /\ OneStream \subseteq Streams
  BY StreamsAssumption, OneStreamAssumption
<1>2. IsFiniteSet(Streams)
  BY <1>1 DEF Permits!SlotsAssumption, Permits!IsFiniteSet, IsFiniteSet
<1>3. IsFiniteSet(OneStream)
  BY <1>1, <1>2, FS_Subset
<1>4. Tunnel!PermitsAssumption
  BY TunnelAssumption
<1>5. Permits!PermitsAssumption
  BY <1>4 DEF Tunnel!PermitsAssumption, Permits!PermitsAssumption
<1>6. Tunnel!SlotsAssumption
  BY <1>3 DEF Tunnel!SlotsAssumption, Tunnel!IsFiniteSet, IsFiniteSet
<1>7. QED
  BY <1>1, <1>4, <1>5, <1>6

LEMMA StreamInit == Init => TunnelInv
<1> SUFFICES ASSUME Init PROVE TunnelInv
  OBVIOUS
<1>1. CASE focus = "permits"
  <2>1. Permits!Init
    BY <1>1 DEF Init
  <2>2. Permits!IInv
    BY <2>1, StreamFacts, Permits!InitIInv
  <2>3. QED
    BY <1>1, <2>2 DEF TunnelInv
<1>2. CASE focus # "permits"
  <2>1. Tunnel!Init
    BY <1>2 DEF Init
  <2>2. Tunnel!IInv
    BY <2>1, StreamFacts, Tunnel!InitIInv
  <2>3. QED
    BY <1>2, <2>2 DEF TunnelInv
<1>3. QED
  BY <1>1, <1>2

LEMMA StreamNext == TunnelInv /\ [Next]_vars => TunnelInv'
<1> SUFFICES ASSUME TunnelInv, [Next]_vars PROVE TunnelInv'
  OBVIOUS
<1>1. focus' = focus
  BY DEF Next, vars
<1>2. CASE focus = "permits"
  <2>1. [Permits!Next]_(Permits!vars)
    <3>1. Permits!Next \/ UNCHANGED streamVars
      BY <1>2 DEF Next, vars
    <3>2. CASE UNCHANGED streamVars
      BY <3>2 DEF streamVars, Permits!vars, Permits!setupVars, Permits!flowVars
    <3>3. QED
      BY <3>1, <3>2
  <2>2. Permits!IInv
    BY <1>2 DEF TunnelInv
  <2>3. Permits!IInv'
    BY <2>1, <2>2, StreamFacts, Permits!NextIInv
  <2>4. QED
    BY <1>1, <1>2, <2>3 DEF TunnelInv
<1>3. CASE focus # "permits"
  <2>1. [Tunnel!Next]_(Tunnel!vars)
    <3>1. Tunnel!Next \/ UNCHANGED streamVars
      BY <1>3 DEF Next, vars
    <3>2. CASE UNCHANGED streamVars
      BY <3>2 DEF streamVars, Tunnel!vars, Tunnel!setupVars, Tunnel!flowVars
    <3>3. QED
      BY <3>1, <3>2
  <2>2. Tunnel!IInv
    BY <1>3 DEF TunnelInv
  <2>3. Tunnel!IInv'
    BY <2>1, <2>2, StreamFacts, Tunnel!NextIInv
  <2>4. QED
    BY <1>1, <1>3, <2>3 DEF TunnelInv
<1>4. QED
  BY <1>2, <1>3

LEMMA StreamAlways == Spec => []TunnelInv
BY StreamInit, StreamNext, PTL DEF Spec

\* Every permit of the shared semaphores comes back, whatever the streams of both
\* devices do and wherever they are aborted (new_stream_semaphore).
THEOREM PermitsAlwaysComeBack == Spec => []PermitsComeBack
<1>1. TunnelInv => PermitsComeBack
  BY DEF TunnelInv, PermitsComeBack, Permits!IInv, Tunnel!IInv
<1>2. QED
  BY <1>1, StreamAlways, PTL

\* An application that reads an end of data has got all that the other one wrote
\* before it shut down (bridge_streams).
THEOREM NothingIsEverCutOff == Spec => []NothingIsCutOff
<1>1. TunnelInv => NothingIsCutOff
  <2> SUFFICES ASSUME TunnelInv PROVE NothingIsCutOff
    OBVIOUS
  <2>1. CASE focus = "permits"
    <3>1. Permits!NothingIsCutOff
      BY <2>1, Permits!CutOffImplied DEF TunnelInv
    <3>2. QED
      BY <3>1, OneStreamAssumption
      DEF NothingIsCutOff, Permits!NothingIsCutOff, Tunnel!NothingIsCutOff,
          Permits!Directions, Tunnel!Directions
  <2>2. CASE focus # "permits"
    BY <2>2, Tunnel!CutOffImplied DEF TunnelInv, NothingIsCutOff
  <2>3. QED
    BY <2>1, <2>2
<1>2. QED
  BY <1>1, StreamAlways, PTL

\* A SOCKS client is told success when and only when it is connected, and otherwise
\* why not (socks_connect_side, read_ack).
THEOREM ClientAlwaysHearsTheTruth == Spec => []ClientHearsTheTruth
<1>1. TunnelInv => ClientHearsTheTruth
  BY Permits!TruthImplied, Tunnel!TruthImplied DEF TunnelInv, ClientHearsTheTruth
<1>2. QED
  BY <1>1, StreamAlways, PTL

\* The pipes of the instance in use.
PipesInv ==
    /\ focus = "permits" => Permits!PipeInv
    /\ focus # "permits" => Tunnel!PipeInv

\* The pipe of a stream is the same in both instances.
LEMMA PipesAgree ==
    ASSUME NEW s
    PROVE  /\ Permits!PipeStep(s) => Tunnel!PipeStep(s)
           /\ Permits!Pipe(s)!Init => Tunnel!Pipe(s)!Init
<1>1. /\ Permits!ClientOf(s) = Tunnel!ClientOf(s)
      /\ Permits!ClientOf(s)' = Tunnel!ClientOf(s)'
  BY DEF Permits!ClientOf, Tunnel!ClientOf
<1>2. /\ Permits!DataOf(s) = Tunnel!DataOf(s)
      /\ Permits!DataOf(s)' = Tunnel!DataOf(s)'
  BY DEF Permits!DataOf, Tunnel!DataOf, Permits!Directions, Tunnel!Directions
<1>3. \A a : Permits!Connected(a) = Tunnel!Connected(a)
  BY DEF Permits!Connected, Tunnel!Connected, Permits!Last, Tunnel!Last
<1>4. Permits!Pipe(s)!Empty = Tunnel!Pipe(s)!Empty
  BY DEF Permits!Pipe!Empty, Tunnel!Pipe!Empty, Permits!Pipe!Directions, Tunnel!Pipe!Directions
<1>5. Permits!Pipe(s)!Init => Tunnel!Pipe(s)!Init
  BY <1>1, <1>2, <1>3, <1>4, Zenon DEF Permits!Pipe!Init, Tunnel!Pipe!Init
<1>6. UNCHANGED Permits!Pipe(s)!vars => UNCHANGED Tunnel!Pipe(s)!vars
  BY <1>1, <1>2, <1>3 DEF Permits!Pipe!vars, Tunnel!Pipe!vars
<1>7. /\ Permits!Pipe(s)!Ask => Tunnel!Pipe(s)!Ask
      /\ Permits!Pipe(s)!Reach => Tunnel!Pipe(s)!Reach
      /\ Permits!Pipe(s)!Tell => Tunnel!Pipe(s)!Tell
      /\ Permits!Pipe(s)!Refuse => Tunnel!Pipe(s)!Refuse
      /\ Permits!Pipe(s)!Forget => Tunnel!Pipe(s)!Forget
  BY <1>1, <1>2, <1>3, <1>4
  DEF Permits!Pipe!Ask, Tunnel!Pipe!Ask, Permits!Pipe!Reach, Tunnel!Pipe!Reach,
      Permits!Pipe!Tell, Tunnel!Pipe!Tell, Permits!Pipe!Refuse, Tunnel!Pipe!Refuse,
      Permits!Pipe!Forget, Tunnel!Pipe!Forget
<1>8. ASSUME NEW dir \in {"up", "down"}
      PROVE  /\ Permits!Pipe(s)!SourceOpen(dir) <=> Tunnel!Pipe(s)!SourceOpen(dir)
             /\ Permits!Pipe(s)!SinkOpen(dir) <=> Tunnel!Pipe(s)!SinkOpen(dir)
  BY <1>1, <1>3
  DEF Permits!Pipe!SourceOpen, Tunnel!Pipe!SourceOpen, Permits!Pipe!SinkOpen, Tunnel!Pipe!SinkOpen
<1>9. ASSUME NEW dir \in {"up", "down"}
      PROVE  /\ Permits!Pipe(s)!Write(dir) => Tunnel!Pipe(s)!Write(dir)
             /\ Permits!Pipe(s)!Shut(dir) => Tunnel!Pipe(s)!Shut(dir)
             /\ Permits!Pipe(s)!Deliver(dir) => Tunnel!Pipe(s)!Deliver(dir)
             /\ Permits!Pipe(s)!End(dir) => Tunnel!Pipe(s)!End(dir)
  BY <1>1, <1>2, <1>3, <1>8
  DEF Permits!Pipe!Write, Tunnel!Pipe!Write, Permits!Pipe!Shut, Tunnel!Pipe!Shut,
      Permits!Pipe!Deliver, Tunnel!Pipe!Deliver, Permits!Pipe!End, Tunnel!Pipe!End
<1>10. \A ends : Permits!Pipe(s)!Break(ends) => Tunnel!Pipe(s)!Break(ends)
  BY <1>1, <1>2, <1>3
  DEF Permits!Pipe!Break, Tunnel!Pipe!Break, Permits!Pipe!Directions, Tunnel!Pipe!Directions
<1>11. Permits!Pipe(s)!Next => Tunnel!Pipe(s)!Next
  BY <1>7, <1>9, <1>10
  DEF Permits!Pipe!Next, Tunnel!Pipe!Next, Permits!Pipe!Directions, Tunnel!Pipe!Directions
<1>12. QED
  BY <1>5, <1>6, <1>11 DEF Permits!PipeStep, Tunnel!PipeStep

LEMMA PipesInit == Init => PipesInv /\ \A s \in OneStream : Tunnel!Pipe(s)!Init
<1> SUFFICES ASSUME Init PROVE PipesInv /\ \A s \in OneStream : Tunnel!Pipe(s)!Init
  OBVIOUS
<1>1. CASE focus = "permits"
  <2>1. Permits!Init
    BY <1>1 DEF Init
  <2>2. Permits!PipeInv /\ \A s \in Streams : Permits!Pipe(s)!Init
    BY <2>1, Permits!InitPipe
  <2>3. QED
    BY <1>1, <2>2, PipesAgree, OneStreamAssumption DEF PipesInv
<1>2. CASE focus # "permits"
  <2>1. Tunnel!Init
    BY <1>2 DEF Init
  <2>2. QED
    BY <1>2, <2>1, Tunnel!InitPipe DEF PipesInv
<1>3. QED
  BY <1>1, <1>2

LEMMA PipesNext ==
    TunnelInv /\ TunnelInv' /\ PipesInv /\ [Next]_vars =>
        PipesInv' /\ \A s \in OneStream : Tunnel!PipeStep(s)
<1> SUFFICES ASSUME TunnelInv, TunnelInv', PipesInv, [Next]_vars
             PROVE  PipesInv' /\ \A s \in OneStream : Tunnel!PipeStep(s)
  OBVIOUS
<1>1. focus' = focus
  BY DEF Next, vars
<1>2. CASE focus = "permits"
  <2>1. [Permits!Next]_(Permits!vars)
    <3>1. Permits!Next \/ UNCHANGED streamVars
      BY <1>2 DEF Next, vars
    <3>2. CASE UNCHANGED streamVars
      BY <3>2 DEF streamVars, Permits!vars, Permits!setupVars, Permits!flowVars
    <3>3. QED
      BY <3>1, <3>2
  <2>2. Permits!IInv /\ Permits!IInv' /\ Permits!PipeInv
    BY <1>1, <1>2 DEF TunnelInv, PipesInv
  <2>3. Permits!PipeInv' /\ \A s \in Streams : Permits!PipeStep(s)
    BY <2>1, <2>2, Permits!NextPipe
  <2>4. QED
    BY <1>1, <1>2, <2>3, PipesAgree, OneStreamAssumption DEF PipesInv
<1>3. CASE focus # "permits"
  <2>1. [Tunnel!Next]_(Tunnel!vars)
    <3>1. Tunnel!Next \/ UNCHANGED streamVars
      BY <1>3 DEF Next, vars
    <3>2. CASE UNCHANGED streamVars
      BY <3>2 DEF streamVars, Tunnel!vars, Tunnel!setupVars, Tunnel!flowVars
    <3>3. QED
      BY <3>1, <3>2
  <2>2. Tunnel!IInv /\ Tunnel!IInv' /\ Tunnel!PipeInv
    BY <1>1, <1>3 DEF TunnelInv, PipesInv
  <2>3. QED
    BY <1>1, <1>3, <2>1, <2>2, Tunnel!NextPipe DEF PipesInv
<1>4. QED
  BY <1>2, <1>3

\* A tunnelled stream is the pipe that its client and its target expect, whatever
\* happens to the tasks, permits and acknowledgements behind it (handle_socks_client,
\* socks_connect_side, bridge_streams).
THEOREM StreamsArePipes == Spec => ImplementsPipe
<1>1. Init => TunnelInv /\ PipesInv /\ \A s \in OneStream : Tunnel!Pipe(s)!Init
  BY StreamInit, PipesInit
<1>2. TunnelInv /\ PipesInv /\ [Next]_vars =>
        /\ (TunnelInv /\ PipesInv)'
        /\ [\A s \in OneStream : [Tunnel!Pipe(s)!Next]_(Tunnel!Pipe(s)!vars)]_(Tunnel!vars)
  BY StreamNext, PipesNext DEF Tunnel!PipeStep
<1>3. QED
  BY <1>1, <1>2, PTL DEF Spec, ImplementsPipe, Tunnel!ImplementsPipe

------------------------------------------------------------------------------
(* The rotating PIN. *)

LEMMA PinAlways == Spec => []Pin!IInv
<1>1. Init => Pin!IInv
  BY PinAssumption, Pin!InitIInv DEF Init
<1>2. Pin!IInv /\ [Next]_vars => Pin!IInv'
  <2> SUFFICES ASSUME Pin!IInv, [Next]_vars PROVE Pin!IInv'
    OBVIOUS
  <2>1. Pin!Next \/ UNCHANGED pinVars
    BY DEF Next, vars
  <2>2. CASE UNCHANGED pinVars
    BY <2>2, PinAssumption, Pin!NextIInv DEF pinVars, Pin!vars
  <2>3. [Pin!Next]_(Pin!vars)
    BY <2>1 DEF pinVars, Pin!vars
  <2>4. QED
    BY <2>3, PinAssumption, Pin!NextIInv
<1>3. QED
  BY <1>1, <1>2, PTL DEF Spec

\* A PIN that was on the screen leads to its listener within the clock skew that the
\* buckets allow, however long they are, given room for three PINs in the cache: the
\* code's RECENT_PIN_CACHE (lookup_pin_record, RecentPins).
THEOREM PinReaches ==
    ASSUME PinCache >= 3
    PROVE  Spec => []PinReachesTheListener
<1>1. Pin!IInv => PinReachesTheListener
  BY PinAssumption, Pin!ReachImplied DEF PinReachesTheListener
<1>2. QED
  BY <1>1, PinAlways, PTL

------------------------------------------------------------------------------
(* Start-up. *)

LEMMA StartAlways == Spec => []Start!IInv
<1>1. Init => Start!IInv
  BY Start!InitIInv DEF Init
<1>2. Start!IInv /\ [Next]_vars => Start!IInv'
  <2> SUFFICES ASSUME Start!IInv, [Next]_vars PROVE Start!IInv'
    OBVIOUS
  <2>1. Start!Next \/ UNCHANGED startVars
    BY DEF Next, vars
  <2>2. [Start!Next]_(Start!vars)
    BY <2>1 DEF startVars, Start!vars
  <2>3. QED
    BY <2>2, Start!NextIInv
<1>3. QED
  BY <1>1, <1>2, PTL DEF Spec

\* No two processes publish under one name of one pairing, for any number of
\* processes, names and tokens (acquire_name_lock).
THEOREM OneOwner == Spec => []OneOwnerPerStateFile
<1>1. Start!IInv => OneOwnerPerStateFile
  BY Start!OwnerImplied DEF OneOwnerPerStateFile
<1>2. QED
  BY <1>1, StartAlways, PTL

\* A run that was given its token, or pairs by PIN, puts no token on the screen from its
\* launch to its end, its setup screen with the token typed in full included; and a
\* relay-only run stays so, for any number of processes and tokens (resolve_config_auth_token,
\* render_token_phase, create_endpoint_builder).
THEOREM SecretsPrivate == Spec => []SecretsStayPrivate
<1>1. Start!IInv => SecretsStayPrivate
  BY Start!SecretsImplied DEF SecretsStayPrivate
<1>2. QED
  BY <1>1, StartAlways, PTL

------------------------------------------------------------------------------
(* The headless dial. *)

LEMMA DialInit == Init => DialInv
<1> SUFFICES ASSUME Init PROVE DialInv
  OBVIOUS
<1>1. /\ pc = "resolve" /\ established = FALSE /\ attempts = 0 /\ tries = 0 /\ outcome = "none"
  BY DEF Init, Dialer!Init
<1>2. MaxInitialAttempts \in Nat /\ 0 < MaxInitialAttempts
  BY DialAssumption DEF Dialer!AttemptsAssumption
<1>3. QED
  BY <1>1, <1>2 DEF DialInv, GivesUpOnTime, Dialer!GivesUpOnTime

LEMMA DialNext == DialInv /\ [Next]_vars => DialInv'
<1> SUFFICES ASSUME DialInv, [Next]_vars PROVE DialInv'
  OBVIOUS
<1> USE DEF DialInv, GivesUpOnTime, Dialer!GivesUpOnTime, Dialer!counters, Dialer!history, Dialer!End
<1>1. MaxInitialAttempts \in Nat
  BY DialAssumption DEF Dialer!AttemptsAssumption
<1>2. Dialer!Next \/ UNCHANGED dialVars
  BY DEF Next, vars
<1>3. CASE UNCHANGED dialVars
  BY <1>3 DEF dialVars
<1>4. CASE Dialer!Attempt
  BY <1>4 DEF Dialer!Attempt
<1>5. CASE Dialer!Connect
  BY <1>5 DEF Dialer!Connect
<1>6. CASE Dialer!AuthAccepted
  BY <1>6 DEF Dialer!AuthAccepted
<1>7. CASE Dialer!AuthRejected
  BY <1>7 DEF Dialer!AuthRejected
<1>8. CASE Dialer!AuthTimesOut
  BY <1>8 DEF Dialer!AuthTimesOut
<1>9. CASE Dialer!AuthBreaks
  BY <1>9 DEF Dialer!AuthBreaks
<1>10. CASE Dialer!ServeEnds
  BY <1>10 DEF Dialer!ServeEnds
<1>11. CASE Dialer!Count
  <2>1. CASE established
    BY <1>11, <2>1 DEF Dialer!Count
  <2>2. CASE ~established
    BY <1>1, <1>11, <2>2 DEF Dialer!Count
  <2>3. QED
    BY <2>1, <2>2
<1>12. CASE Dialer!Sleep
  BY <1>12 DEF Dialer!Sleep
<1>13. CASE Dialer!Quit
  BY <1>13 DEF Dialer!Quit
<1>14. QED
  BY <1>2, <1>3, <1>4, <1>5, <1>6, <1>7, <1>8, <1>9, <1>10, <1>11, <1>12, <1>13
  DEF Dialer!Next, Dialer!Loop

\* The headless dial gives up on an unreachable peer after exactly the permitted
\* attempts, and never once it was served, for every cap (run_dial).
THEOREM GivesUpExactlyOnTime == Spec => []GivesUpOnTime
<1>1. DialInv => GivesUpOnTime
  BY DEF DialInv
<1>2. QED
  BY <1>1, DialInit, DialNext, PTL DEF Spec

------------------------------------------------------------------------------
(* Powers of two. *)

\* There are 2 ^ n sets of the numbers 1 .. n: what the dial loop needs of the powers
\* is a matter of counting them.
LEMMA PowerCounts ==
    ASSUME NEW n \in Nat
    PROVE  /\ IsFiniteSet(SUBSET (1 .. n)) /\ Cardinality(SUBSET (1 .. n)) = 2 ^ n
           /\ 2 ^ n \in Nat
<1>1. IsFiniteSet(1 .. n) /\ Cardinality(1 .. n) = n
  BY FS_Interval
<1>2. IsFiniteSet(SUBSET (1 .. n)) /\ Cardinality(SUBSET (1 .. n)) = 2 ^ n
  BY <1>1, FS_SUBSET
<1>3. QED
  BY <1>2, FS_CardinalityType

\* With one number more, every set comes with it and without it.
LEMMA PowerDoubles ==
    ASSUME NEW n \in Nat
    PROVE  2 ^ (n + 1) = 2 * 2 ^ n
<1> DEFINE S == SUBSET (1 .. n)
           with == [A \in S |-> A \cup {n + 1}]
           U == {A \cup {n + 1} : A \in S}
<1>1. with \in Bijection(S, U)
  <2>1. \A A, B \in S : with[A] = with[B] => A = B
    <3>1. \A A \in S : n + 1 \notin A
      OBVIOUS
    <3>2. \A A \in S : with[A] \ {n + 1} = A
      BY <3>1
    <3>3. QED
      BY <3>2
  <2>2. with \in [S -> U]
    <3>1. \A A \in S : A \cup {n + 1} \in U
      OBVIOUS
    <3> HIDE DEF S, U
    <3>2. QED
      BY <3>1
  <2>3. \A t \in U : \E A \in S : with[A] = t
    OBVIOUS
  <2> HIDE DEF with, S, U
  <2>4. with \in Injection(S, U)
    BY <2>1, <2>2 DEF Injection, IsInjective
  <2>5. with \in Surjection(S, U)
    BY <2>2, <2>3 DEF Surjection
  <2>6. QED
    BY <2>4, <2>5 DEF Bijection
<1>2. IsFiniteSet(S) /\ Cardinality(S) = 2 ^ n /\ 2 ^ n \in Nat
  BY PowerCounts
<1>3. IsFiniteSet(U) /\ Cardinality(U) = 2 ^ n
  BY <1>1, <1>2, FS_Bijection DEF ExistsBijection
<1>4. SUBSET (1 .. n + 1) = S \cup U
  <2>1. ASSUME NEW A \in SUBSET (1 .. n + 1) PROVE A \in S \cup U
    <3>1. A \ {n + 1} \in S
      OBVIOUS
    <3>2. CASE n + 1 \in A
      <4>1. A = (A \ {n + 1}) \cup {n + 1}
        BY <3>2
      <4>2. QED
        BY <3>1, <4>1
    <3>3. CASE n + 1 \notin A
      <4>1. A = A \ {n + 1}
        BY <3>3
      <4>2. QED
        BY <3>1, <4>1
    <3>4. QED
      BY <3>2, <3>3
  <2>2. ASSUME NEW A \in S PROVE A \in SUBSET (1 .. n + 1) /\ A \cup {n + 1} \in SUBSET (1 .. n + 1)
    OBVIOUS
  <2> HIDE DEF S
  <2>3. QED
    BY <2>1, <2>2
<1>5. S \cap U = {}
  <2>1. \A A \in S : n + 1 \notin A
    OBVIOUS
  <2>2. \A A \in U : n + 1 \in A
    OBVIOUS
  <2> HIDE DEF S, U
  <2>3. QED
    BY <2>1, <2>2
<1>6. Cardinality(S \cup U) = Cardinality(S) + Cardinality(U) - Cardinality(S \cap U)
  BY <1>2, <1>3, FS_Union
<1>7. Cardinality(S \cap U) = 0
  BY <1>5, FS_EmptySet
<1>8. Cardinality(SUBSET (1 .. n + 1)) = 2 ^ (n + 1)
  BY PowerCounts
<1> HIDE DEF S, U
<1> DEFINE power == 2 ^ n
<1>9. power \in Nat /\ 2 ^ (n + 1) = power + power - 0
  BY <1>2, <1>3, <1>4, <1>6, <1>7, <1>8
<1> HIDE DEF power
<1>10. 2 ^ (n + 1) = 2 * power
  BY <1>9
<1>11. QED
  BY <1>10 DEF power

\* The sets 1 .. i for i up to n are n + 1 of them.
LEMMA PowerExceeds ==
    ASSUME NEW n \in Nat
    PROVE  n + 1 <= 2 ^ n
<1> DEFINE f == [i \in 0 .. n |-> 1 .. i]
<1>1. \A i, j \in 0 .. n : 1 .. i = 1 .. j => i = j
  <2>1. ASSUME NEW i \in 0 .. n, NEW j \in 0 .. n, 1 .. i = 1 .. j, i < j PROVE FALSE
    <3>1. j \in 1 .. j /\ j \notin 1 .. i
      BY <2>1
    <3>2. QED
      BY <2>1, <3>1
  <2>2. QED
    BY <2>1
<1>2. f \in Injection(0 .. n, SUBSET (1 .. n))
  <2>1. f \in [0 .. n -> SUBSET (1 .. n)]
    OBVIOUS
  <2>2. \A i, j \in 0 .. n : f[i] = f[j] => i = j
    BY <1>1
  <2> HIDE DEF f
  <2>3. QED
    BY <2>1, <2>2 DEF Injection, IsInjective
<1>3. Cardinality(0 .. n) <= Cardinality(SUBSET (1 .. n))
  BY <1>2, PowerCounts, FS_Injection
<1>4. Cardinality(0 .. n) = n + 1
  BY FS_Interval
<1>5. Cardinality(SUBSET (1 .. n)) = 2 ^ n
  BY PowerCounts
<1> DEFINE power == 2 ^ n
<1>6. n + 1 <= power
  <2> HIDE DEF power
  <2>1. Cardinality(SUBSET (1 .. n)) = power
    BY <1>5 DEF power
  <2>2. QED
    BY <1>3, <1>4, <2>1
<1>7. QED
  BY <1>6

------------------------------------------------------------------------------
(* The wait between two attempts. *)

\* The wait that follows n failures in a row.
Wait(n) == Dialer!Lesser(2 ^ n, MaxBackoff)

\* The loop doubles its wait when it has slept, so that asleep it is one power behind.
BackoffInv ==
    /\ waits \in 0 .. MaxBackoff
    /\ pc = "sleep" => waits > 0 /\ backoff = Wait(waits - 1)
    /\ pc \notin {"sleep", "over"} => backoff = Wait(waits)

LEMMA WaitFacts ==
    /\ MaxBackoff \in Nat /\ 0 < MaxBackoff /\ Wait(0) = 1
    /\ \A n \in Nat : Wait(n) \in Nat
    /\ \A n \in Nat : Dialer!Lesser(Wait(n) * 2, MaxBackoff) = Wait(n + 1)
    /\ Wait(MaxBackoff - 1) = MaxBackoff /\ Wait(MaxBackoff) = MaxBackoff
<1>1. MaxBackoff \in Nat /\ 0 < MaxBackoff
  BY DialAssumption DEF Dialer!BackoffAssumption
<1>2. Wait(0) = 1
  <2>1. 2 ^ 0 = 1
    OBVIOUS
  <2>2. QED
    BY <1>1, <2>1 DEF Wait, Dialer!Lesser
<1>3. ASSUME NEW n \in Nat
      PROVE  Wait(n) \in Nat /\ Dialer!Lesser(Wait(n) * 2, MaxBackoff) = Wait(n + 1)
  <2> DEFINE power == 2 ^ n
             next == 2 ^ (n + 1)
  <2>1. power \in Nat /\ next = 2 * power
    BY PowerCounts, PowerDoubles
  <2>2. /\ Wait(n) = IF power < MaxBackoff THEN power ELSE MaxBackoff
        /\ Wait(n + 1) = IF next < MaxBackoff THEN next ELSE MaxBackoff
    BY DEF Wait, Dialer!Lesser
  <2> HIDE DEF power, next
  <2>3. QED
    BY <1>1, <2>1, <2>2 DEF Dialer!Lesser
<1>4. ASSUME NEW n \in Nat, MaxBackoff <= n + 1 PROVE Wait(n) = MaxBackoff
  <2> DEFINE power == 2 ^ n
  <2>1. power \in Nat /\ n + 1 <= power
    BY PowerCounts, PowerExceeds
  <2>2. Wait(n) = IF power < MaxBackoff THEN power ELSE MaxBackoff
    BY DEF Wait, Dialer!Lesser
  <2> HIDE DEF power
  <2>3. QED
    BY <1>1, <1>4, <2>1, <2>2
<1>5. Wait(MaxBackoff - 1) = MaxBackoff
  <2>1. MaxBackoff - 1 \in Nat /\ MaxBackoff <= MaxBackoff - 1 + 1
    BY <1>1
  <2> HIDE DEF Wait
  <2>2. QED
    BY <1>4, <2>1
<1>6. Wait(MaxBackoff) = MaxBackoff
  BY <1>1, <1>4
<1>7. QED
  BY <1>1, <1>2, <1>3, <1>5, <1>6

LEMMA BackoffInit == Init => BackoffInv
<1> SUFFICES ASSUME Init PROVE BackoffInv
  OBVIOUS
<1>1. pc = "resolve" /\ backoff = 1 /\ waits = 0
  BY DEF Init, Dialer!Init
<1>2. MaxBackoff \in Nat /\ Wait(0) = 1
  BY WaitFacts
<1> HIDE DEF Wait
<1>3. QED
  BY <1>1, <1>2 DEF BackoffInv

LEMMA BackoffNext == BackoffInv /\ [Next]_vars => BackoffInv'
<1> SUFFICES ASSUME BackoffInv, [Next]_vars PROVE BackoffInv'
  OBVIOUS
<1> USE DEF Dialer!counters, Dialer!history, Dialer!End
<1> HIDE DEF Wait
<1>1. Dialer!Next \/ UNCHANGED dialVars
  BY DEF Next, vars
<1>2. /\ waits \in 0 .. MaxBackoff
      /\ pc = "sleep" => waits > 0 /\ backoff = Wait(waits - 1)
      /\ pc \notin {"sleep", "over"} => backoff = Wait(waits)
      /\ MaxBackoff \in Nat /\ 0 < MaxBackoff
  BY WaitFacts DEF BackoffInv
<1>3. CASE \/ UNCHANGED dialVars
           \/ Dialer!Attempt \/ Dialer!Connect \/ Dialer!AuthAccepted \/ Dialer!AuthRejected
           \/ Dialer!AuthTimesOut \/ Dialer!AuthBreaks \/ Dialer!Quit
  <2>1. /\ waits' = waits /\ backoff' = backoff
        /\ \/ pc' = pc
           \/ pc' = "over"
           \/ pc' # "sleep" /\ pc \notin {"sleep", "over"}
    BY <1>3 DEF dialVars, Dialer!Attempt, Dialer!Connect, Dialer!AuthAccepted, Dialer!AuthRejected,
                Dialer!AuthTimesOut, Dialer!AuthBreaks, Dialer!Quit
  <2>2. QED
    BY <1>2, <2>1 DEF BackoffInv
<1>4. CASE Dialer!ServeEnds
  <2>1. pc' = "count" /\ backoff' = 1 /\ waits' = 0
    BY <1>4 DEF Dialer!ServeEnds
  <2>2. Wait(0) = 1
    BY WaitFacts
  <2>3. QED
    BY <1>2, <2>1, <2>2 DEF BackoffInv
<1>5. CASE Dialer!Count
  <2>1. CASE pc' = "over"
    <3>1. waits' = waits
      BY <1>5, <2>1 DEF Dialer!Count
    <3>2. QED
      BY <1>2, <2>1, <3>1 DEF BackoffInv
  <2>2. CASE pc' # "over"
    <3>1. /\ pc = "count" /\ pc' = "sleep" /\ backoff' = backoff
          /\ waits' = IF waits + 1 < MaxBackoff THEN waits + 1 ELSE MaxBackoff
      BY <1>5, <2>2 DEF Dialer!Count, Dialer!Lesser
    <3>2. waits' \in 1 .. MaxBackoff
      BY <1>2, <3>1
    <3>3. backoff = Wait(waits' - 1)
      <4>1. CASE waits = MaxBackoff
        <5>1. waits' = MaxBackoff
          BY <1>2, <3>1, <4>1
        <5>2. QED
          BY <1>2, <3>1, <4>1, <5>1, WaitFacts
      <4>2. CASE waits # MaxBackoff
        <5>1. waits' - 1 = waits
          BY <1>2, <3>1, <4>2
        <5>2. QED
          BY <1>2, <3>1, <5>1
      <4>3. QED
        BY <4>1, <4>2
    <3>4. QED
      BY <3>1, <3>2, <3>3 DEF BackoffInv
  <2>3. QED
    BY <2>1, <2>2
<1>6. CASE Dialer!Sleep
  <2>1. pc = "sleep" /\ waits' = waits
    BY <1>6 DEF Dialer!Sleep
  <2>2. CASE pc' = "over"
    BY <1>2, <2>1, <2>2 DEF BackoffInv
  <2>3. CASE pc' # "over"
    <3>1. pc' = "resolve" /\ backoff' = Dialer!Lesser(backoff * 2, MaxBackoff)
      BY <1>6, <2>3 DEF Dialer!Sleep
    <3>2. waits - 1 \in Nat /\ waits - 1 + 1 = waits /\ backoff = Wait(waits - 1)
      BY <1>2, <2>1
    <3>3. Dialer!Lesser(Wait(waits - 1) * 2, MaxBackoff) = Wait(waits - 1 + 1)
      BY <3>2, WaitFacts
    <3>4. backoff' = Wait(waits)
      BY <3>1, <3>2, <3>3
    <3>5. QED
      BY <1>2, <2>1, <3>1, <3>4 DEF BackoffInv
  <2>4. QED
    BY <2>2, <2>3
<1>7. QED
  BY <1>1, <1>3, <1>4, <1>5, <1>6 DEF Dialer!Next, Dialer!Loop

\* The n-th wait in a row lasts 2 ^ (n - 1) seconds up to the cap, whatever the cap, and
\* the first wait after a served session one second again (run_dial).
THEOREM BackoffDoubles == Spec => []BackoffFollowsFailures
<1>1. BackoffInv => BackoffFollowsFailures
  BY DEF BackoffInv, BackoffFollowsFailures, Dialer!BackoffFollowsFailures, Wait
<1>2. QED
  BY <1>1, BackoffInit, BackoffNext, PTL DEF Spec

------------------------------------------------------------------------------
(* The log. *)

\* The latest n of a sequence.
LEMMA LatestFacts ==
    ASSUME NEW seq \in Seq(Nat), NEW n \in Nat
    PROVE  LET latest == Log!Latest(n, seq)
               older == Len(seq) - Len(latest)
           IN  /\ latest \in Seq(Nat)
               /\ Len(latest) = IF Len(seq) > n THEN n ELSE Len(seq)
               /\ \A i \in 1 .. Len(latest) : latest[i] = seq[older + i]
<1> DEFINE first == Log!Less(Len(seq), n) + 1
           latest == SubSeq(seq, first, Len(seq))
<1>1. first = IF Len(seq) > n THEN Len(seq) - n + 1 ELSE 1
  BY DEF Log!Less
<1>2. first \in Int /\ first > 0 /\ Len(seq) \in Nat
  BY <1>1
<1> HIDE DEF first
<1>3. \A i \in first .. Len(seq) : seq[i] \in Nat
  BY <1>2, ElementOfSeq
<1>4. /\ latest \in Seq(Nat)
      /\ Len(latest) = IF first <= Len(seq) THEN Len(seq) - first + 1 ELSE 0
      /\ \A i \in 1 .. Len(seq) - first + 1 : latest[i] = seq[first + i - 1]
  BY <1>2, <1>3, SubSeqProperties
<1> HIDE DEF latest
<1>5. Len(latest) = IF Len(seq) > n THEN n ELSE Len(seq)
  <2> DEFINE long == Len(seq)
             kept == Len(latest)
  <2>1. /\ long \in Nat
        /\ first = IF long > n THEN long - n + 1 ELSE 1
        /\ kept = IF first <= long THEN long - first + 1 ELSE 0
    BY <1>1, <1>2, <1>4
  <2> HIDE DEF long, kept
  <2>2. kept = IF long > n THEN n ELSE long
    BY <2>1
  <2>3. QED
    BY <2>2 DEF long, kept
<1>6. ASSUME NEW i \in 1 .. Len(latest)
      PROVE  latest[i] = seq[Len(seq) - Len(latest) + i]
  <2> DEFINE long == Len(seq)
             kept == Len(latest)
  <2>1. /\ long \in Nat /\ i \in 1 .. kept
        /\ first = IF long > n THEN long - n + 1 ELSE 1
        /\ kept = IF long > n THEN n ELSE long
    BY <1>1, <1>2, <1>5
  <2> HIDE DEF long, kept
  <2>2. first + i - 1 = long - kept + i /\ i \in 1 .. long - first + 1
    BY <2>1
  <2>3. QED
    BY <1>4, <2>2 DEF long, kept
<1>7. Log!Latest(n, seq) = latest
  BY DEF Log!Latest, first, latest
<1>8. QED
  BY <1>4, <1>5, <1>6, <1>7

\* A ring that takes what a sequence is extended by goes on holding its latest.
LEMMA PutLatest ==
    ASSUME NEW seq \in Seq(Nat), NEW stamp \in Nat
    PROVE  Log!Put(Log!Latest(Cap, seq), stamp) = Log!Latest(Cap, Append(seq, stamp))
<1> DEFINE ring == Log!Latest(Cap, seq)
           longer == Append(seq, stamp)
           next == Log!Latest(Cap, longer)
           kept == IF Len(ring) >= Cap THEN Tail(ring) ELSE ring
<1>1. Cap \in Nat
  BY LogAssumption DEF Log!PaneAssumption
<1>2. /\ longer \in Seq(Nat) /\ Len(longer) = Len(seq) + 1
      /\ \A i \in 1 .. Len(seq) : longer[i] = seq[i]
      /\ longer[Len(seq) + 1] = stamp
  BY AppendProperties
<1>3. /\ ring \in Seq(Nat)
      /\ Len(ring) = IF Len(seq) > Cap THEN Cap ELSE Len(seq)
      /\ \A i \in 1 .. Len(ring) : ring[i] = seq[Len(seq) - Len(ring) + i]
  BY <1>1, LatestFacts
<1> HIDE DEF longer
<1>4. /\ next \in Seq(Nat)
      /\ Len(next) = IF Len(longer) > Cap THEN Cap ELSE Len(longer)
      /\ \A i \in 1 .. Len(next) : next[i] = longer[Len(longer) - Len(next) + i]
  BY <1>1, <1>2, LatestFacts
<1>5. Log!Put(ring, stamp) = IF Cap = 0 THEN ring ELSE Append(kept, stamp)
  BY DEF Log!Put
<1> HIDE DEF ring, next
<1>6. Len(seq) \in Nat
  OBVIOUS
<1>7. CASE Cap = 0
  <2>1. Len(ring) = 0 /\ Len(next) = 0
    BY <1>2, <1>3, <1>4, <1>6, <1>7
  <2>2. ring = <<>> /\ next = <<>>
    BY <1>3, <1>4, <2>1, EmptySeq
  <2>3. QED
    BY <1>5, <1>7, <2>2 DEF ring, next, longer
<1>8. CASE Cap # 0
  <2>1. /\ kept \in Seq(Nat)
        /\ Len(kept) + 1 = Len(next)
        /\ \A i \in 1 .. Len(kept) : kept[i] = seq[Len(seq) - Len(kept) + i]
    <3>1. CASE Len(ring) >= Cap
      <4>1. Len(ring) = Cap /\ Len(seq) >= Cap /\ Len(next) = Cap
        BY <1>1, <1>2, <1>3, <1>4, <1>6, <3>1
      <4>2. ring # <<>>
        BY <1>1, <1>8, <4>1, EmptySeq
      <4>3. /\ kept \in Seq(Nat) /\ Len(kept) = Len(ring) - 1
            /\ \A i \in 1 .. Len(kept) : kept[i] = ring[i + 1]
        BY <1>3, <3>1, <4>2, HeadTailProperties
      <4> HIDE DEF kept
      <4>4. ASSUME NEW i \in 1 .. Len(kept) PROVE kept[i] = seq[Len(seq) - Len(kept) + i]
        <5>1. i + 1 \in 1 .. Len(ring) /\ Len(seq) - Len(ring) + (i + 1) = Len(seq) - Len(kept) + i
          BY <1>1, <1>6, <4>1, <4>3
        <5>2. QED
          BY <1>3, <4>3, <5>1
      <4>5. QED
        BY <1>1, <4>1, <4>3, <4>4
    <3>2. CASE Len(ring) < Cap
      <4>1. Len(ring) = Len(seq) /\ Len(next) = Len(ring) + 1
        <5> DEFINE long == Len(seq)
                   held == Len(ring)
                   nextHeld == Len(next)
        <5>1. /\ long \in Nat /\ held < Cap
              /\ held = IF long > Cap THEN Cap ELSE long
              /\ nextHeld = IF long + 1 > Cap THEN Cap ELSE long + 1
          BY <1>2, <1>3, <1>4, <1>6, <3>2
        <5> HIDE DEF long, held, nextHeld
        <5>2. held = long /\ nextHeld = held + 1
          BY <1>1, <5>1
        <5>3. QED
          BY <5>2 DEF long, held, nextHeld
      <4>2. kept = ring
        BY <1>1, <1>6, <3>2, <4>1
      <4> HIDE DEF kept
      <4>3. QED
        BY <1>3, <4>1, <4>2
    <3>3. Len(ring) \in Nat
      BY <1>3
    <3>4. Len(ring) >= Cap \/ Len(ring) < Cap
      BY <1>1, <3>3
    <3>5. QED
      BY <3>1, <3>2, <3>4
  <2> HIDE DEF kept
  <2> DEFINE put == Append(kept, stamp)
  <2>2. /\ put \in Seq(Nat) /\ Len(put) = Len(kept) + 1
        /\ \A i \in 1 .. Len(kept) : put[i] = kept[i]
        /\ put[Len(kept) + 1] = stamp
    BY <2>1, AppendProperties
  <2> HIDE DEF put
  <2>3. Len(put) = Len(next)
    BY <2>1, <2>2
  <2>4. ASSUME NEW i \in 1 .. Len(put) PROVE put[i] = next[i]
    <3>1. Len(kept) \in Nat /\ Len(put) <= Len(seq) + 1
      BY <1>1, <1>2, <1>4, <1>6, <2>1, <2>3
    <3>2. next[i] = longer[Len(longer) - Len(next) + i]
      BY <1>4, <2>3
    <3> DEFINE long == Len(seq)
               held == Len(kept)
    <3>3. /\ long \in Nat /\ held \in Nat /\ held <= long /\ i \in 1 .. held + 1
          /\ Len(longer) = long + 1 /\ Len(next) = held + 1
      BY <1>2, <1>6, <2>1, <2>2, <2>3, <3>1
    <3>4. CASE i = held + 1
      <4>1. Len(longer) - Len(next) + i = long + 1
        <5> HIDE DEF long, held
        <5>1. QED
          BY <3>3, <3>4
      <4>2. QED
        BY <1>2, <2>2, <3>2, <3>4, <4>1
    <3>5. CASE i # held + 1
      <4>1. /\ i \in 1 .. held
            /\ Len(longer) - Len(next) + i = long - held + i
            /\ long - held + i \in 1 .. long
        <5> HIDE DEF long, held
        <5>1. QED
          BY <3>3, <3>5
      <4>2. put[i] = kept[i] /\ kept[i] = seq[long - held + i]
        BY <2>1, <2>2, <4>1
      <4>3. next[i] = longer[long - held + i]
        BY <3>2, <4>1
      <4>4. QED
        BY <1>2, <4>1, <4>2, <4>3
    <3>6. QED
      BY <3>4, <3>5
  <2>5. put = next
    BY <1>4, <2>2, <2>3, <2>4, SeqEqual
  <2>6. QED
    BY <1>5, <1>8, <2>5 DEF ring, next, longer, put
<1>9. QED
  BY <1>7, <1>8

LogInv ==
    /\ scroll \in Nat /\ verbose \in BOOLEAN
    /\ pushed \in [{"concise", "churn"} -> Seq(Nat)]
    /\ Log!LogsKeepTheLatest

\* How long the rings are follows from what was pushed.
LEMMA RingLengths ==
    ASSUME LogInv
    PROVE  /\ pushed["concise"] \in Seq(Nat) /\ Len(pushed["concise"]) \in Nat
           /\ pushed["churn"] \in Seq(Nat) /\ Len(pushed["churn"]) \in Nat
           /\ concise \in Seq(Nat) /\ Len(concise) \in Nat
           /\ churn \in Seq(Nat) /\ Len(churn) \in Nat
           /\ Log!Lines \in Nat /\ scroll \in Nat /\ scroll <= Log!Lines
<1>1. Cap \in Nat
  BY LogAssumption DEF Log!PaneAssumption
<1>2. pushed["concise"] \in Seq(Nat) /\ pushed["churn"] \in Seq(Nat)
  BY DEF LogInv
<1>3. concise = Log!Latest(Cap, pushed["concise"]) /\ churn = Log!Latest(Cap, pushed["churn"])
  BY DEF LogInv, Log!LogsKeepTheLatest
<1>4. concise \in Seq(Nat) /\ churn \in Seq(Nat)
  BY <1>1, <1>2, <1>3, LatestFacts
<1>5. Len(concise) \in Nat /\ Len(churn) \in Nat
  BY <1>4
<1>6. Log!Lines \in Nat
  BY <1>5 DEF Log!Lines
<1>7. Len(pushed["concise"]) \in Nat /\ Len(pushed["churn"]) \in Nat
  BY <1>2
<1>8. QED
  BY <1>2, <1>4, <1>5, <1>6, <1>7 DEF LogInv, Log!LogsKeepTheLatest

\* A record that is pushed makes no ring shorter.
LEMMA LatestLonger ==
    ASSUME NEW seq \in Seq(Nat), NEW stamp \in Nat
    PROVE  /\ Append(seq, stamp) \in Seq(Nat)
           /\ Len(Log!Latest(Cap, Append(seq, stamp))) \in Nat
           /\ Len(Log!Latest(Cap, seq)) <= Len(Log!Latest(Cap, Append(seq, stamp)))
<1> DEFINE longer == Append(seq, stamp)
           before == Len(Log!Latest(Cap, seq))
           after == Len(Log!Latest(Cap, longer))
           long == Len(seq)
<1>1. Cap \in Nat
  BY LogAssumption DEF Log!PaneAssumption
<1>2. longer \in Seq(Nat) /\ Len(longer) = long + 1 /\ long \in Nat
  BY AppendProperties
<1>3. before = IF long > Cap THEN Cap ELSE long
  BY <1>1, LatestFacts
<1> HIDE DEF longer
<1>4. after = IF long + 1 > Cap THEN Cap ELSE long + 1
  BY <1>1, <1>2, LatestFacts
<1> HIDE DEF before, after, long
<1>5. after \in Nat /\ before <= after
  BY <1>1, <1>2, <1>3, <1>4
<1>6. QED
  BY <1>2, <1>5 DEF longer, before, after

LEMMA LogInit == Init => LogInv
<1> SUFFICES ASSUME Init PROVE LogInv
  OBVIOUS
<1>1. /\ concise = <<>> /\ churn = <<>> /\ scroll = 0 /\ verbose = FALSE
      /\ pushed = [ring \in {"concise", "churn"} |-> <<>>]
  BY DEF Init, Log!Init
<1>2. pushed["concise"] = <<>> /\ pushed["churn"] = <<>>
  BY <1>1
<1>3. <<>> \in Seq(Nat) /\ Len(<<>>) = 0
  BY EmptySeq
<1>4. Log!Latest(Cap, <<>>) = <<>>
  <2>1. Cap \in Nat
    BY LogAssumption DEF Log!PaneAssumption
  <2> DEFINE latest == Log!Latest(Cap, <<>>)
  <2>2. latest \in Seq(Nat) /\ Len(latest) = IF Len(<<>>) > Cap THEN Cap ELSE Len(<<>>)
    BY <1>3, <2>1, LatestFacts
  <2> HIDE DEF latest
  <2>3. Len(latest) = 0
    BY <1>3, <2>1, <2>2
  <2>4. latest = <<>>
    BY <2>2, <2>3, EmptySeq
  <2>5. QED
    BY <2>4 DEF latest
<1>5. Log!Lines = 0
  BY <1>1, <1>3 DEF Log!Lines
<1>6. pushed \in [{"concise", "churn"} -> Seq(Nat)]
  BY <1>1, <1>3
<1>7. concise = Log!Latest(Cap, pushed["concise"]) /\ churn = Log!Latest(Cap, pushed["churn"])
  BY <1>1, <1>2, <1>4
<1>8. scroll \in Nat /\ scroll <= Log!Lines
  BY <1>1, <1>5
<1>9. verbose \in BOOLEAN
  BY <1>1, Zenon
<1>10. QED
  BY <1>6, <1>7, <1>8, <1>9 DEF LogInv, Log!LogsKeepTheLatest

LEMMA LogNext == LogInv /\ [Next]_vars => LogInv'
<1> SUFFICES ASSUME LogInv, [Next]_vars PROVE LogInv'
  OBVIOUS
<1> DEFINE C == pushed["concise"]
           H == pushed["churn"]
<1>1. Log!Next \/ UNCHANGED logVars
  BY DEF Next, vars
<1>2. /\ C \in Seq(Nat) /\ Len(C) \in Nat /\ H \in Seq(Nat) /\ Len(H) \in Nat
      /\ Len(concise) \in Nat /\ Len(churn) \in Nat
      /\ Log!Lines \in Nat /\ scroll \in Nat /\ scroll <= Log!Lines
  BY RingLengths
<1>3. /\ pushed \in [{"concise", "churn"} -> Seq(Nat)] /\ verbose \in BOOLEAN
      /\ concise = Log!Latest(Cap, C) /\ churn = Log!Latest(Cap, H)
  BY DEF LogInv, Log!LogsKeepTheLatest
<1>4. CASE Log!Push
  <2> DEFINE stamp == Log!Pushed + 1
  <2>1. stamp \in Nat
    <3> DEFINE m == Len(C)
               n == Len(H)
    <3>1. m \in Nat /\ n \in Nat /\ Log!Pushed = m + n
      BY <1>2 DEF Log!Pushed
    <3> HIDE DEF m, n
    <3>2. QED
      BY <3>1
  <2>2. UNCHANGED <<scroll, verbose>>
    BY <1>4 DEF Log!Push
  <2> HIDE DEF stamp
  <2>3. CASE /\ concise' = Log!Put(concise, stamp) /\ churn' = churn
             /\ pushed' = [pushed EXCEPT !["concise"] = Append(@, stamp)]
    <3> DEFINE longer == Append(C, stamp)
    <3>1. concise' = Log!Latest(Cap, longer)
      BY <1>2, <1>3, <2>1, <2>3, PutLatest
    <3>2. longer \in Seq(Nat) /\ Len(concise') \in Nat /\ Len(concise) <= Len(concise')
      BY <1>2, <1>3, <2>1, <3>1, LatestLonger
    <3>3. /\ pushed' \in [{"concise", "churn"} -> Seq(Nat)]
          /\ pushed'["concise"] = longer /\ pushed'["churn"] = H
      BY <1>3, <2>3, <3>2
    <3>4. scroll' <= Log!Lines'
      BY <1>2, <2>2, <2>3, <3>2 DEF Log!Lines
    <3>5. QED
      BY <1>2, <1>3, <2>2, <2>3, <3>1, <3>3, <3>4 DEF LogInv, Log!LogsKeepTheLatest
  <2>4. CASE /\ churn' = Log!Put(churn, stamp) /\ concise' = concise
             /\ pushed' = [pushed EXCEPT !["churn"] = Append(@, stamp)]
    <3> DEFINE longer == Append(H, stamp)
    <3>1. churn' = Log!Latest(Cap, longer)
      BY <1>2, <1>3, <2>1, <2>4, PutLatest
    <3>2. longer \in Seq(Nat) /\ Len(churn') \in Nat /\ Len(churn) <= Len(churn')
      BY <1>2, <1>3, <2>1, <3>1, LatestLonger
    <3>3. /\ pushed' \in [{"concise", "churn"} -> Seq(Nat)]
          /\ pushed'["churn"] = longer /\ pushed'["concise"] = C
      BY <1>3, <2>4, <3>2
    <3>4. scroll' <= Log!Lines'
      BY <1>2, <2>2, <2>4, <3>2 DEF Log!Lines
    <3>5. QED
      BY <1>2, <1>3, <2>2, <2>4, <3>1, <3>3, <3>4 DEF LogInv, Log!LogsKeepTheLatest
  <2>5. QED
    BY <1>4, <2>3, <2>4 DEF Log!Push, stamp
<1>5. CASE concise' = concise /\ churn' = churn /\ pushed' = pushed
  <2>1. Log!Lines' \in Nat /\ (verbose' = verbose => Log!Lines' = Log!Lines)
    <3> DEFINE c == Len(concise)
               h == Len(churn)
    <3>1. /\ c \in Nat /\ h \in Nat
          /\ Log!Lines = c + IF verbose THEN h ELSE 0
          /\ Log!Lines' = c + IF verbose' THEN h ELSE 0
      BY <1>2, <1>5 DEF Log!Lines
    <3> HIDE DEF c, h
    <3>2. Log!Lines' \in Nat
      BY <3>1
    <3>3. verbose' = verbose => Log!Lines' = Log!Lines
      BY <3>1
    <3>4. QED
      BY <3>2, <3>3
  <2>2. ASSUME scroll' \in Nat, scroll' <= Log!Lines', verbose' \in BOOLEAN PROVE LogInv'
    BY <1>3, <1>5, <2>2 DEF LogInv, Log!LogsKeepTheLatest
  <2>3. CASE Log!ScrollKey
    <3>1. verbose' = verbose
      BY <2>3 DEF Log!ScrollKey
    <3>2. PICK n \in {1, Page} :
              \/ scroll' = Log!Lesser(scroll + n, Log!Lines)
              \/ scroll' = Log!Less(scroll, n)
              \/ scroll' \in {0, Log!Lines}
      BY <2>3 DEF Log!ScrollKey
    <3>3. n \in Nat
      BY LogAssumption DEF Log!PaneAssumption
    <3>4. scroll' \in Nat /\ scroll' <= Log!Lines
      BY <1>2, <3>2, <3>3 DEF Log!Lesser, Log!Less
    <3>5. QED
      BY <1>3, <2>1, <2>2, <3>1, <3>4
  <2>4. CASE scroll' = 0 /\ verbose' \in BOOLEAN
    BY <2>1, <2>2, <2>4
  <2>5. CASE scroll' = scroll /\ verbose' = verbose
    BY <1>2, <1>3, <2>1, <2>2, <2>5
  <2>6. CASE Log!Switch \/ Log!Esc \/ Log!ToggleVerbose \/ UNCHANGED logVars
    BY <1>3, <2>4, <2>5, <2>6 DEF Log!Switch, Log!Esc, Log!ToggleVerbose, logVars
  <2>7. CASE Log!Push
    BY <1>4, <2>7
  <2>8. QED
    BY <1>1, <2>3, <2>6, <2>7 DEF Log!Next
<1>6. QED
  BY <1>1, <1>4, <1>5
  DEF Log!Next, Log!Switch, Log!Esc, Log!ScrollKey, Log!ToggleVerbose, Log!rings, logVars

\* For rings of any capacity and pages of any size, each ring holds the latest records of
\* its own kind, and the screen is never scrolled up by more lines than there are
\* (LogBuffer::push, handle_logs_key).
THEOREM LogsAlwaysKeepTheLatest == Spec => []LogsKeepTheLatest
<1>1. LogInv => LogsKeepTheLatest
  BY DEF LogInv, LogsKeepTheLatest
<1>2. QED
  BY <1>1, LogInit, LogNext, PTL DEF Spec
==============================================================================
