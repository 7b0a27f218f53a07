--------------------------- MODULE PairingRunProofs ---------------------------
(***************************************************************************)
(* What PairingRun guarantees for channels of any capacity and any number  *)
(* of keys: its types, at most one dial session, a status that covers the  *)
(* serve task, a target that covers the session, and no leftover status.   *)
(*                                                                         *)
(* The halves are proved apart: ListenInv is the supervisor's and its      *)
(* serve task's, DialInv the manager's and its sessions'.  They meet in    *)
(* the dashboard's commands only, which both invariants allow at any time. *)
(***************************************************************************)
EXTENDS PairingRun, SequenceTheorems, TLAPS

\* What each state of the supervisor implies for its serve task, and that the
\* status is set for as long as the supervisor has one.
ListenInv ==
    /\ sup \in {"boot", "spawn", "over"} => serve = "none"
    /\ sup \in {"join", "last"} => serve # "none"
    /\ serve # "none" => status = "listening"

\* The handle the manager holds in each of its states.
HandleInv ==
    /\ man \in {"boot", "spawn", "over"} => cur = NoSession
    /\ man \in {"replace", "drop", "last"} => cur \in Sessions
    /\ man = "wait" => cur \notin cancelled

\* A session that is not over is the one the manager holds; it is shown until it
\* hides its target itself, which it does with the status closed.
SessionInv ==
    /\ \A s \in Sessions : sess[s] # "over" => s = cur
    /\ \A s \in Sessions : sess[s] \in InLoop => target
    /\ \A s \in Sessions : sess[s] = "ending" => connStatus = "closed"

\* What a manager without work shows: nothing without a session, and closed with
\* one that ended although nobody cancelled it.
StatusInv ==
    /\ man = "wait" /\ cur = NoSession => connStatus \in {"idle", "closed"}
    /\ (cur \in Sessions /\ cur \notin cancelled /\ ~shutdown /\ sess[cur] = "over")
          => connStatus = "closed"

DialInv == HandleInv /\ SessionInv /\ StatusInv

IInv == TypeOK /\ ListenInv /\ DialInv

------------------------------------------------------------------------------
(* Helpers. *)

\* A broadcast channel keeps commands and stays within its capacity.
LEMMA PushType ==
    ASSUME NEW S, NEW q \in Seq(S), Len(q) <= ChannelCap, NEW cmd \in S
    PROVE  Push(q, cmd) \in Seq(S) /\ Len(Push(q, cmd)) <= ChannelCap
<1>1. CASE Len(q) = ChannelCap
  <2>1. q # <<>>
    BY <1>1, CapAssumption
  <2>2. Tail(q) \in Seq(S) /\ Len(Tail(q)) = Len(q) - 1
    BY <2>1, HeadTailProperties
  <2>3. /\ Append(Tail(q), cmd) \in Seq(S)
        /\ Len(Append(Tail(q), cmd)) = Len(Tail(q)) + 1
    BY <2>2, AppendProperties
  <2>4. QED
    BY <1>1, <2>2, <2>3, CapAssumption DEF Push
<1>2. CASE Len(q) # ChannelCap
  <2>1. Append(q, cmd) \in Seq(S) /\ Len(Append(q, cmd)) = Len(q) + 1
    BY AppendProperties
  <2>2. QED
    BY <1>2, <2>1, CapAssumption, LenProperties DEF Push
<1>3. QED
  BY <1>1, <1>2

\* A received command leaves a shorter queue.
LEMMA TailType ==
    ASSUME NEW S, NEW q \in Seq(S), q # <<>>, Len(q) <= ChannelCap
    PROVE  Tail(q) \in Seq(S) /\ Len(Tail(q)) <= ChannelCap
BY HeadTailProperties, LenProperties, CapAssumption

\* Both kinds of command leave their queue well typed.
LEMMA SendType ==
    ASSUME TypeOK
    PROVE  /\ \A cmd \in {"Start", "Stop"} : SendListen(cmd) =>
                listenQ' \in Seq({"Start", "Stop"}) /\ Len(listenQ') <= ChannelCap
           /\ \A cmd \in {"Connect", "Disconnect"} : SendDial(cmd) =>
                dialQ' \in Seq({"Connect", "Disconnect"}) /\ Len(dialQ') <= ChannelCap
BY PushType DEF TypeOK, SendListen, SendDial

------------------------------------------------------------------------------
(* The three parts of the invariant, step by step. *)

LEMMA InitIInv == Init => IInv
<1> SUFFICES ASSUME Init PROVE IInv
  OBVIOUS
<1>1. <<>> \in Seq({"Start", "Stop"}) /\ <<>> \in Seq({"Connect", "Disconnect"})
  BY EmptySeq
<1>2. Len(<<>>) <= ChannelCap
  BY CapAssumption, EmptySeq
<1>3. sess \in [Sessions -> Live \cup {"over"}]
  BY DEF Init
<1>4. target \in BOOLEAN /\ shutdown \in BOOLEAN
  BY DEF Init
<1>5. TypeOK
  BY <1>1, <1>2, <1>3, <1>4, KeysAssumption DEF Init, TypeOK
<1>6. ListenInv /\ DialInv
  BY DEF Init, ListenInv, DialInv, HandleInv, SessionInv, StatusInv, Sessions, NoSession, InLoop
<1>7. QED
  BY <1>5, <1>6 DEF IInv

\* The dashboard changes neither half: it presses keys, sends commands, shows a
\* target, and shuts down.
LEMMA UserType ==
    ASSUME TypeOK, UserKey \/ KeyHandler
    PROVE  TypeOK'
<1> USE SendType, KeysAssumption DEF TypeOK, uiVars, listenVars, dialVars, Press
<1>1. CASE KeyListen
  BY <1>1 DEF KeyListen
<1>2. CASE ToggleListen
  BY <1>2 DEF ToggleListen
<1>3. CASE KeyConnect
  BY <1>3 DEF KeyConnect
<1>4. CASE KeyCancel
  BY <1>4 DEF KeyCancel
<1>5. CASE KeySubmit
  BY <1>5 DEF KeySubmit
<1>6. CASE ShowTarget
  BY <1>6 DEF ShowTarget
<1>7. CASE KeyDisconnect
  BY <1>7 DEF KeyDisconnect
<1>8. CASE StopListen
  BY <1>8 DEF StopListen
<1>9. CASE KeyQuit
  BY <1>9 DEF KeyQuit
<1>10. QED
  BY <1>1, <1>2, <1>3, <1>4, <1>5, <1>6, <1>7, <1>8, <1>9 DEF UserKey, KeyHandler

\* A step of the dashboard preserves the invariant.
LEMMA UserIInv ==
    ASSUME IInv, UserKey \/ KeyHandler
    PROVE  IInv'
<1>1. TypeOK'
  BY UserType DEF IInv
<1>2. /\ UNCHANGED <<status, sup, serve, connStatus, man, cur, sess, cancelled>>
      /\ target => target'
      /\ shutdown => shutdown'
  BY DEF UserKey, KeyHandler, KeyListen, ToggleListen, KeyConnect, KeyCancel, KeySubmit,
         ShowTarget, KeyDisconnect, StopListen, KeyQuit, listenVars, dialVars
<1>3. ListenInv'
  BY <1>2 DEF IInv, ListenInv
<1>4. DialInv'
  BY <1>2 DEF IInv, TypeOK, DialInv, HandleInv, SessionInv, StatusInv
<1>5. QED
  BY <1>1, <1>3, <1>4 DEF IInv

\* A step of the listening half preserves the invariant: it touches neither the
\* target nor anything of the dial half.
LEMMA ListenIInv ==
    ASSUME IInv, Supervisor \/ ServeReturns \/ ServeStops
    PROVE  IInv'
<1> USE DEF IInv, ListenInv, TypeOK, uiVars, listenVars, dialVars
<1> USE TailType DEF Received
<1>1. TypeOK' /\ ListenInv'
  <2>1. CASE SupBoot
    BY <2>1 DEF SupBoot
  <2>2. CASE SupStart
    BY <2>2 DEF SupStart
  <2>3. CASE SupSpawn
    BY <2>3 DEF SupSpawn
  <2>4. CASE SupStop
    BY <2>4 DEF SupStop
  <2>5. CASE SupJoined
    BY <2>5 DEF SupJoined
  <2>6. CASE SupServeEnded
    BY <2>6 DEF SupServeEnded
  <2>7. CASE SupShutdown
    BY <2>7 DEF SupShutdown
  <2>8. CASE SupLast
    BY <2>8 DEF SupLast
  <2>9. CASE ServeReturns
    BY <2>9 DEF ServeReturns
  <2>10. CASE ServeStops
    BY <2>10 DEF ServeStops
  <2>11. QED
    BY <2>1, <2>2, <2>3, <2>4, <2>5, <2>6, <2>7, <2>8, <2>9, <2>10 DEF Supervisor
<1>2. UNCHANGED <<dialVars, target, shutdown>>
  BY DEF Supervisor, SupBoot, SupStart, SupSpawn, SupStop, SupJoined, SupServeEnded,
         SupShutdown, SupLast, ServeReturns, ServeStops
<1>3. DialInv'
  BY <1>2 DEF DialInv, HandleInv, SessionInv, StatusInv
<1>4. QED
  BY <1>1, <1>3

\* A step of the manager preserves the invariant: it drops or replaces a handle
\* only once its session is over, and hides the target only then.
LEMMA ManagerIInv ==
    ASSUME IInv, Manager
    PROVE  IInv'
<1>1. dialQ' \in Seq({"Connect", "Disconnect"}) /\ Len(dialQ') <= ChannelCap
  <2>1. dialQ' = dialQ \/ (dialQ # <<>> /\ dialQ' = Tail(dialQ))
    BY DEF Received, Manager, ManBoot, ManConnect, ManReplaced, ManSpawn,
           ManDisconnect, ManDropped, ManShutdown, ManLast
  <2>2. QED
    BY <2>1, TailType DEF IInv, TypeOK
<1> USE DEF IInv, TypeOK, DialInv, HandleInv, SessionInv, StatusInv
<1> USE DEF uiVars, listenVars, dialVars, Sessions, NoSession, InLoop, Live
<1>2. TypeOK' /\ DialInv'
  <2>1. CASE ManBoot
    <3>1. TypeOK'
      BY <1>1, <2>1 DEF ManBoot
    <3>2. HandleInv'
      BY <2>1 DEF ManBoot
    <3>3. SessionInv'
      BY <2>1 DEF ManBoot
    <3>4. StatusInv'
      BY <2>1 DEF ManBoot
    <3>5. QED
      BY <3>1, <3>2, <3>3, <3>4
  <2>2. CASE ManConnect
    <3>1. TypeOK'
      <4>1. target' \in BOOLEAN /\ shutdown' \in BOOLEAN
        BY <2>2 DEF ManConnect
      <4>2. man' \in {"wait", "replace", "spawn", "drop", "last", "over"}
        BY <2>2 DEF ManConnect
      <4>3. cancelled' \subseteq Sessions
        BY <2>2 DEF ManConnect
      <4>4. connStatus' \in {"idle", connStatus} /\ UNCHANGED <<uiVars, listenVars, cur, sess>>
        BY <2>2 DEF ManConnect
      <4>5. QED
        BY <1>1, <4>1, <4>2, <4>3, <4>4
    <3>2. HandleInv'
      BY <2>2 DEF ManConnect
    <3>3. SessionInv'
      BY <2>2 DEF ManConnect
    <3>4. StatusInv'
      BY <2>2 DEF ManConnect
    <3>5. QED
      BY <3>1, <3>2, <3>3, <3>4
  <2>3. CASE ManReplaced
    <3>1. TypeOK'
      BY <1>1, <2>3 DEF ManReplaced
    <3>2. HandleInv'
      BY <2>3 DEF ManReplaced
    <3>3. SessionInv'
      BY <2>3 DEF ManReplaced
    <3>4. StatusInv'
      BY <2>3 DEF ManReplaced
    <3>5. QED
      BY <3>1, <3>2, <3>3, <3>4
  <2>4. CASE ManSpawn
    <3>1. TypeOK'
      BY <1>1, <2>4 DEF ManSpawn
    <3>2. HandleInv'
      BY <2>4 DEF ManSpawn
    <3>3. SessionInv'
      BY <2>4 DEF ManSpawn
    <3>4. StatusInv'
      BY <2>4 DEF ManSpawn
    <3>5. QED
      BY <3>1, <3>2, <3>3, <3>4
  <2>5. CASE ManDisconnect
    <3>1. TypeOK'
      <4>1. target' \in BOOLEAN /\ shutdown' \in BOOLEAN
        BY <2>5 DEF ManDisconnect
      <4>2. man' \in {"wait", "replace", "spawn", "drop", "last", "over"}
        BY <2>5 DEF ManDisconnect
      <4>3. cancelled' \subseteq Sessions
        BY <2>5 DEF ManDisconnect
      <4>4. connStatus' \in {"idle", connStatus} /\ UNCHANGED <<uiVars, listenVars, cur, sess>>
        BY <2>5 DEF ManDisconnect
      <4>5. QED
        BY <1>1, <4>1, <4>2, <4>3, <4>4
    <3>2. HandleInv'
      BY <2>5 DEF ManDisconnect
    <3>3. SessionInv'
      BY <2>5 DEF ManDisconnect
    <3>4. StatusInv'
      BY <2>5 DEF ManDisconnect
    <3>5. QED
      BY <3>1, <3>2, <3>3, <3>4
  <2>6. CASE ManDropped
    <3>1. TypeOK'
      BY <1>1, <2>6 DEF ManDropped
    <3>2. HandleInv'
      BY <2>6 DEF ManDropped
    <3>3. SessionInv'
      BY <2>6 DEF ManDropped
    <3>4. StatusInv'
      BY <2>6 DEF ManDropped
    <3>5. QED
      BY <3>1, <3>2, <3>3, <3>4
  <2>7. CASE ManShutdown
    <3>1. TypeOK'
      <4>1. target' \in BOOLEAN /\ shutdown' \in BOOLEAN
        BY <2>7 DEF ManShutdown
      <4>2. man' \in {"wait", "replace", "spawn", "drop", "last", "over"}
        BY <2>7 DEF ManShutdown
      <4>3. cancelled' \subseteq Sessions
        BY <2>7 DEF ManShutdown
      <4>4. connStatus' \in {"idle", connStatus} /\ UNCHANGED <<uiVars, listenVars, cur, sess>>
        BY <2>7 DEF ManShutdown
      <4>5. QED
        BY <1>1, <4>1, <4>2, <4>3, <4>4
    <3>2. HandleInv'
      BY <2>7 DEF ManShutdown
    <3>3. SessionInv'
      BY <2>7 DEF ManShutdown
    <3>4. StatusInv'
      BY <2>7 DEF ManShutdown
    <3>5. QED
      BY <3>1, <3>2, <3>3, <3>4
  <2>8. CASE ManLast
    <3>1. TypeOK'
      BY <1>1, <2>8 DEF ManLast
    <3>2. HandleInv'
      BY <2>8 DEF ManLast
    <3>3. SessionInv'
      BY <2>8 DEF ManLast
    <3>4. StatusInv'
      BY <2>8 DEF ManLast
    <3>5. QED
      BY <3>1, <3>2, <3>3, <3>4
  <2>9. QED
    BY <2>1, <2>2, <2>3, <2>4, <2>5, <2>6, <2>7, <2>8 DEF Manager
<1>3. UNCHANGED <<status, sup, serve>>
  BY DEF Manager, ManBoot, ManConnect, ManReplaced, ManSpawn, ManDisconnect, ManDropped,
         ManShutdown, ManLast
<1>4. ListenInv'
  BY <1>3 DEF ListenInv
<1>5. QED
  BY <1>2, <1>4

\* A step of a dial session preserves the invariant: it is the current session,
\* and only its end hides the target.
LEMMA SessionIInv ==
    ASSUME IInv, NEW s \in Sessions, Session(s)
    PROVE  IInv'
<1>1. SessResolve(s) =>
        /\ target => target'
        /\ \/ SessionStep(s, "connecting", "dialing", connStatus)
           \/ SessionStep(s, "connecting", "waiting", "reconnecting")
           \/ SessionStep(s, "connecting", "ending", "closed")
  <2> SUFFICES ASSUME SessResolve(s)
               PROVE  target => target'
    BY DEF SessResolve
  <2>1. target' = target \/ target' = TRUE
    BY DEF SessResolve
  <2>2. CASE target' = target
    BY <2>2
  <2>3. CASE target' = TRUE
    BY <2>3
  <2>4. QED
    BY <2>1, <2>2, <2>3
<1> USE DEF IInv, TypeOK, DialInv, HandleInv, SessionInv, StatusInv
<1> USE DEF uiVars, listenVars, dialVars, Sessions, NoSession, InLoop, Live, SessionStep
<1>2. UNCHANGED <<keys, ui, dialQ, listenVars, man, cur, cancelled, shutdown>>
  BY DEF Session, SessResolve, SessDial, SessDisconnected, SessRetry, SessEnding, SessStop
<1>3. TypeOK' /\ DialInv'
  <2>1. CASE SessResolve(s)
    <3>1. TypeOK'
      <4>1. target' \in BOOLEAN /\ shutdown' \in BOOLEAN
        BY <2>1 DEF SessResolve
      <4>2. connStatus' \in {connStatus, "reconnecting", "closed"}
        BY <2>1 DEF SessResolve
      <4>3. sess' \in [Sessions -> Live \cup {"over"}]
        BY <2>1 DEF SessResolve
      <4>4. QED
        BY <1>2, <4>1, <4>2, <4>3
    <3>2. HandleInv'
      BY <2>1 DEF SessResolve
    <3>3. SessionInv'
      BY <1>1, <2>1
    <3>4. StatusInv'
      BY <1>1, <2>1
    <3>5. QED
      BY <3>1, <3>2, <3>3, <3>4
  <2>2. CASE SessDial(s)
    <3>1. TypeOK'
      BY <1>2, <2>2 DEF SessDial
    <3>2. HandleInv'
      BY <2>2 DEF SessDial
    <3>3. SessionInv'
      BY <2>2 DEF SessDial
    <3>4. StatusInv'
      BY <2>2 DEF SessDial
    <3>5. QED
      BY <3>1, <3>2, <3>3, <3>4
  <2>3. CASE SessDisconnected(s)
    <3>1. TypeOK'
      BY <1>2, <2>3 DEF SessDisconnected
    <3>2. HandleInv'
      BY <2>3 DEF SessDisconnected
    <3>3. SessionInv'
      BY <2>3 DEF SessDisconnected
    <3>4. StatusInv'
      BY <2>3 DEF SessDisconnected
    <3>5. QED
      BY <3>1, <3>2, <3>3, <3>4
  <2>4. CASE SessRetry(s)
    <3>1. TypeOK'
      BY <1>2, <2>4 DEF SessRetry
    <3>2. HandleInv'
      BY <2>4 DEF SessRetry
    <3>3. SessionInv'
      BY <2>4 DEF SessRetry
    <3>4. StatusInv'
      BY <2>4 DEF SessRetry
    <3>5. QED
      BY <3>1, <3>2, <3>3, <3>4
  <2>5. CASE SessEnding(s)
    <3>1. TypeOK'
      <4>1. target' \in BOOLEAN /\ shutdown' \in BOOLEAN
        BY <2>5 DEF SessEnding
      <4>2. connStatus' = connStatus /\ sess' \in [Sessions -> Live \cup {"over"}]
        BY <2>5 DEF SessEnding
      <4>3. QED
        BY <1>2, <4>1, <4>2
    <3>2. HandleInv'
      BY <2>5 DEF SessEnding
    <3>3. SessionInv'
      BY <2>5 DEF SessEnding
    <3>4. StatusInv'
      BY <2>5 DEF SessEnding
    <3>5. QED
      BY <3>1, <3>2, <3>3, <3>4
  <2>6. CASE SessStop(s)
    <3>1. TypeOK'
      BY <1>2, <2>6 DEF SessStop
    <3>2. HandleInv'
      BY <2>6 DEF SessStop
    <3>3. SessionInv'
      BY <2>6 DEF SessStop
    <3>4. StatusInv'
      BY <2>6 DEF SessStop
    <3>5. QED
      BY <3>1, <3>2, <3>3, <3>4
  <2>7. QED
    BY <2>1, <2>2, <2>3, <2>4, <2>5, <2>6 DEF Session
<1>4. ListenInv'
  BY <1>2 DEF ListenInv
<1>5. QED
  BY <1>3, <1>4

\* Every step preserves the invariant.
LEMMA NextIInv == IInv /\ [Next]_vars => IInv'
<1> SUFFICES ASSUME IInv, [Next]_vars PROVE IInv'
  OBVIOUS
<1>1. CASE RunEnds
  BY <1>1 DEF RunEnds, IInv, TypeOK, ListenInv, DialInv, HandleInv, SessionInv, StatusInv,
              uiVars, listenVars, dialVars
<1>2. CASE UNCHANGED vars
  BY <1>2 DEF vars, IInv, TypeOK, ListenInv, DialInv, HandleInv, SessionInv, StatusInv,
              uiVars, listenVars, dialVars
<1>3. QED
  BY <1>1, <1>2, UserIInv, ListenIInv, ManagerIInv, SessionIInv DEF Next

------------------------------------------------------------------------------
(* Theorems. *)

\* Every behaviour of the run keeps the inductive invariant: the serve task and
\* the sessions are where their supervisor and manager believe them to be.
THEOREM IInvHolds == Spec => []IInv
<1>1. Init => IInv
  BY InitIInv
<1>2. IInv /\ [Next]_vars => IInv'
  BY NextIInv
<1>3. QED
  BY <1>1, <1>2, PTL DEF Spec

\* The state has its types, and a burst of commands never outgrows a channel.
THEOREM TypeCorrect == Spec => []TypeOK
<1>1. IInv => TypeOK
  BY DEF IInv
<1>2. QED
  BY <1>1, IInvHolds, PTL

\* A target that replaces another waits for the old session: the manager never
\* has two dial sessions alive, whatever the user types and the network does.
THEOREM OneSession == Spec => []OneSessionAtATime
<1>1. IInv => OneSessionAtATime
  BY DEF IInv, DialInv, SessionInv, OneSessionAtATime, Live, InLoop
<1>2. QED
  BY <1>1, IInvHolds, PTL

\* A serve task that may accept a peer is shown as listening at every moment.
THEOREM ServingShown == Spec => []ServingIsShown
<1>1. IInv => ServingIsShown
  BY DEF IInv, ListenInv, ServingIsShown, Listening
<1>2. QED
  BY <1>1, IInvHolds, PTL

\* A dial session that can still connect has its target shown at every moment.
THEOREM SessionShown == Spec => []SessionIsShown
<1>1. IInv => SessionIsShown
  BY DEF IInv, DialInv, SessionInv, SessionIsShown
<1>2. QED
  BY <1>1, IInvHolds, PTL

\* A manager that waits for a command without a session shows no connection.
THEOREM NoLeftover == Spec => []NoLeftoverStatus
<1>1. IInv => NoLeftoverStatus
  BY DEF IInv, TypeOK, DialInv, HandleInv, StatusInv, NoLeftoverStatus
<1>2. QED
  BY <1>1, IInvHolds, PTL
==============================================================================
