------------------------------ MODULE PairingRun ------------------------------
(***************************************************************************)
(* An interactive run: the dashboard, the two broadcast channels that      *)
(* carry its commands, the listen supervisor with its serve task, and the  *)
(* dial manager with its dial sessions (tui/mod.rs, app_state.rs and       *)
(* run_serve_and_dial, run_listen_supervisor, run_dial_manager and         *)
(* run_managed_dial_session of iroh_mode/peer.rs).                         *)
(*                                                                         *)
(* The four run on a multi-threaded runtime and share AppState without a   *)
(* lock across a check and what follows it.  An action is the code between *)
(* two accesses to that shared state, or between two awaits.               *)
(***************************************************************************)
EXTENDS Naturals, Sequences, FiniteSets

CONSTANTS
    ChannelCap,  \* capacity of a command channel
    MaxKeys      \* bound: keys the user presses

ASSUME CapAssumption == ChannelCap \in Nat \ {0}
ASSUME KeysAssumption == MaxKeys \in Nat

VARIABLES
    keys,        \* keys pressed so far
    ui,          \* where the dashboard's key handler is
    listenQ,     \* ListenCommands the supervisor has not received
    dialQ,       \* DialCommands the manager has not received
    status,      \* AppState.listen_status
    target,      \* AppState.dial_target: is one shown?
    connStatus,  \* AppState.conn_status
    sup,         \* where run_listen_supervisor is
    serve,       \* its run_listen task
    man,         \* where run_dial_manager is
    cur,         \* the session the manager holds a handle of, or NoSession
    sess,        \* where each dial session task is
    cancelled,   \* sessions whose token is cancelled
    shutdown     \* AppState.shutdown is cancelled

uiVars == <<keys, ui>>
listenVars == <<listenQ, status, sup, serve>>
dialVars == <<dialQ, connStatus, man, cur, sess, cancelled>>
vars == <<uiVars, listenVars, dialVars, target, shutdown>>

------------------------------------------------------------------------------
(* Data. *)

NoSession == 0
Sessions == 1..2          \* task slots: enough for a session and its successor
InLoop == {"connecting", "dialing", "connected", "waiting"}
Live == InLoop \cup {"ending"}

DialSessionActive == target
Listening == status = "listening"
CanDial == ~Listening /\ ~DialSessionActive
CanListen == ~DialSessionActive

\* A full channel grows.
PushBug(q, cmd) == Append(q, cmd)

\* A broadcast channel that is full forgets its oldest command; the receiver is
\* told that it lagged, and logs it.
Push(q, cmd) == Append(IF Len(q) = ChannelCap THEN Tail(q) ELSE q, cmd)

\* A channel has a receiver from the subscription to the end of the task.
Subscribed(pc) == pc \notin {"boot", "over"}

SendListen(cmd) == listenQ' = IF Subscribed(sup) THEN Push(listenQ, cmd) ELSE listenQ
SendDial(cmd) == dialQ' = IF Subscribed(man) THEN Push(dialQ, cmd) ELSE dialQ

Received(q, cmd) == q # <<>> /\ Head(q) = cmd

------------------------------------------------------------------------------
(* The dashboard: handle_home_key and the connect form. *)

Press == keys < MaxKeys /\ keys' = keys + 1

\* Shift+L reads can_listen() first ...
KeyListen ==
    /\ Press
    /\ ui = "home" /\ CanListen
    /\ ui' = "toggle"
    /\ UNCHANGED <<listenVars, dialVars, target, shutdown>>

\* ... and toggle_listen() then reads the status it toggles.
ToggleListen ==
    /\ ui = "toggle"
    /\ ui' = "home"
    /\ SendListen(IF Listening THEN "Stop" ELSE "Start")
    /\ UNCHANGED <<keys, status, sup, serve, dialVars, target, shutdown>>

\* Shift+C opens the connect form.
KeyConnect ==
    /\ Press
    /\ ui = "home" /\ CanDial
    /\ ui' = "form"
    /\ UNCHANGED <<listenVars, dialVars, target, shutdown>>

\* Esc closes the form.
KeyCancel ==
    /\ Press
    /\ ui = "form"
    /\ ui' = "home"
    /\ UNCHANGED <<listenVars, dialVars, target, shutdown>>

\* Enter sends Connect; without a receiver the form stays open with an error.
KeySubmit ==
    /\ Press
    /\ ui = "form"
    /\ SendDial("Connect")
    /\ ui' = IF Subscribed(man) THEN "sent" ELSE "form"
    /\ UNCHANGED <<listenVars, connStatus, man, cur, sess, cancelled, target, shutdown>>

\* The form shows the target after the command is sent.
ShowTarget ==
    /\ ui = "sent"
    /\ ui' = "home"
    /\ target' = TRUE
    /\ UNCHANGED <<keys, listenVars, dialVars, shutdown>>

\* Shift+D disconnects a dial session if one is shown ...
KeyDisconnect ==
    /\ Press
    /\ ui = "home"
    /\ ui' = "reset"
    /\ IF DialSessionActive THEN SendDial("Disconnect") ELSE UNCHANGED dialQ
    /\ UNCHANGED <<listenVars, connStatus, man, cur, sess, cancelled, target, shutdown>>

\* ... and then stops the serve half if it is shown as listening.
StopListen ==
    /\ ui = "reset"
    /\ ui' = "home"
    /\ IF Listening THEN SendListen("Stop") ELSE UNCHANGED listenQ
    /\ UNCHANGED <<keys, status, sup, serve, dialVars, target, shutdown>>

\* Ctrl-C, or Esc twice.
KeyQuit ==
    /\ Press
    /\ ui \in {"home", "form"}
    /\ ui' = "quit"
    /\ shutdown' = TRUE
    /\ UNCHANGED <<listenVars, dialVars, target>>

UserKey == KeyListen \/ KeyConnect \/ KeyCancel \/ KeySubmit \/ KeyDisconnect \/ KeyQuit

\* The rest of a key's handler, once it has begun.
KeyHandler == ToggleListen \/ ShowTarget \/ StopListen

------------------------------------------------------------------------------
(* run_listen_supervisor and its serve task. *)

SupBoot ==
    /\ sup = "boot"
    /\ sup' = "wait"
    /\ status' = "stopped"
    /\ UNCHANGED <<uiVars, listenQ, serve, dialVars, target, shutdown>>

\* Start is refused while a dial target is shown; a second Start changes nothing.
SupStart ==
    /\ sup = "wait"
    /\ Received(listenQ, "Start")
    /\ listenQ' = Tail(listenQ)
    /\ sup' = IF CanListen /\ serve = "none" THEN "spawn" ELSE "wait"
    /\ UNCHANGED <<uiVars, status, serve, dialVars, target, shutdown>>

\* The status is set and run_listen spawned, on the strength of that check.
SupSpawn ==
    /\ sup = "spawn"
    /\ sup' = "wait"
    /\ status' = "listening"
    /\ serve' = "up"
    /\ UNCHANGED <<uiVars, listenQ, dialVars, target, shutdown>>

\* The status says Stopped before the serve task has been joined.
SupStopBug ==
    /\ sup = "wait"
    /\ Received(listenQ, "Stop")
    /\ listenQ' = Tail(listenQ)
    /\ sup' = IF serve = "none" THEN "wait" ELSE "join"
    /\ status' = "stopped"
    /\ UNCHANGED <<uiVars, serve, dialVars, target, shutdown>>

\* Stop takes the handle, cancels the token and waits for the task.
SupStop ==
    /\ sup = "wait"
    /\ Received(listenQ, "Stop")
    /\ listenQ' = Tail(listenQ)
    /\ sup' = IF serve = "none" THEN "wait" ELSE "join"
    /\ UNCHANGED <<uiVars, status, serve, dialVars, target, shutdown>>

\* join_stopped_listen returns, whatever the task returned; clear_listen.
SupJoined ==
    /\ sup = "join"
    /\ serve \in {"ended", "failed"}
    /\ sup' = "wait"
    /\ serve' = "none"
    /\ status' = "stopped"
    /\ UNCHANGED <<uiVars, listenQ, dialVars, target, shutdown>>

\* The serve task ended on its own: its error ends the supervisor.
SupServeEnded ==
    /\ sup = "wait"
    /\ serve \in {"ended", "failed"}
    /\ sup' = IF serve = "failed" THEN "over" ELSE "wait"
    /\ serve' = "none"
    /\ status' = "stopped"
    /\ UNCHANGED <<uiVars, listenQ, dialVars, target, shutdown>>

SupShutdown ==
    /\ sup = "wait" /\ shutdown
    /\ sup' = IF serve = "none" THEN "over" ELSE "last"
    /\ UNCHANGED <<uiVars, listenQ, status, serve, dialVars, target, shutdown>>

SupLast ==
    /\ sup = "last"
    /\ serve \in {"ended", "failed"}
    /\ sup' = "over"
    /\ serve' = "none"
    /\ UNCHANGED <<uiVars, listenQ, status, dialVars, target, shutdown>>

Supervisor ==
    \/ SupBoot \/ SupStart \/ SupSpawn \/ SupStop \/ SupJoined
    \/ SupServeEnded \/ SupShutdown \/ SupLast

\* run_listen returns on its own: the endpoint closed, or could not be created.
ServeReturns ==
    /\ serve = "up"
    /\ serve' \in {"ended", "failed"}
    /\ UNCHANGED <<uiVars, listenQ, status, sup, dialVars, target, shutdown>>

\* run_listen returns because its token, a child of the shutdown, is cancelled.
ServeStops ==
    /\ serve = "up"
    /\ sup \in {"join", "last"} \/ shutdown
    /\ serve' = "ended"
    /\ UNCHANGED <<uiVars, listenQ, status, sup, dialVars, target, shutdown>>

------------------------------------------------------------------------------
(* run_dial_manager. *)

\* The client endpoint comes up, or the manager fails with it.
ManBoot ==
    /\ man = "boot"
    /\ \/ man' = "wait" /\ connStatus' = "idle"
       \/ man' = "over" /\ UNCHANGED connStatus
    /\ UNCHANGED <<uiVars, listenVars, dialQ, cur, sess, cancelled, target, shutdown>>

\* The current session is cancelled but its end is not awaited.
ManConnectBug ==
    /\ man = "wait"
    /\ Received(dialQ, "Connect")
    /\ dialQ' = Tail(dialQ)
    /\ IF Listening
       THEN UNCHANGED <<man, cur, cancelled>>
       ELSE /\ man' = "spawn"
            /\ cur' = NoSession
            /\ cancelled' = cancelled \cup ({cur} \ {NoSession})
    /\ UNCHANGED <<uiVars, listenVars, connStatus, sess, target, shutdown>>

\* Connect is dropped while listening; else the current session is torn down first.
ManConnect ==
    /\ man = "wait"
    /\ Received(dialQ, "Connect")
    /\ dialQ' = Tail(dialQ)
    /\ IF Listening
       THEN UNCHANGED <<man, cancelled>>
       ELSE IF cur = NoSession
            THEN man' = "spawn" /\ UNCHANGED cancelled
            ELSE man' = "replace" /\ cancelled' = cancelled \cup {cur}
    /\ UNCHANGED <<uiVars, listenVars, connStatus, cur, sess, target, shutdown>>

ManReplaced ==
    /\ man = "replace"
    /\ sess[cur] = "over"
    /\ man' = "spawn"
    /\ cur' = NoSession
    /\ UNCHANGED <<uiVars, listenVars, dialQ, connStatus, sess, cancelled, target, shutdown>>

\* The new session is shown, and its task spawned.
ManSpawn ==
    /\ man = "spawn"
    /\ \E s \in Sessions :
         /\ sess[s] = "over"
         /\ sess' = [sess EXCEPT ![s] = "connecting"]
         /\ cancelled' = cancelled \ {s}
         /\ cur' = s
    /\ man' = "wait"
    /\ target' = TRUE
    /\ connStatus' = "connecting"
    /\ UNCHANGED <<uiVars, listenVars, dialQ, shutdown>>

\* The target is cleared before the session has ended.
ManDisconnectBug ==
    /\ man = "wait"
    /\ Received(dialQ, "Disconnect")
    /\ dialQ' = Tail(dialQ)
    /\ target' = FALSE
    /\ IF cur = NoSession
       THEN connStatus' = "idle" /\ UNCHANGED <<man, cancelled>>
       ELSE /\ man' = "drop"
            /\ cancelled' = cancelled \cup {cur}
            /\ UNCHANGED connStatus
    /\ UNCHANGED <<uiVars, listenVars, cur, sess, shutdown>>

\* Disconnect: cancel the session and wait for it, then clear what is shown.
ManDisconnect ==
    /\ man = "wait"
    /\ Received(dialQ, "Disconnect")
    /\ dialQ' = Tail(dialQ)
    /\ IF cur = NoSession
       THEN /\ target' = FALSE /\ connStatus' = "idle"
            /\ UNCHANGED <<man, cancelled>>
       ELSE /\ man' = "drop"
            /\ cancelled' = cancelled \cup {cur}
            /\ UNCHANGED <<target, connStatus>>
    /\ UNCHANGED <<uiVars, listenVars, cur, sess, shutdown>>

\* The status of the session that was cancelled stays.
ManDroppedBug ==
    /\ man = "drop"
    /\ sess[cur] = "over"
    /\ man' = "wait"
    /\ cur' = NoSession
    /\ target' = FALSE
    /\ UNCHANGED <<uiVars, listenVars, connStatus, dialQ, sess, cancelled, shutdown>>

ManDropped ==
    /\ man = "drop"
    /\ sess[cur] = "over"
    /\ man' = "wait"
    /\ cur' = NoSession
    /\ target' = FALSE
    /\ connStatus' = "idle"
    /\ UNCHANGED <<uiVars, listenVars, dialQ, sess, cancelled, shutdown>>

ManShutdown ==
    /\ man = "wait" /\ shutdown
    /\ IF cur = NoSession
       THEN man' = "over" /\ UNCHANGED cancelled
       ELSE man' = "last" /\ cancelled' = cancelled \cup {cur}
    /\ UNCHANGED <<uiVars, listenVars, dialQ, connStatus, cur, sess, target, shutdown>>

ManLast ==
    /\ man = "last"
    /\ sess[cur] = "over"
    /\ man' = "over"
    /\ cur' = NoSession
    /\ UNCHANGED <<uiVars, listenVars, dialQ, connStatus, sess, cancelled, target, shutdown>>

Manager ==
    \/ ManBoot \/ ManConnect \/ ManReplaced \/ ManSpawn
    \/ ManDisconnect \/ ManDropped \/ ManShutdown \/ ManLast

------------------------------------------------------------------------------
(* run_managed_dial_session. *)

\* A step of session s from one point of its loop to another, setting the status.
SessionStep(s, from, to, shown) ==
    /\ sess[s] = from
    /\ sess' = [sess EXCEPT ![s] = to]
    /\ connStatus' = shown
    /\ UNCHANGED <<uiVars, listenVars, dialQ, man, cur, cancelled, shutdown>>

\* The target resolves (a PIN's node id is then shown), does not, or is this peer.
SessResolve(s) ==
    \/ SessionStep(s, "connecting", "dialing", connStatus) /\ target' \in {target, TRUE}
    \/ SessionStep(s, "connecting", "waiting", "reconnecting") /\ UNCHANGED target
    \/ SessionStep(s, "connecting", "ending", "closed") /\ UNCHANGED target

\* The connection comes up, or it does not.
SessDial(s) ==
    \/ SessionStep(s, "dialing", "connected", "connected") /\ UNCHANGED target
    \/ SessionStep(s, "dialing", "waiting", "reconnecting") /\ UNCHANGED target

\* handle_connection returns: reconnect, or end the session on a failed auth.
SessDisconnected(s) ==
    \/ SessionStep(s, "connected", "waiting", "reconnecting") /\ UNCHANGED target
    \/ SessionStep(s, "connected", "ending", "closed") /\ UNCHANGED target

\* The backoff is over.
SessRetry(s) == SessionStep(s, "waiting", "connecting", "connecting") /\ UNCHANGED target

\* A fatal end hides the target last.
SessEnding(s) == SessionStep(s, "ending", "over", connStatus) /\ target' = FALSE

\* Any await of the loop sees the cancelled token or the shutdown.
SessStop(s) ==
    /\ sess[s] \in InLoop
    /\ s \in cancelled \/ shutdown
    /\ SessionStep(s, sess[s], "over", connStatus)
    /\ UNCHANGED target

Session(s) ==
    \/ SessResolve(s) \/ SessDial(s) \/ SessDisconnected(s)
    \/ SessRetry(s) \/ SessEnding(s) \/ SessStop(s)

------------------------------------------------------------------------------
\* Only the dial half takes the other one down.
RunEndsBug ==
    /\ man = "over"
    /\ shutdown' = TRUE
    /\ UNCHANGED <<uiVars, listenVars, dialVars, target>>

\* run_serve_and_dial: either half returned, the other has to unwind.
RunEnds ==
    /\ sup = "over" \/ man = "over"
    /\ shutdown' = TRUE
    /\ UNCHANGED <<uiVars, listenVars, dialVars, target>>

Init ==
    /\ keys = 0 /\ ui = "home"
    /\ listenQ = <<>> /\ dialQ = <<>>
    /\ status = "stopped" /\ connStatus = "idle" /\ target = FALSE
    /\ sup = "boot" /\ serve = "none"
    /\ man = "boot" /\ cur = NoSession
    /\ sess = [s \in Sessions |-> "over"] /\ cancelled = {}
    /\ shutdown = FALSE

Next ==
    \/ UserKey \/ KeyHandler
    \/ Supervisor \/ ServeReturns \/ ServeStops
    \/ Manager \/ \E s \in Sessions : Session(s)
    \/ RunEnds

Spec == Init /\ [][Next]_vars

\* Every task that can run is polled; the user, the network and the relays owe
\* nothing: only the reactions to a cancelled token or a shutdown are fair.
Fairness ==
    /\ WF_vars(KeyHandler) /\ WF_vars(Supervisor) /\ WF_vars(Manager)
    /\ WF_vars(ServeStops) /\ WF_vars(RunEnds)
    /\ \A s \in Sessions : WF_vars(SessStop(s) \/ SessEnding(s))

FairSpec == Spec /\ Fairness

------------------------------------------------------------------------------
(* Properties. *)

\* Every variable has its type.
TypeOK ==
    /\ keys \in 0..MaxKeys
    /\ ui \in {"home", "toggle", "form", "sent", "reset", "quit"}
    /\ listenQ \in Seq({"Start", "Stop"}) /\ Len(listenQ) <= ChannelCap
    /\ dialQ \in Seq({"Connect", "Disconnect"}) /\ Len(dialQ) <= ChannelCap
    /\ status \in {"stopped", "listening"}
    /\ target \in BOOLEAN /\ shutdown \in BOOLEAN
    /\ connStatus \in {"idle", "connecting", "connected", "reconnecting", "closed"}
    /\ sup \in {"boot", "wait", "spawn", "join", "last", "over"}
    /\ serve \in {"none", "up", "ended", "failed"}
    /\ man \in {"boot", "wait", "replace", "spawn", "drop", "last", "over"}
    /\ cur \in Sessions \cup {NoSession}
    /\ sess \in [Sessions -> Live \cup {"over"}]
    /\ cancelled \subseteq Sessions

\* At most one dial session lives at a time, and it is the one whose handle the
\* manager holds: a target that replaces another waits for its task to end.
OneSessionAtATime == \A s \in Sessions : sess[s] \in Live => s = cur

\* While the serve task may accept a peer the dashboard says so, hence Shift+C
\* stays inert: the status is set before the task and cleared after its end.
ServingIsShown == serve = "up" => Listening

\* While a dial session can still connect its target is shown, hence Shift+L
\* stays inert and Start is refused: nobody hides the target of a live session.
SessionIsShown == \A s \in Sessions : sess[s] \in InLoop => target

\* A manager with nothing to do and no session never shows one as connecting,
\* connected or reconnecting: a cancelled session leaves no status behind.
NoLeftoverStatus ==
    (man = "wait" /\ ~shutdown /\ \A s \in Sessions : sess[s] = "over")
        => connStatus \in {"idle", "closed"}

\* Once the run is told to end, or one half has failed, everything unwinds:
\* both halves return and no session and no serve task is left.
EverythingUnwinds ==
    (shutdown \/ sup = "over" \/ man = "over") ~>
        /\ sup = "over" /\ man = "over" /\ serve = "none"
        /\ \A s \in Sessions : sess[s] = "over"

\* "A run holds one pairing": the module comment of iroh_mode/peer.rs has the two
\* sides mutually exclusive within a run, enforced in both supervisors.
OnePairing == ~(serve = "up" /\ \E s \in Sessions : sess[s] \in Live)

\* The connect form means never to be "silently showing a target that never
\* connects" (tui/mod.rs): with every command handled, a target shown beside a
\* listening serve half belongs to a session.
NoPhantomTarget ==
    (/\ target /\ Listening
     /\ sup = "wait" /\ man = "wait" /\ dialQ = <<>> /\ ui = "home")
        => \E s \in Sessions : sess[s] \in Live
==============================================================================
