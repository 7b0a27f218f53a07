---------------------------- MODULE NamePublisher ----------------------------
(***************************************************************************)
(* A name on nostr: devices that were given the same name publish the node *)
(* id of their listen session under it, and a peer dials by that name      *)
(* (run_node_id_publisher, peer_state.rs, the two record functions of      *)
(* nostr_discovery.rs, and the resolving half of a managed dial session).  *)
(*                                                                         *)
(* The relays hold one replaceable record per name.  A node id is          *)
(* ephemeral: every listen session has one of its own, here the device and *)
(* the number of the session.  A lookup that fails counts as no conflict,  *)
(* a publish that fails is only logged, and a record may be dropped: these *)
(* are the faults, which MaxFaults bounds.                                 *)
(*                                                                         *)
(* The state file is read and written without error.  A headless run never *)
(* publishes (main.rs turns discovery off), so every publisher has a user  *)
(* to ask.                                                                 *)
(***************************************************************************)
EXTENDS Naturals, Sequences, FiniteSets

CONSTANTS
    Devices,      \* devices configured with the same name and token
    MaxSessions,  \* bound: listen sessions of all devices
    MaxFaults,    \* bound: failed lookups and publishes, dropped records
    MaxKeys,      \* bound: decisions the users make
    FaultyKeys,   \* bound: decisions the users make in a behaviour with faults
    NameCapacity, \* NAME_COMMAND_CAPACITY: decisions the channel to a publisher holds
    SlowCycle     \* a cycle sleeps longer than any publish takes

ASSUME SessionsAssumption == MaxSessions \in Nat \ {0}
ASSUME BoundsAssumption == MaxFaults \in Nat /\ MaxKeys \in Nat /\ FaultyKeys \in Nat
ASSUME CapacityAssumption == NameCapacity \in Nat \ {0}
ASSUME CycleAssumption == SlowCycle \in BOOLEAN

VARIABLES
    relay,     \* the record of the name: a node id, or NoId
    flag,      \* per device, the conflict flag in its state file
    run,       \* per device, the process and its listen session
    session,   \* per device, the number of its last listen session
    pub,       \* per device, the publisher task
    conflict,  \* per device, AppState.name_conflict
    cmds,      \* per device, the channel with the decisions for its publisher
    dial,      \* a dial session that knows the peer by this name
    used,      \* sessions started; bounds: faults that happened, decisions made
    lost       \* history: the device was told it lost the name; no take-over since

pubVars == <<flag, pub, conflict, cmds, lost>>
vars == <<relay, run, session, dial, used, pubVars>>

------------------------------------------------------------------------------
(* Data. *)

NoId == <<>>
Ids == Devices \X (1..MaxSessions)

\* The id of the session before is still the one that is published.
OwnIdBug(d) == <<d, session[d] - 1>>

OwnId(d) == <<d, session[d]>>
Owner(id) == id[1]

\* Rename adds a note to the config and is otherwise a decline.
Decisions == {"TakeOver", "Decline"}

\* The broadcast channel of a publisher: the decisions it has not received, oldest
\* first; whether one of them was overwritten, which the next receive reports; and, as
\* history, whether one was since the publisher last found the channel empty.
NoCmds == [unread |-> <<>>, lagged |-> FALSE, dropped |-> FALSE]

\* A full channel takes a decision in place of its oldest one.
Send(c, x) ==
    IF Len(c.unread) < NameCapacity
    THEN [c EXCEPT !.unread = Append(@, x)]
    ELSE [unread |-> Append(Tail(c.unread), x), lagged |-> TRUE, dropped |-> TRUE]

\* The oldest decision is taken out.
Received(c) == [c EXCEPT !.unread = Tail(@)]

\* Receive until there is an error: the channel is empty, or it has lagged, and then
\* what it still holds stays in it.
Drained(c) == IF c.lagged THEN [c EXCEPT !.lagged = FALSE] ELSE NoCmds

\* History: what is unread when a prompt is left was not meant for the next one.
Outdated(c) ==
    [c EXCEPT !.unread = [i \in DOMAIN c.unread |-> [c.unread[i] EXCEPT !.fresh = FALSE]]]

\* No publisher; and one that has just been spawned.
NoPub == [pc |-> "off", first |-> TRUE, other |-> NoId]
NewPub == [pc |-> "top", first |-> TRUE, other |-> NoId]

At(d, pc) == pub[d].pc = pc
Go(d, pc) == pub' = [pub EXCEPT ![d].pc = pc]

\* One more fault of the relays or of the way to them.
Fault ==
    /\ used.faults < MaxFaults /\ used.keys <= FaultyKeys
    /\ used' = [used EXCEPT !.faults = @ + 1]
NoFault == UNCHANGED used

\* An endpoint answers for the id of its session until it is closed.
Live(id) == id # NoId /\ run[Owner(id)] \in {"listening", "stopping"} /\ id = OwnId(Owner(id))

------------------------------------------------------------------------------
(* The process and its listen sessions, as far as the publisher sees them. *)

\* Shift-L, unless a prompt takes the keys: a new endpoint, hence a new node id,
\* and a publisher of its own.
StartListen(d) ==
    /\ run[d] = "stopped" /\ conflict[d] # "Prompt"
    /\ used.sessions < MaxSessions
    /\ used' = [used EXCEPT !.sessions = @ + 1]
    /\ run' = [run EXCEPT ![d] = "listening"]
    /\ session' = [session EXCEPT ![d] = used.sessions + 1]
    /\ pub' = [pub EXCEPT ![d] = NewPub]
    /\ UNCHANGED <<relay, dial, flag, conflict, cmds, lost>>

\* The session's token is cancelled.
StopListen(d) ==
    /\ run[d] = "listening"
    /\ run' = [run EXCEPT ![d] = "stopping"]
    /\ UNCHANGED <<relay, session, dial, used, pubVars>>

\* A record that was on its way when its sender ended may arrive, or not.
LastPublish(d) ==
    relay' \in {relay} \cup (IF At(d, "publish") THEN {OwnId(d)} ELSE {})

\* An aborted publisher: a poll that has just found a conflict runs on regardless,
\* and a publisher that ended because its user declined at start-up is remembered.
Aborted(p) ==
    CASE p.pc = "flag" -> [p EXCEPT !.pc = "late"]
      [] p.pc = "declined" -> p
      [] OTHER -> NoPub

\* The header keeps the conflict of the session that has ended.
SessionEndsBug(d) ==
    /\ run[d] = "stopping"
    /\ run' = [run EXCEPT ![d] = "stopped"]
    /\ pub' = [pub EXCEPT ![d] = Aborted(@)]
    /\ LastPublish(d)
    /\ cmds' = [cmds EXCEPT ![d] = NoCmds]
    /\ UNCHANGED <<session, dial, used, flag, conflict, lost>>

\* run_listen returns, which aborts the publisher, and clear_listen clears what
\* the header shows.
SessionEnds(d) ==
    /\ run[d] = "stopping"
    /\ run' = [run EXCEPT ![d] = "stopped"]
    /\ pub' = [pub EXCEPT ![d] = Aborted(@)]
    /\ conflict' = [conflict EXCEPT ![d] = "Inactive"]
    /\ LastPublish(d)
    /\ cmds' = [cmds EXCEPT ![d] = NoCmds]
    /\ UNCHANGED <<session, dial, used, flag, lost>>

\* The process exits or is killed, wherever it is, and is started again: the
\* state file stays.  The lock on the name, held until the exit, keeps any other
\* process of the device out.
Restart(d) ==
    /\ run[d] # "stopped" \/ pub[d].pc # "off"
    /\ run' = [run EXCEPT ![d] = "stopped"]
    /\ pub' = [pub EXCEPT ![d] = NoPub]
    /\ conflict' = [conflict EXCEPT ![d] = "Inactive"]
    /\ LastPublish(d)
    /\ cmds' = [cmds EXCEPT ![d] = NoCmds]
    /\ UNCHANGED <<session, dial, used, flag, lost>>

------------------------------------------------------------------------------
(* The publisher. *)

\* First cycle: only the flag counts, never the record, which is this device's
\* own previous one as a rule.
First(d) ==
    /\ At(d, "top")
    /\ pub' = [pub EXCEPT ![d] =
                 [@ EXCEPT !.pc = IF flag[d] = NoId THEN "publish" ELSE "flag",
                           !.other = flag[d]]]
    /\ UNCHANGED <<relay, run, session, dial, used, flag, conflict, cmds, lost>>

\* Any record, or none, lets the publisher go on.
CheckBug(d) ==
    /\ At(d, "check")
    /\ Go(d, "publish")
    /\ NoFault
    /\ UNCHANGED <<relay, run, session, dial, flag, conflict, cmds, lost>>

\* Later cycles: the record is another node id, or it is not, or the lookup failed.
Check(d) ==
    /\ At(d, "check")
    /\ \/ /\ relay \notin {NoId, OwnId(d)}
          /\ pub' = [pub EXCEPT ![d] = [@ EXCEPT !.pc = "flag", !.other = relay]]
          /\ NoFault
       \/ /\ relay \in {NoId, OwnId(d)}
          /\ Go(d, "publish")
          /\ NoFault
       \/ Go(d, "publish") /\ Fault
    /\ UNCHANGED <<relay, run, session, dial, flag, conflict, cmds, lost>>

\* The conflict is shown but not written to the state file.
RaiseBug(d) ==
    /\ pub[d].pc \in {"flag", "late"}
    /\ conflict' = [conflict EXCEPT ![d] = "Prompt"]
    /\ lost' = lost \cup {d}
    /\ Go(d, IF At(d, "flag") THEN "prompt" ELSE "overrun")
    /\ UNCHANGED <<relay, run, session, dial, used, flag, cmds>>

\* A conflict is written to the state file and shown, in one poll.
Raise(d) ==
    /\ pub[d].pc \in {"flag", "late"}
    /\ flag' = [flag EXCEPT ![d] = pub[d].other]
    /\ conflict' = [conflict EXCEPT ![d] = "Prompt"]
    /\ lost' = lost \cup {d}
    /\ Go(d, IF At(d, "flag") THEN "prompt" ELSE "overrun")
    /\ UNCHANGED <<relay, run, session, dial, used, cmds>>

\* Decisions left over from an earlier prompt are kept.
DrainBug(d) ==
    /\ At(d, "prompt")
    /\ Go(d, "wait")
    /\ UNCHANGED <<relay, run, session, dial, used, flag, conflict, cmds, lost>>

\* Decisions made before this point are discarded, or, when there were too many, one
\* error is.
Drain(d) ==
    /\ At(d, "prompt")
    /\ cmds' = [cmds EXCEPT ![d] = Drained(@)]
    /\ Go(d, "wait")
    /\ UNCHANGED <<relay, run, session, dial, used, flag, conflict, lost>>

\* t, r or n while the prompt is shown: sent to the publisher; if there is none, that
\* has no effect.
Key(d, decision) ==
    /\ conflict[d] = "Prompt" /\ pub[d].pc \in {"prompt", "wait"}
    /\ used.keys < MaxKeys /\ (used.faults # 0 => used.keys < FaultyKeys)
    /\ used' = [used EXCEPT !.keys = @ + 1]
    /\ cmds' = [cmds EXCEPT ![d] = Send(@, [what |-> decision, fresh |-> TRUE])]
    /\ UNCHANGED <<relay, run, session, dial, flag, pub, conflict, lost>>

\* Take over: forget the conflict and publish again.  The other decisions stay where
\* they are.
TakeOver(d) ==
    /\ flag' = [flag EXCEPT ![d] = NoId]
    /\ conflict' = [conflict EXCEPT ![d] = "Inactive"]
    /\ lost' = lost \ {d}
    /\ cmds' = [cmds EXCEPT ![d] = Outdated(Received(@))]
    /\ Go(d, "publish")
    /\ UNCHANGED run

\* Decline: in the first cycle the listen session ends, and nothing but the session;
\* later on it serves without a name.  A publisher that ends takes its channel along.
GiveUp(d) ==
    /\ IF pub[d].first
       THEN run' = [run EXCEPT ![d] = "stopping"] /\ UNCHANGED conflict
       ELSE conflict' = [conflict EXCEPT ![d] = "Degraded"] /\ UNCHANGED run
    /\ cmds' = [cmds EXCEPT ![d] = NoCmds]
    /\ Go(d, IF pub[d].first THEN "declined" ELSE "done")
    /\ UNCHANGED <<flag, lost>>

\* The oldest decision in the channel, in one poll with what it does.
Oldest(d) == Head(cmds[d].unread)

\* The user's decision arrives.
Decide(d) ==
    /\ At(d, "wait") /\ ~cmds[d].lagged /\ cmds[d].unread # <<>>
    /\ IF Oldest(d).what = "TakeOver" THEN TakeOver(d) ELSE GiveUp(d)
    /\ UNCHANGED <<relay, session, dial, used>>

\* More decisions than the channel holds: the error that comes instead of one is taken
\* for the end of the channel, and the publisher for its part ends with the prompt up.
Lagged(d) ==
    /\ At(d, "wait") /\ cmds[d].lagged
    /\ cmds' = [cmds EXCEPT ![d] = [NoCmds EXCEPT !.dropped = TRUE]]
    /\ Go(d, "done")
    /\ UNCHANGED <<relay, run, session, dial, used, flag, conflict, lost>>

\* publish_node_id: the relays have the record, or it failed.  Either way the
\* header stops warning and the next cycle looks at the record.
Publish(d) ==
    /\ At(d, "publish")
    /\ \/ relay' = OwnId(d) /\ NoFault
       \/ relay' = relay /\ Fault
    /\ conflict' = [conflict EXCEPT ![d] = "Inactive"]
    /\ pub' = [pub EXCEPT ![d] = [@ EXCEPT !.pc = "sleep", !.first = FALSE, !.other = NoId]]
    /\ UNCHANGED <<run, session, dial, flag, cmds, lost>>

\* The interval is over.  In the first six cycles it is about as long as a slow
\* publish, later thirty times that.
Wake(d) ==
    /\ At(d, "sleep")
    /\ SlowCycle => \A e \in Devices : ~At(e, "publish")
    /\ Go(d, "check")
    /\ UNCHANGED <<relay, run, session, dial, used, flag, conflict, cmds, lost>>

\* The cancelled token ends a publisher that waits for a decision or sleeps.
PubCancelled(d) ==
    /\ pub[d].pc \in {"wait", "sleep"} /\ run[d] = "stopping"
    /\ cmds' = [cmds EXCEPT ![d] = NoCmds]
    /\ Go(d, "done")
    /\ UNCHANGED <<relay, run, session, dial, used, flag, conflict, lost>>

\* A relay drops the record.
RelayForgets ==
    /\ relay # NoId
    /\ Fault
    /\ relay' = NoId
    /\ UNCHANGED <<run, session, dial, pubVars>>

------------------------------------------------------------------------------
(* A dial session by name: resolve, connect, serve; on any failure back off and
   resolve again. *)

NoDial == [pc |-> "resolve", id |-> NoId]
Backoff == [pc |-> "backoff", id |-> NoId]

\* lookup_node_id: no record is an error too.
DialResolve ==
    /\ dial.pc = "resolve"
    /\ \/ /\ NoFault
          /\ dial' = IF relay = NoId THEN Backoff ELSE [pc |-> "connect", id |-> relay]
       \/ Fault /\ dial' = Backoff
    /\ UNCHANGED <<relay, run, session, pubVars>>

\* An id that does not answer is dialled again.
DialConnectBug ==
    /\ dial.pc = "connect"
    /\ dial' = IF Live(dial.id) THEN [dial EXCEPT !.pc = "served"] ELSE dial
    /\ UNCHANGED <<relay, run, session, used, pubVars>>

\* The listener reached at this id takes the connection; nobody else has it.
DialConnect ==
    /\ dial.pc = "connect"
    /\ dial' = IF Live(dial.id) THEN [dial EXCEPT !.pc = "served"] ELSE Backoff
    /\ UNCHANGED <<relay, run, session, used, pubVars>>

\* The connection ends with the listener's endpoint.
DialLost ==
    /\ dial.pc = "served" /\ ~Live(dial.id)
    /\ dial' = Backoff
    /\ UNCHANGED <<relay, run, session, used, pubVars>>

\* After the back-off the name is looked up again.
DialRetry ==
    /\ dial.pc = "backoff"
    /\ dial' = NoDial
    /\ UNCHANGED <<relay, run, session, used, pubVars>>

------------------------------------------------------------------------------
Init ==
    /\ relay = NoId
    /\ flag = [d \in Devices |-> NoId]
    /\ run = [d \in Devices |-> "stopped"]
    /\ session = [d \in Devices |-> 0]
    /\ pub = [d \in Devices |-> NoPub]
    /\ conflict = [d \in Devices |-> "Inactive"]
    /\ cmds = [d \in Devices |-> NoCmds]
    /\ dial = NoDial
    /\ used = [sessions |-> 0, faults |-> 0, keys |-> 0]
    /\ lost = {}

Process(d) == StartListen(d) \/ StopListen(d) \/ SessionEnds(d) \/ Restart(d)

Publisher(d) ==
    \/ First(d) \/ Check(d) \/ Raise(d) \/ Drain(d) \/ Decide(d) \/ Lagged(d)
    \/ Publish(d) \/ Wake(d) \/ PubCancelled(d)

Dial == DialResolve \/ DialConnect \/ DialLost \/ DialRetry

Next ==
    \/ \E d \in Devices : Process(d) \/ Publisher(d)
    \/ \E d \in Devices, k \in Decisions : Key(d, k)
    \/ RelayForgets
    \/ Dial

Spec == Init /\ [][Next]_vars

\* Tasks that can run are polled, timers fire (a sleep ends, also if the other
\* device keeps publishing meanwhile: hence SF) and a cancelled session ends.
\* Nothing is assumed of the users, and nothing of the relays but the bound on
\* faults.
Fairness ==
    /\ \A d \in Devices :
         WF_vars(Publisher(d)) /\ SF_vars(Wake(d)) /\ WF_vars(SessionEnds(d))
    /\ WF_vars(Dial)

FairSpec == Spec /\ Fairness

------------------------------------------------------------------------------
(* Properties. *)

PubStates == {"off", "top", "check", "flag", "late", "prompt", "wait", "publish",
              "sleep", "done", "declined", "overrun"}

Decision == [what : Decisions, fresh : BOOLEAN]

\* Every variable has its type.
TypeOK ==
    /\ relay \in Ids \cup {NoId}
    /\ flag \in [Devices -> Ids \cup {NoId}]
    /\ run \in [Devices -> {"stopped", "listening", "stopping"}]
    /\ session \in [Devices -> 0..MaxSessions]
    /\ pub \in [Devices -> [pc : PubStates, first : BOOLEAN, other : Ids \cup {NoId}]]
    /\ conflict \in [Devices -> {"Inactive", "Prompt", "Degraded"}]
    /\ cmds \in [Devices -> [unread : Seq(Decision), lagged : BOOLEAN, dropped : BOOLEAN]]
    /\ dial \in [pc : {"resolve", "connect", "served", "backoff"}, id : Ids \cup {NoId}]
    /\ used \in [sessions : 0..MaxSessions, faults : 0..MaxFaults, keys : 0..MaxKeys]
    /\ lost \subseteq Devices

\* A device that lost its name does not publish it again until its user takes
\* it over: not in a later cycle, not in a later session, and not after the
\* process was killed at any point and started again.
LoserStaysQuiet == \A d \in lost : ~At(d, "publish")

\* The name keeps the abstract promise of OneName: only a device with a session that
\* has not lost the name writes it, with the node id of that session, also with the
\* last record of a session that ends, and whatever was killed or restarted.
Promise == INSTANCE OneName WITH record <- relay,
                                 serving <- {d \in Devices : run[d] # "stopped"},
                                 newest <- session,
                                 losers <- lost

ImplementsOneName == Promise!Spec

\* A prompt that is shown has a publisher that waits for the answer, unless the
\* session is ending: the prompt takes every key, so one that nobody can answer
\* locks the dashboard.  There are two exceptions, and this says that there is no
\* third: the poll that the end of the session overtook between finding the conflict
\* and showing it, and a user who sent more decisions than the channel holds
\* (PromptTakesAnAnswer).
PromptIsAnswerable ==
    \A d \in Devices : conflict[d] = "Prompt" =>
        \/ run[d] = "listening" /\ pub[d].pc \in {"prompt", "wait"}
        \/ run[d] = "stopping"
        \/ At(d, "overrun")
        \/ At(d, "done") /\ cmds[d].dropped

\* A decision resolves the prompt it was made for: a second key pressed on one
\* prompt never decides a later conflict of the same session, and while the session
\* goes on a publisher leaves its prompt for nothing but a decision made there.  Only
\* a channel that has overflowed since it was last found empty ends the wait in
\* another way, or keeps an old decision over the drain.
PromptLeft(d) ==
    At(d, "wait") /\ ~At(d, "wait")' /\ run[d] = "listening" /\ run'[d] # "stopped"

DecisionsAreFresh ==
    [][\A d \in Devices :
          PromptLeft(d) => cmds[d].dropped \/ (Decide(d) /\ Oldest(d).fresh)]_vars

\* "The decision is sent to the publisher, which clears the prompt and acts": the same
\* without the exception for a channel that has overflowed.
PromptTakesAnAnswer ==
    [][\A d \in Devices : PromptLeft(d) => Decide(d) /\ Oldest(d).fresh]_vars

\* Devices that share a name do not overwrite each other's record for ever:
\* from some point on at most one of them publishes it.  (Cycles that sleep no
\* longer than a publish takes could keep missing each other.)
Publishing(d) == pub[d].pc \in {"top", "check", "publish", "sleep"}

NameSettles == <>[](Cardinality({d \in Devices : Publishing(d)}) <= 1)

\* Once there is a device that keeps publishing, a peer that dials the name gets
\* through and stays connected, whatever stale record, restarted listener or
\* failed lookup it met on the way.
DialerGetsThrough == <>[](\E d \in Devices : Publishing(d)) => <>[](dial.pc = "served")

\* The startup re-checks are documented to see "our *own* fresh record when there
\* is no competitor (no false positive)": no device is in conflict with itself.
NoSelfConflict ==
    \A d \in Devices : pub[d].pc \in {"prompt", "wait"} => Owner(pub[d].other) # d

\* The prompt of a start-up says "[n] decline: quit", and of renaming the same: a
\* process whose user declined there does not listen again.
DecliningQuits == [][\A d \in Devices : At(d, "declined") => run'[d] # "listening"]_vars
==============================================================================
