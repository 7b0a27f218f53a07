-------------------------- MODULE NamePublisherProofs --------------------------
(***************************************************************************)
(* What NamePublisher guarantees for any number of devices, sessions,      *)
(* faults and decisions: its types, that a device which lost its name      *)
(* stays quiet, that a shown prompt can be answered, and that a decision   *)
(* counts for the prompt it was made for, the last two as long as the      *)
(* channel of decisions does not overflow.                                 *)
(*                                                                         *)
(* DeviceInv is the inductive invariant of one device.  Devices meet in    *)
(* the relay's record only, of which it asks nothing but the type.         *)
(***************************************************************************)
EXTENDS NamePublisher, SequenceTheorems, TLAPS

\* Publisher states that can be left behind when the session has ended.
Leftover == {"off", "late", "overrun", "declined"}

\* What a channel holds was sent while the prompt was up that is up now.
AllFresh(c) == \A i \in 1..Len(c.unread) : c.unread[i].fresh

\* The task lives within a session, a session has a number, a conflict names
\* somebody, a loser's flag is in its state file and keeps it out of the cycles
\* that publish, and what waits to be decided is about the prompt that is shown, unless
\* the channel has overflowed.
DeviceInv(d) ==
    /\ pub[d].pc \notin Leftover => run[d] # "stopped"
    /\ run[d] # "stopped" => session[d] # 0
    /\ pub[d].pc \in {"flag", "late"} => pub[d].other # NoId
    /\ d \in lost => flag[d] # NoId /\ pub[d].pc \notin {"check", "publish", "sleep"}
    /\ cmds[d].lagged => cmds[d].dropped
    /\ At(d, "wait") /\ ~cmds[d].dropped => AllFresh(cmds[d])
    /\ conflict[d] = "Prompt" =>
         \/ run[d] = "listening" /\ pub[d].pc \in {"prompt", "wait"}
         \/ run[d] = "stopping"
         \/ At(d, "overrun")
         \/ At(d, "done") /\ cmds[d].dropped

IInv == TypeOK /\ \A d \in Devices : DeviceInv(d)

------------------------------------------------------------------------------
(* Types, variable by variable. *)

PubRecord == [pc : PubStates, first : BOOLEAN, other : Ids \cup {NoId}]
Channel == [unread : Seq(Decision), lagged : BOOLEAN, dropped : BOOLEAN]

\* The counters of sessions, faults and decisions stay within their bounds.
LEMMA UsedType ==
    ASSUME TypeOK, \/ Fault \/ NoFault
                   \/ /\ used.sessions < MaxSessions
                      /\ used' = [used EXCEPT !.sessions = @ + 1]
                   \/ /\ used.keys < MaxKeys
                      /\ used' = [used EXCEPT !.keys = @ + 1]
    PROVE  used' \in [sessions : 0..MaxSessions, faults : 0..MaxFaults, keys : 0..MaxKeys]
<1>1. used \in [sessions : 0..MaxSessions, faults : 0..MaxFaults, keys : 0..MaxKeys]
  BY DEF TypeOK
<1>2. CASE Fault
  <2>1. used.faults + 1 \in 0..MaxFaults
    BY <1>1, <1>2, BoundsAssumption DEF Fault
  <2>2. used' = [used EXCEPT !.faults = @ + 1]
    BY <1>2 DEF Fault
  <2>3. QED
    BY <1>1, <2>1, <2>2
<1>3. CASE ~Fault
  BY <1>1, <1>3, SessionsAssumption, BoundsAssumption DEF NoFault
<1>4. QED
  BY <1>2, <1>3

\* Moving a publisher to another state keeps the rest of it, and the others.
LEMMA GoType ==
    ASSUME TypeOK, NEW d \in Devices, NEW pc \in PubStates, Go(d, pc)
    PROVE  /\ pub' \in [Devices -> PubRecord]
           /\ pub'[d].pc = pc /\ pub'[d].first = pub[d].first /\ pub'[d].other = pub[d].other
           /\ \A e \in Devices \ {d} : pub'[e] = pub[e]
<1>1. pub \in [Devices -> PubRecord]
  BY DEF TypeOK, PubRecord
<1>2. [pub[d] EXCEPT !.pc = pc] \in PubRecord
  BY <1>1 DEF PubRecord
<1>3. pub' = [pub EXCEPT ![d] = [pub[d] EXCEPT !.pc = pc]]
  BY DEF Go
<1>4. pub'[d] = [pub[d] EXCEPT !.pc = pc]
  BY <1>1, <1>3
<1>5. QED
  BY <1>1, <1>2, <1>3, <1>4 DEF PubRecord

\* A whole record put into a publisher's place.
LEMMA PutType ==
    ASSUME TypeOK, NEW d \in Devices, NEW r \in PubRecord, pub' = [pub EXCEPT ![d] = r]
    PROVE  /\ pub' \in [Devices -> PubRecord] /\ pub'[d] = r
           /\ \A e \in Devices \ {d} : pub'[e] = pub[e]
BY DEF TypeOK, PubRecord

\* The records an action puts there.
LEMMA RecordTypes ==
    /\ NoPub \in PubRecord /\ NewPub \in PubRecord
    /\ \A p \in PubRecord : Aborted(p) \in PubRecord
    /\ \A p \in PubRecord : Aborted(p).pc \in Leftover
    /\ \A p \in PubRecord :
         Aborted(p).pc = "late" => p.pc = "flag" /\ Aborted(p).other = p.other
<1>1. NoPub \in PubRecord /\ NewPub \in PubRecord
  BY DEF NoPub, NewPub, PubRecord, PubStates
<1>2. ASSUME NEW p \in PubRecord
      PROVE  /\ Aborted(p) \in PubRecord /\ Aborted(p).pc \in Leftover
             /\ Aborted(p).pc = "late" => p.pc = "flag" /\ Aborted(p).other = p.other
  <2>1. CASE p.pc = "flag"
    BY <2>1 DEF Aborted, PubRecord, PubStates, Leftover
  <2>2. CASE p.pc = "declined"
    BY <2>2 DEF Aborted, Leftover
  <2>3. CASE p.pc \notin {"flag", "declined"}
    <3>1. Aborted(p) = NoPub
      BY <2>3 DEF Aborted
    <3>2. QED
      BY <1>1, <3>1 DEF NoPub, Leftover
  <2>4. QED
    BY <2>1, <2>2, <2>3
<1>3. QED
  BY <1>1, <1>2

\* The id a session publishes.
LEMMA OwnIdType ==
    ASSUME TypeOK, NEW d \in Devices, session[d] # 0
    PROVE  OwnId(d) \in Ids
BY SessionsAssumption DEF TypeOK, OwnId, Ids

\* What happens to a channel keeps its type, and a decision sent into it is its last.
LEMMA ChannelType ==
    ASSUME NEW c \in Channel
    PROVE  /\ NoCmds \in Channel /\ [NoCmds EXCEPT !.dropped = TRUE] \in Channel
           /\ Drained(c) \in Channel /\ Outdated(c) \in Channel
           /\ c.unread # <<>> => Received(c) \in Channel
           /\ AllFresh(NoCmds)
<1>1. c.unread \in Seq(Decision) /\ c.lagged \in BOOLEAN /\ c.dropped \in BOOLEAN
  BY DEF Channel
<1>2. <<>> \in Seq(Decision) /\ Len(<<>>) = 0
  BY EmptySeq
<1>3. NoCmds \in Channel /\ [NoCmds EXCEPT !.dropped = TRUE] \in Channel /\ AllFresh(NoCmds)
  <2>1. NoCmds.unread = <<>>
    BY DEF NoCmds
  <2>2. NoCmds \in Channel
    BY <1>2 DEF NoCmds, Channel
  <2>3. AllFresh(NoCmds)
    BY <1>2, <2>1 DEF AllFresh
  <2>4. [NoCmds EXCEPT !.dropped = TRUE] \in Channel
    BY <2>2 DEF Channel
  <2>5. QED
    BY <2>2, <2>3, <2>4
<1>4. Drained(c) \in Channel
  BY <1>3 DEF Drained, Channel
<1>5. Outdated(c) \in Channel
  <2> DEFINE u == [i \in DOMAIN c.unread |-> [c.unread[i] EXCEPT !.fresh = FALSE]]
  <2>1. PICK n \in Nat : c.unread \in [1..n -> Decision]
    BY <1>1, SeqDef
  <2>2. DOMAIN c.unread = 1..n
    BY <2>1
  <2>3. \A i \in 1..n : [c.unread[i] EXCEPT !.fresh = FALSE] \in Decision
    BY <2>1 DEF Decision
  <2>4. u \in [1..n -> Decision]
    BY <2>2, <2>3
  <2>5. u \in Seq(Decision)
    <3> HIDE DEF u
    <3>1. QED
      BY <2>4, SeqDef
  <2>6. Outdated(c) = [c EXCEPT !.unread = u]
    BY DEF Outdated
  <2> HIDE DEF u
  <2>7. QED
    BY <2>5, <2>6 DEF Channel
<1>6. ASSUME c.unread # <<>> PROVE Received(c) \in Channel
  <2>1. Tail(c.unread) \in Seq(Decision)
    BY <1>1, <1>6, HeadTailProperties
  <2>2. QED
    BY <2>1 DEF Received, Channel
<1>7. QED
  BY <1>3, <1>4, <1>5, <1>6

\* So does a decision that is sent; without an overflow what was fresh is, and it too.
LEMMA SendFacts ==
    ASSUME NEW c \in Channel, NEW x \in Decision
    PROVE  /\ Send(c, x) \in Channel
           /\ c.dropped => Send(c, x).dropped
           /\ Send(c, x).lagged => c.lagged \/ Send(c, x).dropped
           /\ AllFresh(c) /\ x.fresh => Send(c, x).dropped \/ AllFresh(Send(c, x))
<1> DEFINE u == c.unread
<1>1. u \in Seq(Decision) /\ c.lagged \in BOOLEAN /\ c.dropped \in BOOLEAN
  BY DEF Channel
<1>2. Len(u) \in Nat /\ Len(<<>>) = 0
  BY <1>1, LenProperties, EmptySeq
<1>3. CASE Len(u) < NameCapacity
  <2>1. /\ Append(u, x) \in Seq(Decision) /\ Len(Append(u, x)) = Len(u) + 1
        /\ \A i \in 1..Len(u) : Append(u, x)[i] = u[i]
        /\ Append(u, x)[Len(u) + 1] = x
    BY <1>1, AppendProperties
  <2>2. Send(c, x) = [c EXCEPT !.unread = Append(u, x)]
    BY <1>3 DEF Send
  <2>3. \A i \in 1..Len(Append(u, x)) : i \in 1..Len(u) \/ i = Len(u) + 1
    BY <1>2, <2>1
  <2>4. Send(c, x) \in Channel /\ Send(c, x).unread = Append(u, x)
    BY <2>1, <2>2 DEF Channel
  <2>5. Send(c, x).dropped = c.dropped /\ Send(c, x).lagged = c.lagged
    BY <2>2 DEF Channel
  <2>6. AllFresh(c) /\ x.fresh => AllFresh(Send(c, x))
    BY <2>1, <2>3, <2>4 DEF AllFresh
  <2>7. QED
    BY <2>4, <2>5, <2>6
<1>4. CASE ~(Len(u) < NameCapacity)
  <2>1. u # <<>>
    BY <1>2, <1>4, CapacityAssumption
  <2>2. Tail(u) \in Seq(Decision)
    BY <1>1, <2>1, HeadTailProperties
  <2>3. Append(Tail(u), x) \in Seq(Decision)
    BY <2>2, AppendProperties
  <2>4. Send(c, x) = [unread |-> Append(Tail(u), x), lagged |-> TRUE, dropped |-> TRUE]
    BY <1>4 DEF Send
  <2>5. QED
    BY <2>3, <2>4 DEF Channel
<1>5. QED
  BY <1>3, <1>4

\* A channel put into the place of a device's.
LEMMA PutChannel ==
    ASSUME TypeOK, NEW d \in Devices, NEW c \in Channel, cmds' = [cmds EXCEPT ![d] = c]
    PROVE  /\ cmds' \in [Devices -> Channel] /\ cmds'[d] = c
           /\ \A e \in Devices \ {d} : cmds'[e] = cmds[e]
BY DEF TypeOK, Channel

------------------------------------------------------------------------------
(* The invariant, step by step. *)

LEMMA InitIInv == Init => IInv
<1> SUFFICES ASSUME Init PROVE IInv
  OBVIOUS
<1>1. pub \in [Devices -> PubRecord]
  BY RecordTypes DEF Init
<1>2. cmds \in [Devices -> Channel]
  <2>1. [unread |-> <<>>, lagged |-> FALSE, dropped |-> FALSE] \in Channel
    BY EmptySeq DEF Channel
  <2>2. QED
    BY <2>1 DEF Init, NoCmds
<1>3. used \in [sessions : 0..MaxSessions, faults : 0..MaxFaults, keys : 0..MaxKeys]
  BY SessionsAssumption, BoundsAssumption DEF Init
<1>4. dial \in [pc : {"resolve", "connect", "served", "backoff"}, id : Ids \cup {NoId}]
  BY DEF Init, NoDial
<1>5. TypeOK
  BY <1>1, <1>2, <1>3, <1>4, SessionsAssumption DEF Init, TypeOK, PubRecord, Channel
<1>6. ASSUME NEW d \in Devices PROVE DeviceInv(d)
  BY DEF Init, DeviceInv, At, NoPub, NoCmds, Leftover
<1>7. QED
  BY <1>5, <1>6 DEF IInv

\* Nothing but one device changes, apart from the relay and the counters.
Only(d) ==
    \A e \in Devices \ {d} :
        /\ run'[e] = run[e] /\ session'[e] = session[e] /\ pub'[e] = pub[e]
        /\ flag'[e] = flag[e] /\ conflict'[e] = conflict[e]
        /\ cmds'[e] = cmds[e]
        /\ e \in lost' <=> e \in lost

\* Hence the other devices keep their invariant.
LEMMA OneDevice ==
    ASSUME IInv, NEW d \in Devices, TypeOK', Only(d), DeviceInv(d)'
    PROVE  IInv'
<1>1. ASSUME NEW e \in Devices \ {d} PROVE DeviceInv(e)'
  BY <1>1 DEF IInv, Only, DeviceInv, At
<1>2. QED
  BY <1>1 DEF IInv

\* A session is numbered from 1, and its publisher starts at the top of its cycle.
LEMMA StartListenIInv ==
    ASSUME IInv, NEW d \in Devices, StartListen(d)
    PROVE  TypeOK' /\ Only(d) /\ DeviceInv(d)'
<1> USE DEF IInv
<1>1. used' \in [sessions : 0..MaxSessions, faults : 0..MaxFaults, keys : 0..MaxKeys]
  BY UsedType DEF StartListen
<1>2. /\ pub' \in [Devices -> PubRecord] /\ pub'[d] = NewPub
      /\ \A e \in Devices \ {d} : pub'[e] = pub[e]
  BY PutType, RecordTypes DEF StartListen
<1>3. NewPub.pc = "top"
  BY DEF NewPub
<1>4. used.sessions \in Nat /\ used.sessions + 1 \in 1..MaxSessions
  BY SessionsAssumption DEF TypeOK, StartListen
<1>5. TypeOK'
  BY <1>1, <1>2, <1>3, <1>4 DEF TypeOK, PubRecord, Channel, StartListen
<1>6. Only(d)
  BY <1>1, <1>2, <1>3, <1>4 DEF TypeOK, Only, StartListen
<1>7. DeviceInv(d)'
  BY <1>1, <1>2, <1>3, <1>4 DEF TypeOK, DeviceInv, At, Leftover, StartListen
<1>8. QED
  BY <1>5, <1>6, <1>7

\* A stop only marks the session.
LEMMA StopListenIInv ==
    ASSUME IInv, NEW d \in Devices, StopListen(d)
    PROVE  TypeOK' /\ Only(d) /\ DeviceInv(d)'
<1> USE DEF IInv
<1>1. UNCHANGED <<flag, pub, conflict, cmds, lost>>
  BY DEF StopListen, pubVars
<1>2. TypeOK'
  BY <1>1 DEF TypeOK, PubRecord, Channel, StopListen
<1>3. Only(d)
  BY <1>1 DEF TypeOK, Only, StopListen
<1>4. DeviceInv(d)'
  BY <1>1 DEF TypeOK, DeviceInv, At, Leftover, StopListen
<1>5. QED
  BY <1>2, <1>3, <1>4

\* What a sender on its way leaves at the relays is an id.
LEMMA LastPublishType ==
    ASSUME IInv, NEW d \in Devices, LastPublish(d)
    PROVE  relay' \in Ids \cup {NoId}
<1>1. At(d, "publish") => session[d] # 0
  BY DEF IInv, DeviceInv, At, Leftover
<1>2. relay' = relay \/ (At(d, "publish") /\ relay' = OwnId(d))
  BY DEF LastPublish
<1>3. TypeOK /\ relay \in Ids \cup {NoId}
  BY DEF IInv, TypeOK
<1>4. At(d, "publish") => OwnId(d) \in Ids
  BY <1>1, <1>3, OwnIdType
<1>5. QED
  BY <1>2, <1>3, <1>4

\* The end of a session leaves no publisher that needs one.
LEMMA SessionEndsIInv ==
    ASSUME IInv, NEW d \in Devices, SessionEnds(d)
    PROVE  TypeOK' /\ Only(d) /\ DeviceInv(d)'
<1> USE DEF IInv
<1>1. relay' \in Ids \cup {NoId}
  BY LastPublishType DEF SessionEnds
<1>2. pub[d] \in PubRecord
  BY DEF TypeOK, PubRecord
<1>3. /\ pub' \in [Devices -> PubRecord] /\ pub'[d] = Aborted(pub[d])
      /\ \A e \in Devices \ {d} : pub'[e] = pub[e]
  BY <1>2, PutType, RecordTypes DEF SessionEnds
<1>4. /\ Aborted(pub[d]).pc \in Leftover
      /\ Aborted(pub[d]).pc = "late" =>
           pub[d].pc = "flag" /\ Aborted(pub[d]).other = pub[d].other
  BY <1>2, RecordTypes
<1>5. cmds[d] \in Channel
  BY DEF TypeOK, Channel
<1>6. /\ cmds' \in [Devices -> Channel] /\ cmds'[d] = NoCmds
      /\ \A e \in Devices \ {d} : cmds'[e] = cmds[e]
  BY <1>5, ChannelType, PutChannel DEF SessionEnds
<1>7. TypeOK'
  BY <1>1, <1>2, <1>3, <1>4, <1>5, <1>6 DEF TypeOK, PubRecord, Channel, SessionEnds
<1>8. Only(d)
  BY <1>1, <1>2, <1>3, <1>4, <1>5, <1>6 DEF TypeOK, Only, SessionEnds
<1>9. DeviceInv(d)'
  BY <1>1, <1>2, <1>3, <1>4, <1>5, <1>6 DEF TypeOK, DeviceInv, At, Leftover, NoCmds, SessionEnds
<1>10. QED
  BY <1>7, <1>8, <1>9

\* Nor does a restart.
LEMMA RestartIInv ==
    ASSUME IInv, NEW d \in Devices, Restart(d)
    PROVE  TypeOK' /\ Only(d) /\ DeviceInv(d)'
<1> USE DEF IInv
<1>1. relay' \in Ids \cup {NoId}
  BY LastPublishType DEF Restart
<1>2. /\ pub' \in [Devices -> PubRecord] /\ pub'[d] = NoPub
      /\ \A e \in Devices \ {d} : pub'[e] = pub[e]
  BY PutType, RecordTypes DEF Restart
<1>3. NoPub.pc = "off"
  BY DEF NoPub
<1>4. cmds[d] \in Channel
  BY DEF TypeOK, Channel
<1>5. /\ cmds' \in [Devices -> Channel] /\ cmds'[d] = NoCmds
      /\ \A e \in Devices \ {d} : cmds'[e] = cmds[e]
  BY <1>4, ChannelType, PutChannel DEF Restart
<1>6. TypeOK'
  BY <1>1, <1>2, <1>3, <1>4, <1>5 DEF TypeOK, PubRecord, Channel, Restart
<1>7. Only(d)
  BY <1>1, <1>2, <1>3, <1>4, <1>5 DEF TypeOK, Only, Restart
<1>8. DeviceInv(d)'
  BY <1>1, <1>2, <1>3, <1>4, <1>5 DEF TypeOK, DeviceInv, At, Leftover, NoCmds, Restart
<1>9. QED
  BY <1>6, <1>7, <1>8

\* The first cycle looks at the flag, which a loser has.
LEMMA FirstIInv ==
    ASSUME IInv, NEW d \in Devices, First(d)
    PROVE  TypeOK' /\ Only(d) /\ DeviceInv(d)'
<1> USE DEF IInv
<1> DEFINE r == [pub[d] EXCEPT !.pc = IF flag[d] = NoId THEN "publish" ELSE "flag",
                               !.other = flag[d]]
<1>1. pub[d] \in PubRecord /\ flag[d] \in Ids \cup {NoId}
  BY DEF TypeOK, PubRecord
<1>2. /\ r \in PubRecord /\ r.other = flag[d]
      /\ r.pc = IF flag[d] = NoId THEN "publish" ELSE "flag"
  BY <1>1 DEF PubRecord, PubStates
<1>3. /\ pub' \in [Devices -> PubRecord] /\ pub'[d] = r
      /\ \A e \in Devices \ {d} : pub'[e] = pub[e]
  BY <1>2, PutType DEF First
<1> HIDE DEF r
<1>4. TypeOK'
  BY <1>1, <1>2, <1>3 DEF TypeOK, PubRecord, Channel, First
<1>5. Only(d)
  BY <1>1, <1>2, <1>3 DEF TypeOK, Only, First
<1>6. DeviceInv(d)'
  <2>1. pub'[d].pc = "flag" \/ (flag[d] = NoId /\ pub'[d].pc = "publish")
    BY <1>2, <1>3
  <2>2. run[d] # "stopped" /\ pub[d].pc = "top"
    BY DEF DeviceInv, Leftover, First, At
  <2>3. flag[d] # NoId => pub'[d].other # NoId
    BY <1>2, <1>3
  <2>4. pub'[d].pc = "flag" => flag[d] # NoId
    BY <1>2, <1>3
  <2>5. QED
    BY <2>1, <2>2, <2>3, <2>4 DEF TypeOK, DeviceInv, At, Leftover, First
<1>7. QED
  BY <1>4, <1>5, <1>6

\* A later cycle looks at the record.
LEMMA CheckIInv ==
    ASSUME IInv, NEW d \in Devices, Check(d)
    PROVE  TypeOK' /\ Only(d) /\ DeviceInv(d)'
<1> USE DEF IInv
<1>1. used' \in [sessions : 0..MaxSessions, faults : 0..MaxFaults, keys : 0..MaxKeys]
  BY UsedType DEF Check
<1>2. /\ pub' \in [Devices -> PubRecord]
      /\ \A e \in Devices \ {d} : pub'[e] = pub[e]
      /\ \/ pub'[d].pc = "flag" /\ pub'[d].other # NoId
         \/ pub'[d].pc = "publish"
  <2>1. CASE Go(d, "publish")
    BY <2>1, GoType DEF PubStates
  <2>2. CASE /\ relay \notin {NoId, OwnId(d)}
             /\ pub' = [pub EXCEPT ![d] = [@ EXCEPT !.pc = "flag", !.other = relay]]
    <3> DEFINE r == [pub[d] EXCEPT !.pc = "flag", !.other = relay]
    <3>1. pub[d] \in PubRecord /\ relay \in Ids \cup {NoId}
      BY DEF TypeOK, PubRecord
    <3>2. r \in PubRecord /\ r.pc = "flag" /\ r.other = relay
      BY <3>1 DEF PubRecord, PubStates
    <3>3. pub' = [pub EXCEPT ![d] = r]
      BY <2>2
    <3>4. QED
      BY <2>2, <3>2, <3>3, PutType
  <2>3. QED
    BY <2>1, <2>2 DEF Check
<1>3. TypeOK'
  BY <1>1, <1>2 DEF TypeOK, PubRecord, Channel, Check, At
<1>4. Only(d)
  BY <1>1, <1>2 DEF TypeOK, Only, Check, At
<1>5. DeviceInv(d)'
  BY <1>1, <1>2 DEF TypeOK, DeviceInv, At, Leftover, Check, At
<1>6. QED
  BY <1>3, <1>4, <1>5

\* A conflict that is raised is in the state file.
LEMMA RaiseIInv ==
    ASSUME IInv, NEW d \in Devices, Raise(d)
    PROVE  TypeOK' /\ Only(d) /\ DeviceInv(d)'
<1> USE DEF IInv
<1>1. /\ pub' \in [Devices -> PubRecord]
      /\ pub'[d].pc = (IF At(d, "flag") THEN "prompt" ELSE "overrun")
      /\ \A e \in Devices \ {d} : pub'[e] = pub[e]
  BY GoType DEF Raise, PubStates
<1>2. pub[d].other \in Ids /\ pub[d].pc \in {"flag", "late"}
  BY DEF Raise, TypeOK, DeviceInv
<1>3. TypeOK'
  <2>1. /\ flag' \in [Devices -> Ids \cup {NoId}]
        /\ conflict' \in [Devices -> {"Inactive", "Prompt", "Degraded"}]
        /\ lost' \subseteq Devices
    BY <1>2 DEF TypeOK, Raise
  <2>2. UNCHANGED <<relay, run, session, dial, used, cmds>>
    BY DEF Raise
  <2>3. QED
    BY <1>1, <2>1, <2>2 DEF TypeOK, PubRecord
<1>4. Only(d)
  BY <1>1, <1>2 DEF TypeOK, Only, Raise, At
<1>5. DeviceInv(d)'
  BY <1>1, <1>2 DEF TypeOK, DeviceInv, At, Leftover, Raise, At
<1>6. QED
  BY <1>3, <1>4, <1>5

\* No decision made before is left when the publisher starts to wait, unless the
\* channel has overflowed.
LEMMA DrainIInv ==
    ASSUME IInv, NEW d \in Devices, Drain(d)
    PROVE  TypeOK' /\ Only(d) /\ DeviceInv(d)'
<1> USE DEF IInv
<1>1. /\ pub' \in [Devices -> PubRecord] /\ pub'[d].pc = "wait"
      /\ \A e \in Devices \ {d} : pub'[e] = pub[e]
  BY GoType DEF Drain, PubStates
<1>2. cmds[d] \in Channel
  BY DEF TypeOK, Channel
<1>3. /\ cmds' \in [Devices -> Channel] /\ cmds'[d] = Drained(cmds[d])
      /\ \A e \in Devices \ {d} : cmds'[e] = cmds[e]
  BY <1>2, ChannelType, PutChannel DEF Drain
<1>4. TypeOK'
  BY <1>1, <1>3 DEF TypeOK, PubRecord, Channel, Drain, At
<1>5. Only(d)
  BY <1>1, <1>3 DEF TypeOK, Only, Drain, At
<1>6. ~cmds'[d].lagged /\ (~cmds'[d].dropped => cmds'[d] = NoCmds)
  <2>1. CASE cmds[d].lagged
    <3>1. cmds[d].dropped
      BY <2>1 DEF DeviceInv
    <3>2. cmds'[d] = [cmds[d] EXCEPT !.lagged = FALSE]
      BY <1>3, <2>1 DEF Drained
    <3>3. QED
      BY <1>2, <3>1, <3>2 DEF Channel
  <2>2. CASE ~cmds[d].lagged
    BY <1>3, <2>2 DEF Drained, NoCmds
  <2>3. QED
    BY <2>1, <2>2
<1>7. DeviceInv(d)'
  <2>1. ~cmds'[d].dropped => AllFresh(cmds'[d])
    BY <1>2, <1>6, ChannelType
  <2>2. pub[d].pc = "prompt" /\ UNCHANGED <<run, session, flag, conflict, lost>>
    BY DEF Drain, At
  <2>3. QED
    BY <1>1, <1>6, <2>1, <2>2 DEF DeviceInv, At, Leftover
<1>8. QED
  BY <1>4, <1>5, <1>7

\* A key is about the prompt that is shown.
LEMMA KeyIInv ==
    ASSUME IInv, NEW d \in Devices, NEW k \in Decisions, Key(d, k)
    PROVE  TypeOK' /\ Only(d) /\ DeviceInv(d)'
<1> USE DEF IInv
<1> DEFINE x == [what |-> k, fresh |-> TRUE]
           c == Send(cmds[d], x)
<1>1. used' \in [sessions : 0..MaxSessions, faults : 0..MaxFaults, keys : 0..MaxKeys]
  BY UsedType DEF Key
<1>2. x \in Decision /\ x.fresh
  BY DEF Decision
<1>3. cmds[d] \in Channel
  BY DEF TypeOK, Channel
<1>4. cmds' = [cmds EXCEPT ![d] = c]
  BY DEF Key
<1>5. /\ c \in Channel /\ (cmds[d].dropped => c.dropped)
      /\ c.lagged => cmds[d].lagged \/ c.dropped
      /\ AllFresh(cmds[d]) => c.dropped \/ AllFresh(c)
  <2> HIDE DEF x
  <2>1. QED
    BY <1>2, <1>3, SendFacts
<1> HIDE DEF x, c
<1>6. /\ cmds' \in [Devices -> Channel] /\ cmds'[d] = c
      /\ \A e \in Devices \ {d} : cmds'[e] = cmds[e]
  BY <1>4, <1>5, PutChannel
<1>7. UNCHANGED <<relay, run, session, dial, flag, pub, conflict, lost>>
  BY DEF Key
<1>8. TypeOK'
  BY <1>1, <1>6, <1>7 DEF TypeOK, PubRecord, Channel
<1>9. Only(d)
  BY <1>6, <1>7 DEF Only
<1>10. DeviceInv(d)'
  <2>1. DeviceInv(d)
    OBVIOUS
  <2>2. cmds'[d].lagged => cmds'[d].dropped
    BY <2>1, <1>5, <1>6 DEF DeviceInv
  <2>3. pub[d].pc = "wait" /\ ~cmds'[d].dropped => AllFresh(cmds'[d])
    BY <2>1, <1>5, <1>6 DEF DeviceInv, At
  <2>4. cmds[d].dropped => cmds'[d].dropped
    BY <1>5, <1>6
  <2>5. QED
    BY <2>1, <2>2, <2>3, <2>4, <1>7 DEF DeviceInv, At
<1>11. QED
  BY <1>8, <1>9, <1>10

\* A decision removes the conflict from the state file, or ends the publisher.
LEMMA DecideIInv ==
    ASSUME IInv, NEW d \in Devices, Decide(d)
    PROVE  TypeOK' /\ Only(d) /\ DeviceInv(d)'
<1> USE DEF IInv
<1>1. cmds[d] \in Channel
  BY DEF TypeOK, Channel
<1>2. CASE TakeOver(d)
  <2> DEFINE t == Received(cmds[d])
             c == Outdated(t)
  <2>1. /\ pub' \in [Devices -> PubRecord] /\ pub'[d].pc = "publish"
        /\ \A e \in Devices \ {d} : pub'[e] = pub[e]
    BY <1>2, GoType DEF TakeOver, PubStates
  <2>2. t \in Channel /\ t.lagged = cmds[d].lagged /\ t.dropped = cmds[d].dropped
    BY <1>1, ChannelType DEF Decide, Received, Channel
  <2>3. cmds' = [cmds EXCEPT ![d] = c]
    BY <1>2 DEF TakeOver
  <2> HIDE DEF t
  <2>4. c \in Channel /\ c.lagged = t.lagged /\ c.dropped = t.dropped
    BY <2>2, ChannelType DEF Outdated, Channel
  <2> HIDE DEF c
  <2>5. /\ cmds' \in [Devices -> Channel] /\ cmds'[d] = c
        /\ \A e \in Devices \ {d} : cmds'[e] = cmds[e]
    BY <2>3, <2>4, PutChannel
  <2>6. TypeOK'
    BY <2>1, <2>5, <1>2 DEF TypeOK, PubRecord, Channel, Decide, TakeOver
  <2>7. Only(d)
    BY <2>1, <2>5, <1>2 DEF TypeOK, Only, Decide, TakeOver
  <2>8. DeviceInv(d)'
    <3>1. cmds'[d].lagged => cmds'[d].dropped
      BY <2>2, <2>4, <2>5 DEF DeviceInv
    <3>2. QED
      BY <1>2, <2>1, <3>1 DEF TypeOK, DeviceInv, At, Leftover, Decide, TakeOver
  <2>9. QED
    BY <2>6, <2>7, <2>8
<1>3. CASE GiveUp(d)
  <2>1. /\ pub' \in [Devices -> PubRecord]
        /\ pub'[d].pc = (IF pub[d].first THEN "declined" ELSE "done")
        /\ \A e \in Devices \ {d} : pub'[e] = pub[e]
    BY <1>3, GoType DEF GiveUp, PubStates
  <2>2. /\ cmds' \in [Devices -> Channel] /\ cmds'[d] = NoCmds
        /\ \A e \in Devices \ {d} : cmds'[e] = cmds[e]
    BY <1>1, <1>3, ChannelType, PutChannel DEF GiveUp
  <2>3. TypeOK'
    BY <1>3, <2>1, <2>2 DEF TypeOK, PubRecord, Channel, Decide, GiveUp
  <2>4. Only(d)
    BY <1>3, <2>1, <2>2 DEF TypeOK, Only, Decide, GiveUp
  <2>5. DeviceInv(d)'
    BY <1>3, <2>1, <2>2 DEF TypeOK, DeviceInv, At, Leftover, NoCmds, Decide, GiveUp
  <2>6. QED
    BY <2>3, <2>4, <2>5
<1>4. QED
  BY <1>2, <1>3 DEF Decide

\* A publisher that the overflow ends leaves the prompt up.
LEMMA LaggedIInv ==
    ASSUME IInv, NEW d \in Devices, Lagged(d)
    PROVE  TypeOK' /\ Only(d) /\ DeviceInv(d)'
<1> USE DEF IInv
<1> DEFINE c == [NoCmds EXCEPT !.dropped = TRUE]
<1>1. /\ pub' \in [Devices -> PubRecord] /\ pub'[d].pc = "done"
      /\ \A e \in Devices \ {d} : pub'[e] = pub[e]
  BY GoType DEF Lagged, PubStates
<1>2. cmds[d] \in Channel
  BY DEF TypeOK, Channel
<1>3. c \in Channel /\ c.dropped
  BY <1>2, ChannelType DEF NoCmds
<1>4. cmds' = [cmds EXCEPT ![d] = c]
  BY DEF Lagged
<1> HIDE DEF c
<1>5. /\ cmds' \in [Devices -> Channel] /\ cmds'[d] = c
      /\ \A e \in Devices \ {d} : cmds'[e] = cmds[e]
  BY <1>3, <1>4, PutChannel
<1>6. TypeOK'
  BY <1>1, <1>5 DEF TypeOK, PubRecord, Channel, Lagged, At
<1>7. Only(d)
  BY <1>1, <1>5 DEF TypeOK, Only, Lagged, At
<1>8. DeviceInv(d)'
  BY <1>1, <1>3, <1>5 DEF TypeOK, DeviceInv, At, Leftover, Lagged
<1>9. QED
  BY <1>6, <1>7, <1>8

\* Only a device that has not lost its name gets here.
LEMMA PublishIInv ==
    ASSUME IInv, NEW d \in Devices, Publish(d)
    PROVE  TypeOK' /\ Only(d) /\ DeviceInv(d)'
<1> USE DEF IInv
<1>1. used' \in [sessions : 0..MaxSessions, faults : 0..MaxFaults, keys : 0..MaxKeys]
  BY UsedType DEF Publish
<1> DEFINE r == [pub[d] EXCEPT !.pc = "sleep", !.first = FALSE, !.other = NoId]
<1>2. pub[d] \in PubRecord
  BY DEF TypeOK, PubRecord
<1>3. r \in PubRecord /\ r.pc = "sleep"
  BY <1>2 DEF PubRecord, PubStates
<1>4. /\ pub' \in [Devices -> PubRecord] /\ pub'[d] = r
      /\ \A e \in Devices \ {d} : pub'[e] = pub[e]
  BY <1>3, PutType DEF Publish
<1> HIDE DEF r
<1>5. OwnId(d) \in Ids
  BY OwnIdType DEF Publish, DeviceInv, At, Leftover
<1>6. TypeOK'
  BY <1>1, <1>2, <1>3, <1>4, <1>5 DEF TypeOK, PubRecord, Channel, Publish, At
<1>7. Only(d)
  BY <1>1, <1>2, <1>3, <1>4, <1>5 DEF TypeOK, Only, Publish, At
<1>8. DeviceInv(d)'
  BY <1>1, <1>2, <1>3, <1>4, <1>5 DEF TypeOK, DeviceInv, At, Leftover, Publish, At
<1>9. QED
  BY <1>6, <1>7, <1>8

\* A cycle begins within the session.
LEMMA WakeIInv ==
    ASSUME IInv, NEW d \in Devices, Wake(d)
    PROVE  TypeOK' /\ Only(d) /\ DeviceInv(d)'
<1> USE DEF IInv
<1>1. /\ pub' \in [Devices -> PubRecord] /\ pub'[d].pc = "check"
      /\ \A e \in Devices \ {d} : pub'[e] = pub[e]
  BY GoType DEF Wake, PubStates
<1>2. TypeOK'
  BY <1>1 DEF TypeOK, PubRecord, Channel, Wake, At
<1>3. Only(d)
  BY <1>1 DEF TypeOK, Only, Wake, At
<1>4. DeviceInv(d)'
  BY <1>1 DEF TypeOK, DeviceInv, At, Leftover, Wake, At
<1>5. QED
  BY <1>2, <1>3, <1>4

\* A publisher that ends while its session does leaves the prompt to it.
LEMMA PubCancelledIInv ==
    ASSUME IInv, NEW d \in Devices, PubCancelled(d)
    PROVE  TypeOK' /\ Only(d) /\ DeviceInv(d)'
<1> USE DEF IInv
<1>1. /\ pub' \in [Devices -> PubRecord] /\ pub'[d].pc = "done"
      /\ \A e \in Devices \ {d} : pub'[e] = pub[e]
  BY GoType DEF PubCancelled, PubStates
<1>2. cmds[d] \in Channel
  BY DEF TypeOK, Channel
<1>3. /\ cmds' \in [Devices -> Channel] /\ cmds'[d] = NoCmds
      /\ \A e \in Devices \ {d} : cmds'[e] = cmds[e]
  BY <1>2, ChannelType, PutChannel DEF PubCancelled
<1>4. TypeOK'
  BY <1>1, <1>3 DEF TypeOK, PubRecord, Channel, PubCancelled, At
<1>5. Only(d)
  BY <1>1, <1>3 DEF TypeOK, Only, PubCancelled, At
<1>6. DeviceInv(d)'
  BY <1>1, <1>3 DEF TypeOK, DeviceInv, At, Leftover, NoCmds, PubCancelled, At
<1>7. QED
  BY <1>4, <1>5, <1>6

\* The relays and the dial session leave the devices alone.
LEMMA OutsideIInv ==
    ASSUME IInv, RelayForgets \/ Dial
    PROVE  IInv'
<1>1. used' \in [sessions : 0..MaxSessions, faults : 0..MaxFaults, keys : 0..MaxKeys]
  BY UsedType DEF IInv, TypeOK, RelayForgets, Dial, DialResolve, DialConnect, DialLost, DialRetry
<1>2. relay' \in Ids \cup {NoId}
  BY DEF IInv, TypeOK, RelayForgets, Dial, DialResolve, DialConnect, DialLost, DialRetry
<1>3. dial' \in [pc : {"resolve", "connect", "served", "backoff"}, id : Ids \cup {NoId}]
  <2>1. dial \in [pc : {"resolve", "connect", "served", "backoff"}, id : Ids \cup {NoId}]
    BY DEF IInv, TypeOK
  <2>2. relay \in Ids \cup {NoId}
    BY DEF IInv, TypeOK
  <2>3. \/ dial' \in {dial, Backoff, NoDial}
        \/ dial' = [pc |-> "connect", id |-> relay]
        \/ dial' = [dial EXCEPT !.pc = "served"]
    BY DEF RelayForgets, Dial, DialResolve, DialConnect, DialLost, DialRetry
  <2>4. QED
    BY <2>1, <2>2, <2>3 DEF NoDial, Backoff
<1>4. UNCHANGED <<run, session, flag, pub, conflict, cmds, lost>>
  BY DEF RelayForgets, Dial, DialResolve, DialConnect, DialLost, DialRetry, pubVars
<1>5. QED
  BY <1>1, <1>2, <1>3, <1>4 DEF IInv, TypeOK, DeviceInv, At

\* Every step preserves the invariant.
LEMMA NextIInv == IInv /\ [Next]_vars => IInv'
<1> SUFFICES ASSUME IInv, [Next]_vars PROVE IInv'
  OBVIOUS
<1>1. ASSUME NEW d \in Devices, Process(d) PROVE IInv'
  BY <1>1, OneDevice, StartListenIInv, StopListenIInv, SessionEndsIInv, RestartIInv DEF Process
<1>2. ASSUME NEW d \in Devices, Publisher(d) PROVE IInv'
  BY <1>2, OneDevice, FirstIInv, CheckIInv, RaiseIInv, DrainIInv, DecideIInv, PublishIInv,
     WakeIInv, LaggedIInv, PubCancelledIInv DEF Publisher
<1>3. ASSUME NEW d \in Devices, NEW k \in Decisions, Key(d, k) PROVE IInv'
  BY <1>3, OneDevice, KeyIInv
<1>4. CASE UNCHANGED vars
  BY <1>4 DEF vars, pubVars, IInv, TypeOK, DeviceInv, At
<1>5. QED
  BY <1>1, <1>2, <1>3, <1>4, OutsideIInv DEF Next

------------------------------------------------------------------------------
(* Theorems. *)

\* Every behaviour keeps the inductive invariant, restarts at any point included.
THEOREM IInvHolds == Spec => []IInv
<1>1. Init => IInv
  BY InitIInv
<1>2. IInv /\ [Next]_vars => IInv'
  BY NextIInv
<1>3. QED
  BY <1>1, <1>2, PTL DEF Spec

\* The state has its types: what is published is always the id of a session.
THEOREM TypeCorrect == Spec => []TypeOK
<1>1. IInv => TypeOK
  BY DEF IInv
<1>2. QED
  BY <1>1, IInvHolds, PTL

\* A device that lost its name does not publish it again before its user takes it
\* over, however many devices share the name and whenever the process restarts.
THEOREM LoserQuiet == Spec => []LoserStaysQuiet
<1>1. IInv => LoserStaysQuiet
  BY DEF IInv, TypeOK, DeviceInv, At, LoserStaysQuiet
<1>2. QED
  BY <1>1, IInvHolds, PTL

\* A prompt never locks a dashboard whose session goes on, unless its user sent more
\* decisions than the channel holds, or the publisher's last poll was overtaken.
THEOREM PromptAnswerable == Spec => []PromptIsAnswerable
<1>1. IInv => PromptIsAnswerable
  BY DEF IInv, DeviceInv, At, PromptIsAnswerable
<1>2. QED
  BY <1>1, IInvHolds, PTL

\* What ends the wait of a publisher whose session goes on is a decision, and the
\* oldest in its channel, hence one that was made for the prompt it is asked about, or
\* else the channel has overflowed.
THEOREM FreshDecisions == Spec => DecisionsAreFresh
<1> DEFINE Fresh(d) == PromptLeft(d) => cmds[d].dropped \/ (Decide(d) /\ Oldest(d).fresh)
<1>1. ASSUME IInv, [Next]_vars, NEW d \in Devices PROVE Fresh(d)
  <2> USE <1>1 DEF IInv
  <2>1. CASE \E e \in Devices : Decide(e)
    <3>1. PICK e \in Devices : Decide(e)
      BY <2>1
    <3>2. CASE e = d
      <4>1. At(d, "wait") /\ cmds[d].unread # <<>> /\ cmds[d].unread \in Seq(Decision)
        BY <3>1, <3>2 DEF Decide, TypeOK
      <4>2. Oldest(d) = cmds[d].unread[1] /\ 1 \in 1..Len(cmds[d].unread)
        BY <4>1, HeadTailProperties, EmptySeq, LenProperties DEF Oldest
      <4>3. ~cmds[d].dropped => Oldest(d).fresh
        BY <4>1, <4>2 DEF DeviceInv, AllFresh
      <4>4. QED
        BY <3>1, <3>2, <4>3
    <3>3. CASE e # d
      <4>1. pub'[d] = pub[d]
        BY <3>1, <3>3, DecideIInv DEF Only
      <4>2. QED
        BY <4>1 DEF At, PromptLeft
    <3>4. QED
      BY <3>2, <3>3
  <2>2. CASE \E e \in Devices : Process(e)
    <3>1. PICK e \in Devices : Process(e)
      BY <2>2
    <3>2. pub'[d] = pub[d] \/ run[d] # "listening" \/ run'[d] = "stopped"
      BY <3>1 DEF Process, StartListen, StopListen, SessionEnds, Restart, TypeOK, pubVars
    <3>3. QED
      BY <3>2 DEF At, PromptLeft
  <2>3. CASE \E e \in Devices : Lagged(e)
    <3>1. PICK e \in Devices : Lagged(e)
      BY <2>3
    <3>2. e = d => cmds[d].dropped
      BY <3>1 DEF Lagged, DeviceInv
    <3>3. e # d => pub'[d] = pub[d]
      BY <3>1, LaggedIInv DEF Only
    <3>4. QED
      BY <3>2, <3>3 DEF At, PromptLeft
  <2>4. CASE \E e \in Devices : First(e) \/ Check(e) \/ Raise(e) \/ Drain(e) \/ Publish(e)
                                  \/ Wake(e) \/ PubCancelled(e)
    <3>1. PICK e \in Devices : First(e) \/ Check(e) \/ Raise(e) \/ Drain(e) \/ Publish(e)
                                  \/ Wake(e) \/ PubCancelled(e)
      BY <2>4
    <3>2. e = d => ~At(d, "wait") \/ run[d] # "listening"
      BY <3>1 DEF First, Check, Raise, Drain, Publish, Wake, PubCancelled, At
    <3>3. e # d => pub'[d] = pub[d]
      BY <3>1, FirstIInv, CheckIInv, RaiseIInv, DrainIInv, PublishIInv, WakeIInv, PubCancelledIInv
         DEF Only
    <3>4. QED
      BY <3>2, <3>3 DEF At, PromptLeft
  <2>5. CASE UNCHANGED pub
    BY <2>5 DEF At, PromptLeft
  <2>6. \/ \E e \in Devices, k \in Decisions : Key(e, k)
        \/ RelayForgets \/ Dial \/ UNCHANGED vars
        => UNCHANGED pub
    BY DEF Key, RelayForgets, Dial, DialResolve, DialConnect, DialLost, DialRetry, vars, pubVars
  <2>7. QED
    BY <2>1, <2>2, <2>3, <2>4, <2>5, <2>6 DEF Next, Publisher
<1>2. IInv /\ [Next]_vars => [\A d \in Devices : Fresh(d)]_vars
  BY <1>1
<1>3. QED
  BY <1>2, IInvHolds, PTL DEF Spec, DecisionsAreFresh
------------------------------------------------------------------------------
(* The promise of OneName. *)

\* The sessions are numbered in the order in which they begin.
NumbersInv == \A d \in Devices : session[d] <= used.sessions

LEMMA NumbersNext ==
    ASSUME IInv, NumbersInv, [Next]_vars
    PROVE  NumbersInv'
<1> USE DEF NumbersInv, IInv
<1>1. used.sessions \in Nat /\ session \in [Devices -> Nat]
  BY SessionsAssumption DEF TypeOK
<1>2. ASSUME NEW d \in Devices, StartListen(d) PROVE NumbersInv'
  <2>1. used'.sessions = used.sessions + 1
    BY <1>2 DEF StartListen, TypeOK
  <2>2. \A e \in Devices : session'[e] \in {session[e], used.sessions + 1}
    BY <1>1, <1>2 DEF StartListen
  <2>3. QED
    BY <1>1, <2>1, <2>2
<1>3. ASSUME UNCHANGED session, UNCHANGED used \/ Fault
             \/ used' = [used EXCEPT !.keys = @ + 1]
      PROVE  NumbersInv'
  <2>1. used'.sessions = used.sessions
    BY <1>3 DEF Fault, TypeOK
  <2>2. QED
    BY <1>3, <2>1
<1>4. ASSUME NEW d \in Devices, Process(d) PROVE NumbersInv'
  BY <1>2, <1>3, <1>4 DEF Process, StopListen, SessionEnds, Restart
<1>5. ASSUME NEW d \in Devices, Publisher(d) PROVE NumbersInv'
  BY <1>3, <1>5
  DEF Publisher, First, Check, Raise, Drain, Decide, Lagged, Publish, Wake, PubCancelled, NoFault
<1>6. ASSUME NEW d \in Devices, NEW k \in Decisions, Key(d, k) PROVE NumbersInv'
  BY <1>3, <1>6 DEF Key
<1>7. CASE RelayForgets
  BY <1>3, <1>7 DEF RelayForgets
<1>8. CASE Dial
  BY <1>3, <1>8 DEF Dial, DialResolve, DialConnect, DialLost, DialRetry, NoFault
<1>9. CASE UNCHANGED vars
  BY <1>3, <1>9 DEF vars
<1>10. QED
  BY <1>4, <1>5, <1>6, <1>7, <1>8, <1>9 DEF Next

\* The promise sees of the processes which of them have a session.
Serving == {d \in Devices : run[d] # "stopped"}

\* The process of a device begins a session, or ends one and with it what it had on
\* its way, or does neither.
LEMMA ProcessKeepsPromise ==
    ASSUME IInv, NumbersInv, NEW d \in Devices, Process(d)
    PROVE  [Promise!Next]_(Promise!vars)
<1> USE DEF IInv
<1>1. run \in [Devices -> {"stopped", "listening", "stopping"}] /\ session \in [Devices -> Nat]
  BY DEF TypeOK
<1>2. CASE StartListen(d)
  <2>1. used.sessions \in Nat
    BY SessionsAssumption DEF TypeOK
  <2>2. d \notin Serving /\ Serving' = Serving \cup {d}
    BY <1>1, <1>2 DEF StartListen, Serving
  <2>3. session' = [session EXCEPT ![d] = session'[d]] /\ session'[d] = used.sessions + 1
    BY <1>1, <1>2 DEF StartListen
  <2>4. \A e \in Devices : session[e] < session'[d]
    BY <1>1, <2>1, <2>3 DEF NumbersInv
  <2>5. UNCHANGED <<relay, lost>>
    BY <1>2 DEF StartListen
  <2>6. Promise!Begin(d)
    BY <2>2, <2>3, <2>4, <2>5 DEF Promise!Begin, Serving
  <2>7. QED
    BY <2>6 DEF Promise!Next
<1>3. CASE StopListen(d)
  <2>1. Serving' = Serving
    BY <1>1, <1>3 DEF StopListen, Serving
  <2>2. QED
    BY <1>3, <2>1 DEF StopListen, pubVars, Serving, Promise!vars
<1>4. ASSUME LastPublish(d), run' = [run EXCEPT ![d] = "stopped"], UNCHANGED <<session, lost>>
      PROVE  [Promise!Next]_(Promise!vars)
  <2>1. Serving' = Serving \ {d}
    BY <1>1, <1>4 DEF Serving
  <2>2. CASE run[d] = "stopped"
    <3>1. relay' = relay
      BY <1>4, <2>2 DEF LastPublish, DeviceInv, At, Leftover
    <3>2. Serving' = Serving
      BY <2>1, <2>2 DEF Serving
    <3>3. QED
      BY <1>4, <3>1, <3>2 DEF Serving, Promise!vars
  <2>3. CASE run[d] # "stopped"
    <3>1. relay' = relay \/ (d \notin lost /\ relay' = <<d, session[d]>>)
      <4>1. CASE At(d, "publish")
        <5>1. relay' \in {relay, OwnId(d)}
          BY <1>4, <4>1 DEF LastPublish
        <5>2. d \notin lost
          BY <4>1 DEF DeviceInv, At
        <5>3. QED
          BY <5>1, <5>2 DEF OwnId
      <4>2. CASE ~At(d, "publish")
        BY <1>4, <4>2 DEF LastPublish
      <4>3. QED
        BY <4>1, <4>2
    <3>2. Promise!Finish(d)
      BY <1>4, <2>1, <2>3, <3>1 DEF Promise!Finish, Serving
    <3>3. QED
      BY <3>2 DEF Promise!Next
  <2>4. QED
    BY <2>2, <2>3
<1>5. QED
  BY <1>2, <1>3, <1>4 DEF Process, SessionEnds, Restart

\* The publisher writes, loses the name, gets it back, or leaves the record alone.
LEMMA PublisherKeepsPromise ==
    ASSUME IInv, NEW d \in Devices, Publisher(d)
    PROVE  [Promise!Next]_(Promise!vars)
<1> USE DEF IInv
<1>1. run \in [Devices -> {"stopped", "listening", "stopping"}]
  BY DEF TypeOK
<1>2. ASSUME UNCHANGED <<relay, run, session, lost>> PROVE [Promise!Next]_(Promise!vars)
  BY <1>2 DEF Promise!vars
<1>3. CASE Raise(d)
  <2>1. Promise!Lose(d)
    BY <1>3 DEF Raise, Promise!Lose
  <2>2. QED
    BY <2>1 DEF Promise!Next
<1>4. CASE Decide(d)
  <2>1. run[d] # "stopped"
    BY <1>4 DEF Decide, DeviceInv, At, Leftover
  <2>2. CASE TakeOver(d)
    <3>1. Promise!TakeOver(d)
      BY <1>4, <2>1, <2>2 DEF Decide, TakeOver, Promise!TakeOver
    <3>2. QED
      BY <3>1 DEF Promise!Next
  <2>3. CASE GiveUp(d)
    <3>1. run' = run \/ run' = [run EXCEPT ![d] = "stopping"]
      BY <2>3 DEF GiveUp
    <3>2. Serving' = Serving
      BY <1>1, <2>1, <3>1 DEF Serving
    <3>3. QED
      BY <1>4, <2>3, <3>2 DEF Decide, GiveUp, Serving, Promise!vars
  <2>4. QED
    BY <1>4, <2>2, <2>3 DEF Decide
<1>5. CASE Publish(d)
  <2>1. run[d] # "stopped" /\ d \notin lost
    BY <1>5 DEF Publish, DeviceInv, At, Leftover
  <2>2. CASE relay' = OwnId(d)
    <3>1. Promise!Write(d)
      BY <1>5, <2>1, <2>2 DEF Publish, OwnId, Promise!Write
    <3>2. QED
      BY <3>1 DEF Promise!Next
  <2>3. QED
    BY <1>2, <1>5, <2>2 DEF Publish
<1>6. QED
  BY <1>2, <1>3, <1>4, <1>5 DEF Publisher, First, Check, Drain, Lagged, Wake, PubCancelled

\* NamePublisher keeps the promise of OneName: a session that starts is Begin, a
\* publish that arrives is Write, a conflict is Lose, and the end of a session or of
\* the process Finish.
THEOREM Refinement == Spec => ImplementsOneName
<1>1. Init => Promise!Init /\ NumbersInv
  <2> SUFFICES ASSUME Init PROVE Promise!Init /\ NumbersInv
    OBVIOUS
  <2>1. {d \in Devices : run[d] # "stopped"} = {}
    BY DEF Init
  <2>2. QED
    BY <2>1 DEF Init, NumbersInv, NoId, Promise!Init, Promise!Nothing
<1>2. ASSUME IInv, NumbersInv, [Next]_vars PROVE [Promise!Next]_(Promise!vars)
  <2>1. ASSUME UNCHANGED <<run, session, lost>>, relay' \in {relay, NoId}
        PROVE  [Promise!Next]_(Promise!vars)
    <3>1. relay' = relay => UNCHANGED Promise!vars
      BY <2>1 DEF Promise!vars
    <3>2. relay' = NoId => Promise!Vanish
      BY <2>1 DEF NoId, Promise!Vanish, Promise!Nothing
    <3>3. QED
      BY <2>1, <3>1, <3>2 DEF Promise!Next
  <2>2. ASSUME NEW d \in Devices, NEW k \in Decisions, Key(d, k)
        PROVE  [Promise!Next]_(Promise!vars)
    BY <2>1, <2>2 DEF Key
  <2>3. CASE RelayForgets
    BY <2>1, <2>3 DEF RelayForgets, pubVars
  <2>4. CASE Dial
    BY <2>1, <2>4 DEF Dial, DialResolve, DialConnect, DialLost, DialRetry, pubVars
  <2>5. CASE UNCHANGED vars
    BY <2>1, <2>5 DEF vars, pubVars
  <2>6. QED
    BY <1>2, <2>2, <2>3, <2>4, <2>5, ProcessKeepsPromise, PublisherKeepsPromise DEF Next
<1>3. QED
  BY <1>1, <1>2, NumbersNext, IInvHolds, PTL DEF Spec, ImplementsOneName, Promise!Spec
------------------------------------------------------------------------------
(* A device in conflict with itself. *)

\* A device's conflicts are with others, in its state file, its publisher and its
\* prompt, and after its first publish a record of its own is that of this session.
HonestInv(d) ==
    /\ flag[d] # NoId => Owner(flag[d]) # d
    /\ pub[d].pc \in {"flag", "late", "prompt", "wait"} => Owner(pub[d].other) # d
    /\ (pub[d].pc \in {"sleep", "check"} /\ relay # NoId /\ Owner(relay) = d)
           => relay = OwnId(d)

FaultlessInv == (used.faults = 0) => \A d \in Devices : HonestInv(d)

\* What each step may do to the record without a fault.
LEMMA RecordMoves ==
    ASSUME IInv, NEW e \in Devices
    PROVE  /\ LastPublish(e) => relay' \in {relay, OwnId(e)}
           /\ Owner(OwnId(e)) = e
BY DEF LastPublish, Owner, OwnId

LEMMA ProcessIsHonest ==
    ASSUME IInv, \A d \in Devices : HonestInv(d), NEW e \in Devices, Process(e),
           NEW d \in Devices
    PROVE  HonestInv(d)'
<1> USE DEF IInv
<1>1. pub \in [Devices -> PubRecord] /\ session \in [Devices -> Nat]
  BY DEF TypeOK, PubRecord
<1>2. HonestInv(d)
  OBVIOUS
<1>3. CASE StartListen(e)
  <2>1. d # e => pub'[d] = pub[d] /\ session'[d] = session[d]
    BY <1>1, <1>3 DEF StartListen
  <2>2. d = e => pub'[d].pc = "top"
    BY <1>1, <1>3 DEF StartListen, NewPub
  <2>3. UNCHANGED <<relay, flag>>
    BY <1>3 DEF StartListen
  <2>4. QED
    BY <1>2, <2>1, <2>2, <2>3 DEF HonestInv, Owner, OwnId
<1>4. CASE StopListen(e)
  BY <1>2, <1>4 DEF StopListen, pubVars, HonestInv, Owner, OwnId
<1>5. ASSUME LastPublish(e), UNCHANGED <<session, flag>>,
             pub' = [pub EXCEPT ![e] = NoPub] \/ pub' = [pub EXCEPT ![e] = Aborted(pub[e])]
      PROVE  HonestInv(d)'
  <2>1. relay' \in {relay, OwnId(e)} /\ Owner(OwnId(e)) = e
    BY <1>5, RecordMoves
  <2>2. CASE d = e
    <3>1. pub'[d].pc \in Leftover
      BY <1>1, <1>5, <2>2, RecordTypes DEF NoPub, Leftover
    <3>2. pub'[d].pc = "late" => pub[d].pc = "flag" /\ pub'[d].other = pub[d].other
      BY <1>1, <1>5, <2>2, RecordTypes DEF NoPub
    <3>3. QED
      BY <1>2, <1>5, <3>1, <3>2 DEF HonestInv, Owner, Leftover
  <2>3. CASE d # e
    <3>1. pub'[d] = pub[d]
      BY <1>1, <1>5, <2>3
    <3>2. QED
      BY <1>2, <1>5, <2>1, <2>3, <3>1 DEF HonestInv, Owner, OwnId
  <2>4. QED
    BY <2>2, <2>3
<1>6. QED
  BY <1>3, <1>4, <1>5 DEF Process, SessionEnds, Restart

LEMMA PublisherIsHonest ==
    ASSUME IInv, \A d \in Devices : HonestInv(d), NEW e \in Devices, Publisher(e), ~Fault,
           NEW d \in Devices
    PROVE  HonestInv(d)'
<1> USE DEF IInv
<1>1. pub \in [Devices -> PubRecord] /\ flag \in [Devices -> Ids \cup {NoId}]
  BY DEF TypeOK, PubRecord
<1>2. HonestInv(d) /\ HonestInv(e)
  OBVIOUS
<1>3. CASE First(e)
  <2>1. pub'[d].pc \in {"sleep", "check"} => d # e
    BY <1>1, <1>3 DEF First, PubRecord
  <2>2. d # e => pub'[d] = pub[d]
    BY <1>1, <1>3 DEF First
  <2>3. d = e => pub'[d].other = flag[d] /\ (pub'[d].pc # "publish" => flag[d] # NoId)
    BY <1>1, <1>3 DEF First, PubRecord
  <2>4. d = e => pub'[d].pc \in {"publish", "flag"}
    BY <1>1, <1>3 DEF First, PubRecord
  <2>5. QED
    BY <1>2, <1>3, <2>1, <2>2, <2>3, <2>4 DEF First, HonestInv, Owner, OwnId
<1>4. CASE Check(e)
  <2>1. d # e => pub'[d] = pub[d]
    BY <1>1, <1>4 DEF Check, Go
  <2>2. pub'[e].pc \in {"flag", "publish"}
    BY <1>1, <1>4 DEF Check, Go, PubRecord
  <2>3. pub'[e].pc = "flag" => pub'[e].other = relay /\ relay \notin {NoId, OwnId(e)}
    BY <1>1, <1>4 DEF Check, Go, PubRecord
  <2>4. relay \notin {NoId, OwnId(e)} => Owner(relay) # e
    BY <1>2, <1>4 DEF Check, At, HonestInv
  <2>5. UNCHANGED <<relay, session, flag>>
    BY <1>4 DEF Check
  <2>6. QED
    BY <1>2, <2>1, <2>2, <2>3, <2>4, <2>5 DEF HonestInv, Owner, OwnId
<1>5. CASE Raise(e)
  <2>1. Owner(flag'[e]) # e
    BY <1>1, <1>2, <1>5 DEF Raise, HonestInv, Owner
  <2>2. d # e => flag'[d] = flag[d]
    BY <1>1, <1>5 DEF Raise
  <2>3. pub'[d].other = pub[d].other /\ (d # e => pub'[d] = pub[d])
    BY <1>5, GoType, <1>1 DEF Raise, Go, PubRecord
  <2>4. pub'[e].pc \in {"prompt", "overrun"}
    BY <1>1, <1>5 DEF Raise, Go, PubRecord
  <2>5. UNCHANGED <<relay, session>>
    BY <1>5 DEF Raise
  <2>6. pub'[d].pc \in {"prompt", "overrun"} /\ d = e => pub[d].pc \in {"flag", "late"}
    BY <1>5 DEF Raise
  <2>7. QED
    BY <1>2, <2>1, <2>2, <2>3, <2>4, <2>5, <2>6 DEF HonestInv, Owner, OwnId
<1>6. ASSUME NEW pc \in PubStates, Go(e, pc), UNCHANGED <<relay, session>>,
             pc \in {"sleep", "check"} => pub[e].pc = "sleep",
             pc = "wait" => pub[e].pc = "prompt",
             pc \notin {"flag", "late", "prompt"},
             UNCHANGED flag \/ flag' = [flag EXCEPT ![e] = NoId]
      PROVE  HonestInv(d)'
  <2>1. pub'[e].pc = pc /\ pub'[d].other = pub[d].other /\ (d # e => pub'[d] = pub[d])
    BY <1>6, GoType
  <2>2. flag'[d] \in {flag[d], NoId}
    BY <1>1, <1>6
  <2>3. QED
    BY <1>2, <1>6, <2>1, <2>2 DEF HonestInv, Owner, OwnId
<1>7. CASE Drain(e)
  BY <1>6, <1>7 DEF Drain, At, PubStates
<1>8. CASE Wake(e)
  BY <1>6, <1>8 DEF Wake, At, PubStates
<1>9. CASE PubCancelled(e) \/ Lagged(e)
  BY <1>6, <1>9 DEF PubCancelled, Lagged, PubStates
<1>10. CASE Decide(e)
  <2>1. CASE TakeOver(e)
    BY <1>6, <1>10, <2>1 DEF Decide, TakeOver, PubStates
  <2>2. CASE GiveUp(e)
    BY <1>6, <1>10, <2>2 DEF Decide, GiveUp, PubStates
  <2>3. QED
    BY <1>10, <2>1, <2>2 DEF Decide
<1>11. CASE Publish(e)
  <2>1. relay' = OwnId(e) /\ Owner(OwnId(e)) = e
    BY <1>11, RecordMoves DEF Publish
  <2>2. pub'[e].pc = "sleep" /\ (d # e => pub'[d] = pub[d])
    BY <1>1, <1>11 DEF Publish, PubRecord
  <2>3. QED
    BY <1>2, <1>11, <2>1, <2>2 DEF Publish, HonestInv, Owner, OwnId
<1>12. QED
  BY <1>3, <1>4, <1>5, <1>7, <1>8, <1>9, <1>10, <1>11 DEF Publisher

LEMMA FaultlessNext ==
    ASSUME IInv, FaultlessInv, [Next]_vars
    PROVE  FaultlessInv'
<1> SUFFICES ASSUME used'.faults = 0 PROVE \A d \in Devices : HonestInv(d)'
  BY DEF FaultlessInv
<1>1. used.faults \in Nat
  BY BoundsAssumption DEF IInv, TypeOK
<1>2. ~Fault
  BY <1>1 DEF Fault, IInv, TypeOK
<1>3. ASSUME used' = used \/ used' = [used EXCEPT !.sessions = @ + 1]
             \/ used' = [used EXCEPT !.keys = @ + 1]
      PROVE  \A d \in Devices : HonestInv(d)
  <2>1. used'.faults = used.faults
    BY <1>3 DEF IInv, TypeOK
  <2>2. QED
    BY <2>1 DEF FaultlessInv
<1>4. ASSUME UNCHANGED <<relay, session, flag, pub>>, \A d \in Devices : HonestInv(d)
      PROVE  \A d \in Devices : HonestInv(d)'
  BY <1>4 DEF HonestInv, Owner, OwnId
<1>5. ASSUME NEW e \in Devices, Process(e) PROVE \A d \in Devices : HonestInv(d)'
  BY <1>3, <1>5, ProcessIsHonest DEF Process, StartListen, StopListen, SessionEnds, Restart
<1>6. ASSUME NEW e \in Devices, Publisher(e) PROVE \A d \in Devices : HonestInv(d)'
  BY <1>2, <1>3, <1>6, PublisherIsHonest
  DEF Publisher, First, Check, Raise, Drain, Decide, Lagged, Publish, Wake, PubCancelled, NoFault
<1>7. ASSUME NEW e \in Devices, NEW k \in Decisions, Key(e, k)
      PROVE  \A d \in Devices : HonestInv(d)'
  BY <1>3, <1>4, <1>7 DEF Key
<1>8. CASE Dial
  BY <1>2, <1>3, <1>4, <1>8
  DEF Dial, DialResolve, DialConnect, DialLost, DialRetry, NoFault, pubVars
<1>9. CASE UNCHANGED vars
  BY <1>3, <1>4, <1>9 DEF vars, pubVars
<1>10. QED
  BY <1>2, <1>5, <1>6, <1>7, <1>8, <1>9 DEF Next, RelayForgets

\* A device comes into conflict with itself only through a fault: as long as every
\* lookup, publish and relay works, a prompt names another device, over any number of
\* sessions and restarts.  With a single failed publish it may not (NoSelfConflict).
THEOREM SelfConflictNeedsAFault == Spec => []((used.faults = 0) => NoSelfConflict)
<1>1. Init => FaultlessInv
  BY DEF Init, FaultlessInv, HonestInv, NoPub
<1>2. FaultlessInv => ((used.faults = 0) => NoSelfConflict)
  BY DEF FaultlessInv, HonestInv, NoSelfConflict
<1>3. QED
  BY <1>1, <1>2, FaultlessNext, IInvHolds, PTL DEF Spec
==============================================================================
