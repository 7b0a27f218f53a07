------------------------- MODULE ListenerClaimProofs -------------------------
(***************************************************************************)
(* What ListenerClaim guarantees for any number of dialers, connection     *)
(* slots and PINs: its types, the one-pair rule, genuine credentials, a    *)
(* clean stop, the paired peer's return, and that it implements OnePair.   *)
(*                                                                         *)
(* The properties are not inductive.  IInv adds what they rest on: which   *)
(* keys can be where (every key in the cache, in the claim and in a        *)
(* candidate set was generated by this session), what a gate that saw its  *)
(* own peer implies for the rest of that handshake, and what is left of a  *)
(* session in each phase of its teardown.  SlotInv says it of one          *)
(* connection, so that an action on a connection has one record to check.  *)
(***************************************************************************)
EXTENDS ListenerClaim, SequenceTheorems, FiniteSetTheorems, TLAPS

\* The session's own state: what each phase of the teardown has undone, and that
\* every PIN key in use was generated by this session, in PIN mode only.
SessionInv ==
    /\ phase \in {"closed", "stopped"} =>
         /\ claim = NoClaim /\ admitted = {} /\ recent = <<>>
         /\ pub \in {"off", "late", "overrun"}
    /\ phase = "stopped" => inbound = NoInbound /\ (shown # NoKey => pub = "overrun")
    /\ recent \in Seq(1..newest)
    /\ pub \in {"top", "mint", "late"} => newest < MaxPins
    /\ pub = "derive" => newest # 0
    /\ claim.key \in 0..newest
    /\ claim.key # NoKey => mode = "pin"
    /\ Paired /\ mode = "pin" => claim.key # NoKey

\* One connection: its keys are this session's, a gate that saw its own claim
\* still faces that claim and carries its key, and one that is accepted or about
\* to be is the holder's and proved a genuine credential.
SlotInv(r) ==
    /\ r.rkey \in 0..newest
    /\ r.rkey # NoKey => mode = "pin"
    /\ r.cands \subseteq 1..newest
    /\ r.cands # {} => mode = "pin"
    /\ r.pc \notin {"free", "over"} => r.peer \in Dialers
    /\ r.gate = "mine" => claim.peer = r.peer /\ r.rkey = claim.key
    /\ r.pc = "proof" => r.cred.kind = "pin"
    /\ r.pc = "proof" /\ r.rkey # NoKey => r.rkey \in r.cands
    /\ r.pc \in {"free", "gate", "over"} => r.gate = "free"
    /\ r.pc \in {"accept", "served"} => r.peer = claim.peer /\ Genuine(r.cred)
    /\ r.verdict = "rejected" => r.pc = "over"
    /\ phase \in {"closing", "closed", "stopped"} => r.pc \in {"free", "over"}
    /\ phase \in {"closed", "stopped"} => ~r.live

IInv ==
    /\ TypeOK
    /\ SessionInv
    /\ \A c \in Conns : SlotInv(conn[c])

------------------------------------------------------------------------------
(* Helpers. *)

\* RecentPins::push keeps a sequence of keys and never exceeds the cache.
LEMMA PushRecentType ==
    ASSUME NEW S, NEW keys \in Seq(S), NEW k \in S, Len(keys) <= RecentPinCache
    PROVE  /\ PushRecent(keys, k) \in Seq(S)
           /\ Len(PushRecent(keys, k)) <= RecentPinCache
<1> DEFINE m == IF Len(keys) < RecentPinCache THEN Len(keys) ELSE RecentPinCache - 1
<1>1. m \in Nat /\ m <= Len(keys) /\ m <= RecentPinCache - 1
  BY CacheAssumption, LenProperties
<1>2. \A i \in 1..m : keys[i] \in S
  BY <1>1, ElementOfSeq, LenProperties
<1>3. SubSeq(keys, 1, m) \in Seq(S) /\ Len(SubSeq(keys, 1, m)) = m
  BY <1>1, <1>2, SubSeqProperties
<1>4. <<k>> \in Seq(S) /\ Len(<<k>>) = 1
  OBVIOUS
<1>5. /\ <<k>> \o SubSeq(keys, 1, m) \in Seq(S)
      /\ Len(<<k>> \o SubSeq(keys, 1, m)) = 1 + m
  BY <1>3, <1>4, ConcatProperties
<1>6. QED
  BY <1>1, <1>5, CacheAssumption DEF PushRecent

\* A snapshot holds keys of the cache only.
LEMMA SnapshotType ==
    ASSUME NEW S, NEW keys \in Seq(S)
    PROVE  Snapshot(keys) \subseteq S
BY ElementOfSeq DEF Snapshot
\* The records a connection slot goes through, field by field.
LEMMA ConnFields ==
    /\ FreeConn.pc = "free" /\ ~FreeConn.live /\ FreeConn.gate = "free"
    /\ FreeConn.rkey = NoKey /\ FreeConn.cands = {} /\ FreeConn.verdict = "none"
    /\ \A d, k : LET r == NewConn(d, k) IN
         r.pc = "gate" /\ r.live /\ r.peer = d /\ r.cred = k /\ r.gate = "free"
           /\ r.rkey = NoKey /\ r.cands = {} /\ r.verdict = "none"
    /\ \A q : LET r == AcceptingConn(q) IN
         r.pc = "accept" /\ r.live = q.live /\ r.peer = q.peer /\ r.cred = q.cred
           /\ r.gate = "free" /\ r.rkey = NoKey /\ r.cands = {} /\ r.verdict = "none"
    /\ \A l, v : LET r == EndedConn(l, v) IN
         r.pc = "over" /\ r.live = l /\ r.gate = "free" /\ r.verdict = v
           /\ r.rkey = NoKey /\ r.cands = {}
BY DEF FreeConn, NewConn, AcceptingConn, EndedConn

\* Every record an action stores in a slot is a connection record.
LEMMA ConnTypes ==
    /\ FreeConn \in ConnRecord
    /\ \A d \in Dialers, k \in Credentials(MaxPins) : NewConn(d, k) \in ConnRecord
    /\ \A r \in ConnRecord : AcceptingConn(r) \in ConnRecord
    /\ \A l \in BOOLEAN, v \in {"none", "accepted", "rejected"} :
         EndedConn(l, v) \in ConnRecord
<1> USE PinsAssumption DEF FreeConn, ConnRecord, Handshaking, NoKey
<1>1. FreeConn \in ConnRecord
  BY DEF Credentials
<1>2. \A d \in Dialers, k \in Credentials(MaxPins) : NewConn(d, k) \in ConnRecord
  BY DEF NewConn
<1>3. \A r \in ConnRecord : AcceptingConn(r) \in ConnRecord
  BY DEF AcceptingConn
<1>4. \A l \in BOOLEAN, v \in {"none", "accepted", "rejected"} :
        EndedConn(l, v) \in ConnRecord
  BY <1>1 DEF EndedConn, Credentials
<1>5. QED
  BY <1>1, <1>2, <1>3, <1>4

\* The fields of a connection record have their types.
LEMMA FieldTypes ==
    ASSUME NEW r \in ConnRecord
    PROVE  /\ r.pc \in {"free", "gate", "served", "over"} \cup Handshaking
           /\ r.live \in BOOLEAN /\ r.peer \in Dialers \cup {NoPeer}
           /\ r.cred \in Credentials(MaxPins) /\ r.gate \in {"free", "mine", "other"}
           /\ r.rkey \in 0..MaxPins /\ r.cands \in SUBSET (1..MaxPins)
           /\ r.verdict \in {"none", "accepted", "rejected"}
BY DEF ConnRecord

\* Closing a connection's transport changes nothing else of it.
LEMMA LiveOff ==
    ASSUME NEW q \in ConnRecord, NEW r, r = [q EXCEPT !.live = FALSE]
    PROVE  /\ r \in ConnRecord /\ ~r.live
           /\ r.pc = q.pc /\ r.peer = q.peer /\ r.cred = q.cred /\ r.gate = q.gate
           /\ r.rkey = q.rkey /\ r.cands = q.cands /\ r.verdict = q.verdict
BY DEF ConnRecord

\* A session's credentials are credentials of the model.
LEMMA CredentialsGrow == newest \in 0..MaxPins => Credentials(newest) \subseteq Credentials(MaxPins)
BY PinsAssumption DEF Credentials

\* A slot that no task uses satisfies its invariant, whatever the session does.
LEMMA IdleSlot ==
    ASSUME NEW r, r.pc \in {"free", "over"}, r.gate = "free", r.rkey = NoKey, r.cands = {},
           r.verdict = "rejected" => r.pc = "over", ~r.live, newest \in Nat
    PROVE  SlotInv(r)
BY DEF SlotInv, NoKey

\* An action that only replaces one connection's record, with one that satisfies
\* its invariant, preserves IInv.
LEMMA OneSlot ==
    ASSUME IInv, NEW c \in Conns, NEW r \in ConnRecord, SlotInv(r),
           conn' = [conn EXCEPT ![c] = r],
           UNCHANGED <<mode, phase, claimVars, pinVars>>,
           inbound' = inbound \/ (phase # "stopped" /\ TypeOK')
    PROVE  IInv'
<1> USE DEF claimVars, pinVars
<1>1. TypeOK'
  BY DEF IInv, TypeOK
<1>2. SessionInv'
  BY DEF IInv, SessionInv, Paired
<1>3. \A b \in Conns : SlotInv(conn[b])'
  <2> SUFFICES ASSUME NEW b \in Conns PROVE SlotInv(conn[b])'
    OBVIOUS
  <2>1. conn'[b] = IF b = c THEN r ELSE conn[b]
    BY DEF IInv, TypeOK
  <2>2. SlotInv(conn'[b])
    BY <2>1 DEF IInv
  <2>3. QED
    BY <2>2 DEF SlotInv, Genuine
<1>4. QED
  BY <1>1, <1>2, <1>3 DEF IInv

------------------------------------------------------------------------------
(* IInv holds initially, and each action preserves it. *)

\* A run starts stopped, with nothing of a session.
LEMMA InitIInv == Init => IInv
<1> SUFFICES ASSUME Init PROVE IInv
  OBVIOUS
<1> USE DEF Init, NoClaim, NoInbound, NoKey, Paired
<1>1. TypeOK
  BY CacheAssumption, PinsAssumption, EmptySeq, ConnTypes DEF TypeOK
<1>2. SessionInv
  BY EmptySeq DEF SessionInv
<1>3. SlotInv(FreeConn)
  BY ConnFields, IdleSlot
<1>4. QED
  BY <1>1, <1>2, <1>3 DEF IInv

\* Start finds every slot of the last session dead and replaces them all.
LEMMA StartIInv ==
    ASSUME IInv, Start
    PROVE  IInv'
<1> USE DEF Start, claimVars, pinVars
<1>1. TypeOK'
  BY PinsAssumption, ConnTypes DEF IInv, TypeOK
<1>2. SessionInv'
  BY PinsAssumption, EmptySeq DEF IInv, SessionInv, TypeOK, NoClaim, NoKey, Paired
<1>3. SlotInv(FreeConn)'
  BY ConnFields DEF SlotInv, NoKey
<1>4. QED
  BY <1>1, <1>2, <1>3 DEF IInv

\* Stop only cancels the token.
LEMMA StopIInv ==
    ASSUME IInv, Stop
    PROVE  IInv'
<1> USE DEF Stop, claimVars, pinVars
<1>1. TypeOK' /\ SessionInv'
  BY DEF IInv, TypeOK, SessionInv, Paired
<1>2. \A c \in Conns : SlotInv(conn[c])'
  BY DEF IInv, SlotInv, Genuine
<1>3. QED
  BY <1>1, <1>2 DEF IInv

\* A dead endpoint takes the connections with it; their tasks have not noticed.
LEMMA EndpointEndsIInv ==
    ASSUME IInv, EndpointEnds
    PROVE  IInv'
<1> USE DEF EndpointEnds, claimVars, pinVars
<1>1. \A c \in Conns : conn'[c] \in ConnRecord /\ SlotInv(conn[c])'
  <2> SUFFICES ASSUME NEW c \in Conns
               PROVE  conn'[c] \in ConnRecord /\ SlotInv(conn[c])'
    OBVIOUS
  <2>1. conn[c] \in ConnRecord /\ conn'[c] = [conn[c] EXCEPT !.live = FALSE]
    BY DEF IInv, TypeOK
  <2>2. SlotInv(conn[c])
    BY DEF IInv
  <2>3. QED
    BY <2>1, <2>2, LiveOff DEF SlotInv, Genuine
<1>2. TypeOK' /\ SessionInv'
  BY <1>1 DEF IInv, TypeOK, SessionInv, Paired
<1>3. QED
  BY <1>1, <1>2 DEF IInv

\* Aborting the connection tasks leaves no handshake behind.
LEMMA AbortConnectionsIInv ==
    ASSUME IInv, AbortConnections
    PROVE  IInv'
<1> USE DEF AbortConnections, claimVars, pinVars
<1>1. \A c \in Conns : conn'[c] \in ConnRecord /\ SlotInv(conn[c])'
  <2> SUFFICES ASSUME NEW c \in Conns
               PROVE  conn'[c] \in ConnRecord /\ SlotInv(conn[c])'
    OBVIOUS
  <2> DEFINE e == EndedConn(conn[c].live, conn[c].verdict)
  <2>1. conn[c] \in ConnRecord /\ conn'[c] = IF conn[c].pc = "free" THEN conn[c] ELSE e
    BY DEF IInv, TypeOK
  <2>2. conn[c].live \in BOOLEAN /\ conn[c].verdict \in {"none", "accepted", "rejected"}
    BY <2>1, FieldTypes
  <2>3. e \in ConnRecord /\ e.pc = "over" /\ e.gate = "free" /\ e.rkey = NoKey /\ e.cands = {}
    BY <2>2, ConnTypes, ConnFields
  <2>4. SlotInv(conn[c]) /\ newest \in Nat
    BY DEF IInv, TypeOK
  <2> HIDE DEF e
  <2>5. CASE conn[c].pc = "free"
    BY <2>1, <2>4, <2>5 DEF SlotInv, Genuine
  <2>6. CASE conn[c].pc # "free"
    BY <2>1, <2>3, <2>4, <2>6 DEF SlotInv, NoKey
  <2>7. QED
    BY <2>5, <2>6
<1>2. TypeOK' /\ SessionInv'
  BY <1>1 DEF IInv, TypeOK, SessionInv, Paired
<1>3. QED
  BY <1>1, <1>2 DEF IInv

\* Closing the endpoint ends the claim, the cache and the publisher together.
LEMMA CloseEndpointIInv ==
    ASSUME IInv, CloseEndpoint
    PROVE  IInv'
<1> USE DEF CloseEndpoint, claimVars, pinVars
<1>1. \A c \in Conns : conn'[c] \in ConnRecord /\ SlotInv(conn[c])'
  <2> SUFFICES ASSUME NEW c \in Conns
               PROVE  conn'[c] \in ConnRecord /\ SlotInv(conn[c])'
    OBVIOUS
  <2>1. conn[c] \in ConnRecord /\ conn'[c] = [conn[c] EXCEPT !.live = FALSE]
    BY DEF IInv, TypeOK
  <2>2. SlotInv(conn[c])
    BY DEF IInv
  <2>3. QED
    BY <2>1, <2>2, LiveOff DEF SlotInv, Genuine
<1>2. TypeOK'
  BY <1>1, EmptySeq, PinsAssumption, CacheAssumption DEF IInv, TypeOK, NoClaim, NoKey
<1>3. SessionInv'
  BY EmptySeq DEF IInv, TypeOK, SessionInv, NoClaim, NoKey, Paired
<1>4. QED
  BY <1>1, <1>2, <1>3 DEF IInv

\* The supervisor clears the header of a session that is already gone.
LEMMA ClearListenIInv ==
    ASSUME IInv, ClearListen
    PROVE  IInv'
<1> USE DEF ClearListen, claimVars, pinVars
<1>1. TypeOK' /\ SessionInv'
  BY PinsAssumption DEF IInv, TypeOK, SessionInv, Paired, NoKey, NoInbound
<1>2. \A c \in Conns : SlotInv(conn[c])'
  BY DEF IInv, SlotInv, Genuine
<1>3. QED
  BY <1>1, <1>2 DEF IInv

\* The publisher's look at the claim touches the header only.
LEMMA PinTopIInv ==
    ASSUME IInv, PinTop
    PROVE  IInv'
<1> USE DEF PinTop, claimVars
<1>1. TypeOK'
  BY PinsAssumption DEF IInv, TypeOK, NoKey
<1>2. SessionInv'
  BY DEF IInv, TypeOK, SessionInv, Paired, NoClaim, NoKey
<1>3. \A c \in Conns : SlotInv(conn[c])'
  BY DEF IInv, SlotInv, Genuine
<1>4. QED
  BY <1>1, <1>2, <1>3 DEF IInv

\* A new PIN is one number further: what was generated before stays so.
LEMMA PinMintedIInv ==
    ASSUME IInv, PinMinted
    PROVE  IInv'
<1> USE DEF PinMinted, claimVars
<1>1. TypeOK' /\ newest' \in Nat /\ newest \in Nat /\ newest <= newest'
  BY PinsAssumption DEF IInv, TypeOK, SessionInv, NoKey
<1>2. SessionInv'
  <2>1. recent \in Seq(1..newest')
    BY <1>1, SeqMonotonic DEF IInv, SessionInv
  <2>2. QED
    BY <1>1, <2>1 DEF IInv, TypeOK, SessionInv, Paired, NoClaim
<1>3. \A c \in Conns : SlotInv(conn[c])'
  BY <1>1 DEF IInv, SlotInv, Genuine
<1>4. QED
  BY <1>1, <1>2, <1>3 DEF IInv

\* The derived key enters the cache.
LEMMA PinDerivedIInv ==
    ASSUME IInv, PinDerived
    PROVE  IInv'
<1> USE DEF PinDerived, claimVars
<1>1. newest \in 1..newest /\ newest \in 1..MaxPins
  BY PinsAssumption DEF IInv, TypeOK, SessionInv
<1>2. recent \in Seq(1..MaxPins) /\ recent \in Seq(1..newest) /\ Len(recent) <= RecentPinCache
  BY DEF IInv, TypeOK, SessionInv
<1>3. /\ recent' \in Seq(1..MaxPins) /\ Len(recent') <= RecentPinCache
      /\ recent' \in Seq(1..newest)
  BY <1>1, <1>2, PushRecentType
<1>4. TypeOK'
  BY <1>3 DEF IInv, TypeOK
<1>5. SessionInv'
  BY <1>1, <1>3 DEF IInv, TypeOK, SessionInv, Paired, NoClaim
<1>6. \A c \in Conns : SlotInv(conn[c])'
  BY DEF IInv, SlotInv, Genuine
<1>7. QED
  BY <1>4, <1>5, <1>6 DEF IInv

\* Publication touches the relay only; waking up touches the header only.
LEMMA PinPublishedOrWakeIInv ==
    ASSUME IInv, PinPublished \/ PinWake
    PROVE  IInv'
<1> USE DEF PinPublished, PinWake, claimVars
<1>1. TypeOK'
  BY PinsAssumption DEF IInv, TypeOK, NoKey
<1>2. SessionInv'
  BY DEF IInv, TypeOK, SessionInv, Paired, NoClaim, NoKey
<1>3. \A c \in Conns : SlotInv(conn[c])'
  BY DEF IInv, SlotInv, Genuine
<1>4. QED
  BY <1>1, <1>2, <1>3 DEF IInv

\* A fresh connection knows nothing yet.
LEMMA ArriveIInv ==
    ASSUME IInv, NEW c \in Conns, NEW d \in Dialers, NEW k \in Credentials(newest),
           Arrive(c, d, k)
    PROVE  IInv'
<1> DEFINE r == NewConn(d, k)
<1>1. r \in ConnRecord
  BY ConnTypes, CredentialsGrow DEF IInv, TypeOK
<1>2. r.pc = "gate" /\ r.peer = d /\ r.gate = "free" /\ r.rkey = NoKey /\ r.cands = {}
      /\ r.verdict = "none"
  BY ConnFields
<1> HIDE DEF r
<1>3. SlotInv(r)
  BY <1>2 DEF SlotInv, NoKey, Arrive, IInv, TypeOK
<1>4. QED
  BY <1>1, <1>3, OneSlot DEF Arrive, r

\* The gate copies the claim it sees.
LEMMA GateIInv ==
    ASSUME IInv, NEW c \in Conns, Gate(c)
    PROVE  IInv'
<1> DEFINE q == conn[c]
           mine == claim.peer = q.peer
           g == IF mine THEN "mine" ELSE IF Paired THEN "other" ELSE "free"
           k == IF mine THEN claim.key ELSE NoKey
           r == [q EXCEPT !.pc = "request", !.gate = g, !.rkey = k]
<1>1. q \in ConnRecord /\ q.pc = "gate" /\ SlotInv(q) /\ claim.key \in 0..MaxPins
  BY DEF Gate, IInv, TypeOK
<1>2. g \in {"free", "mine", "other"} /\ k \in 0..MaxPins
  BY <1>1, PinsAssumption DEF NoKey
<1>3. conn' = [conn EXCEPT ![c] = r] /\ UNCHANGED <<mode, phase, pinVars, claimVars, inbound>>
  BY DEF Gate
<1>4. /\ r \in ConnRecord /\ r.pc = "request" /\ r.gate = g /\ r.rkey = k
      /\ r.live = q.live /\ r.peer = q.peer /\ r.cands = q.cands /\ r.verdict = q.verdict
  <2> HIDE DEF q, g, k
  <2>1. QED
    BY <1>1, <1>2 DEF ConnRecord, Handshaking
<1> HIDE DEF r
<1>5. SlotInv(r)
  BY <1>1, <1>4 DEF SlotInv, IInv, SessionInv, TypeOK, NoKey, Paired
<1>6. QED
  BY <1>3, <1>4, <1>5, OneSlot

\* A slot whose task ends in the middle of a session is idle.
LEMMA EndedIInv ==
    ASSUME IInv, NEW c \in Conns, NEW v \in {"none", "accepted", "rejected"},
           conn' = [conn EXCEPT ![c] = EndedConn(FALSE, v)],
           UNCHANGED <<mode, phase, pinVars, claimVars>>,
           inbound' = inbound \/ (phase # "stopped" /\ inbound' \in [peer : Dialers \cup {NoPeer}, conns : Nat])
    PROVE  IInv'
<1> DEFINE r == EndedConn(FALSE, v)
<1>1. r \in ConnRecord
  BY ConnTypes
<1>2. r.pc = "over" /\ ~r.live /\ r.gate = "free" /\ r.rkey = NoKey /\ r.cands = {}
  BY DEF EndedConn, FreeConn
<1> HIDE DEF r
<1>3. SlotInv(r)
  BY <1>2, IdleSlot DEF IInv, TypeOK
<1>4. conn' = [conn EXCEPT ![c] = r]
  BY DEF r
<1>5. inbound' = inbound \/ (phase # "stopped" /\ TypeOK')
  BY <1>1, <1>4 DEF IInv, TypeOK, claimVars, pinVars
<1>6. QED
  BY <1>1, <1>3, <1>4, <1>5, OneSlot

\* Taking the claim disturbs no other connection: while it was free, no gate had
\* seen its own peer and nobody was accepted.
LEMMA CommitIInv ==
    ASSUME IInv, NEW c \in Conns, NEW k \in 0..newest,
           conn[c].pc \in {"request", "proof"}, Genuine(conn[c].cred),
           k # NoKey <=> mode = "pin",
           CommitOk(conn[c].peer), CommitClaim(conn[c].peer, k),
           conn' = [conn EXCEPT ![c] = AcceptingConn(@)],
           UNCHANGED <<mode, phase, pinVars, inbound, admitted>>
    PROVE  IInv'
<1> DEFINE q == conn[c]
           r == AcceptingConn(q)
<1>1. q \in ConnRecord /\ SlotInv(q)
  BY DEF IInv, TypeOK
<1>2. /\ r \in ConnRecord
      /\ r.pc = "accept" /\ r.live = q.live /\ r.peer = q.peer /\ r.cred = q.cred
      /\ r.gate = "free" /\ r.rkey = NoKey /\ r.cands = {} /\ r.verdict = "none"
  BY <1>1, ConnTypes DEF AcceptingConn
<1>3. q.peer \in Dialers /\ phase \notin {"closing", "closed", "stopped"}
  BY <1>1 DEF SlotInv
<1>4. conn' = [conn EXCEPT ![c] = r]
  OBVIOUS
<1> HIDE DEF r
<1>5. CASE Paired
  <2>1. claim' = claim /\ claim.peer = q.peer
    BY <1>5 DEF CommitClaim, CommitOk, Paired
  <2>2. SlotInv(r)
    BY <1>2, <1>3, <2>1 DEF SlotInv, NoKey, IInv, TypeOK
  <2>3. QED
    BY <1>2, <1>4, <2>1, <2>2, OneSlot DEF claimVars
<1>6. CASE ~Paired
  <2>1. claim.peer = NoPeer /\ claim' = [peer |-> q.peer, key |-> k]
    BY <1>6 DEF CommitClaim, Paired
  <2>2. claim'.peer = q.peer /\ claim'.key = k
    BY <2>1
  <2>3. TypeOK'
    <3>1. k \in 0..MaxPins
      BY PinsAssumption DEF IInv, TypeOK
    <3>2. claim' \in [peer : Dialers \cup {NoPeer}, key : 0..MaxPins]
      BY <1>3, <2>1, <3>1
    <3>3. conn' \in [Conns -> ConnRecord]
      BY <1>2, <1>4 DEF IInv, TypeOK
    <3>4. QED
      BY <3>2, <3>3 DEF IInv, TypeOK, pinVars
  <2>4. SessionInv'
    BY <1>3, <2>2 DEF IInv, TypeOK, SessionInv, Paired, NoKey, pinVars
  <2>5. ASSUME NEW b \in Conns PROVE SlotInv(conn[b])'
    <3>1. conn'[b] = IF b = c THEN r ELSE conn[b]
      BY <1>4 DEF IInv, TypeOK
    <3>2. CASE b = c
      BY <1>2, <1>3, <2>2, <3>1, <3>2
         DEF SlotInv, Genuine, NoKey, IInv, TypeOK, pinVars
    <3>3. CASE b # c
      <4>1. SlotInv(conn[b]) /\ conn'[b] = conn[b]
        BY <3>1, <3>3 DEF IInv
      <4>2. conn[b].gate # "mine" /\ conn[b].pc \notin {"accept", "served"}
        <5>1. conn[b].pc \in {"free", "gate", "served", "over", "request", "proof", "accept"}
          BY FieldTypes DEF IInv, TypeOK, Handshaking
        <5>2. QED
          BY <2>1, <4>1, <5>1, DialersAssumption DEF SlotInv
      <4>3. QED
        BY <4>1, <4>2 DEF SlotInv, Genuine, pinVars
    <3>4. QED
      BY <3>2, <3>3
  <2>6. QED
    BY <2>3, <2>4, <2>5 DEF IInv
<1>7. QED
  BY <1>5, <1>6

\* The token request is rejected or commits the genuine token without a key.
LEMMA ReadTokenRequestIInv ==
    ASSUME IInv, NEW c \in Conns, ReadTokenRequest(c)
    PROVE  IInv'
<1>1. CASE Reject(c)
  BY <1>1, EndedIInv DEF ReadTokenRequest, Reject
<1>2. CASE ~Reject(c)
  <2>1. /\ TokenValid(conn[c].cred) /\ CommitOk(conn[c].peer)
        /\ CommitClaim(conn[c].peer, NoKey) /\ UNCHANGED admitted
        /\ conn' = [conn EXCEPT ![c] = AcceptingConn(@)]
    BY <1>2 DEF ReadTokenRequest, CommitOrReject
  <2>2. Genuine(conn[c].cred) /\ mode # "pin"
    BY <2>1 DEF Genuine, TokenValid, ReadTokenRequest
  <2>3. NoKey \in 0..newest
    BY DEF NoKey, IInv, TypeOK
  <2>4. QED
    BY <2>1, <2>2, <2>3, CommitIInv DEF ReadTokenRequest
<1>3. QED
  BY <1>1, <1>2

\* The candidates are PINs of this session, the holder's own key among them.
LEMMA ReadPinRequestIInv ==
    ASSUME IInv, NEW c \in Conns, ReadPinRequest(c)
    PROVE  IInv'
<1> DEFINE q == conn[c]
           s == Candidates(c)
           r == [q EXCEPT !.pc = "proof", !.cands = s]
<1>1. q \in ConnRecord /\ q.pc = "request" /\ q.cred.kind = "pin" /\ SlotInv(q)
  BY DEF ReadPinRequest, IInv, TypeOK
<1>2. /\ s \subseteq 1..newest
      /\ s # {} => mode = "pin"
      /\ q.rkey # NoKey => q.rkey \in s
  BY <1>1, SnapshotType DEF Candidates, IInv, SessionInv, SlotInv, TypeOK, NoKey
<1>3. s \in SUBSET (1..MaxPins)
  <2>1. newest \in 0..MaxPins
    BY DEF IInv, TypeOK
  <2>2. \A i \in 1..newest : i \in 1..MaxPins
    BY <2>1, PinsAssumption
  <2> HIDE DEF s
  <2>3. QED
    BY <1>2, <2>2
<1>4. conn' = [conn EXCEPT ![c] = r] /\ UNCHANGED <<mode, phase, pinVars, claimVars, inbound>>
  BY DEF ReadPinRequest
<1>5. /\ r \in ConnRecord /\ r.pc = "proof" /\ r.cands = s
      /\ r.live = q.live /\ r.peer = q.peer /\ r.cred = q.cred
      /\ r.gate = q.gate /\ r.rkey = q.rkey /\ r.verdict = q.verdict
  <2> HIDE DEF q, s
  <2>1. QED
    BY <1>1, <1>3 DEF ConnRecord, Handshaking
<1> HIDE DEF r, s
<1>6. SlotInv(r)
  BY <1>1, <1>2, <1>5 DEF SlotInv
<1>7. QED
  BY <1>4, <1>5, <1>6, OneSlot

\* A proof that opens names a candidate, hence a PIN of this session.
LEMMA ReadProofIInv ==
    ASSUME IInv, NEW c \in Conns, ReadProof(c)
    PROVE  IInv'
<1>1. CASE Reject(c)
  BY <1>1, EndedIInv DEF ReadProof, Reject
<1>2. CASE ~Reject(c)
  <2> DEFINE q == conn[c]
             k == q.cred.key
  <2>1. /\ q.pc = "proof" /\ k \in q.cands /\ CommitOk(q.peer)
        /\ CommitClaim(q.peer, k) /\ UNCHANGED admitted
        /\ conn' = [conn EXCEPT ![c] = AcceptingConn(@)]
    BY <1>2 DEF ReadProof, CommitOrReject
  <2>2. SlotInv(q)
    BY DEF IInv
  <2>3. k \in 1..newest /\ mode = "pin" /\ q.cred.kind = "pin"
    BY <2>1, <2>2 DEF SlotInv
  <2>4. Genuine(q.cred) /\ k \in 0..newest /\ k # NoKey
    BY <2>3 DEF Genuine, NoKey, IInv, TypeOK
  <2>5. QED
    BY <2>1, <2>3, <2>4, CommitIInv DEF ReadProof
<1>3. QED
  BY <1>1, <1>2

\* The acceptance goes to the holder.
LEMMA WriteAcceptIInv ==
    ASSUME IInv, NEW c \in Conns, WriteAccept(c)
    PROVE  IInv'
<1> DEFINE q == conn[c]
           r == [q EXCEPT !.pc = "served", !.verdict = "accepted"]
<1>1. q \in ConnRecord /\ q.pc = "accept" /\ SlotInv(q)
  BY DEF WriteAccept, IInv, TypeOK
<1>2. conn' = [conn EXCEPT ![c] = r]
  BY DEF WriteAccept
<1>3. /\ r \in ConnRecord /\ r.pc = "served"
      /\ r.live = q.live /\ r.peer = q.peer /\ r.cred = q.cred
      /\ r.gate = q.gate /\ r.rkey = q.rkey /\ r.cands = q.cands
      /\ r.verdict = "accepted"
  <2> HIDE DEF q
  <2>1. QED
    BY <1>1 DEF ConnRecord
<1> HIDE DEF r
<1>4. q.peer \in Dialers /\ phase \notin {"closing", "closed", "stopped"}
  BY <1>1 DEF SlotInv
<1>5. TypeOK'
  <2>1. inbound' \in [peer : Dialers \cup {NoPeer}, conns : Nat]
    BY <1>4 DEF WriteAccept, MarkPeerConnected, IInv, TypeOK
  <2>2. QED
    BY <2>1, <1>2, <1>3, <1>4 DEF WriteAccept, IInv, TypeOK, pinVars
<1>6. SessionInv'
  BY <1>4 DEF WriteAccept, IInv, SessionInv, TypeOK, Paired, pinVars
<1>7. ASSUME NEW b \in Conns PROVE SlotInv(conn[b])'
  <2>1. conn'[b] = IF b = c THEN r ELSE conn[b]
    BY <1>2 DEF IInv, TypeOK
  <2>2. SlotInv(r) /\ SlotInv(conn[b])
    BY <1>1, <1>3 DEF SlotInv, IInv
  <2>3. SlotInv(conn'[b])
    BY <2>1, <2>2
  <2>4. QED
    BY <2>3 DEF SlotInv, Genuine, WriteAccept, pinVars
<1>8. QED
  BY <1>5, <1>6, <1>7 DEF IInv

\* A failed handshake frees its slot and leaves the claim alone.
LEMMA AuthFailsIInv ==
    ASSUME IInv, NEW c \in Conns, AuthFails(c)
    PROVE  IInv'
BY EndedIInv DEF AuthFails

\* A lost transport is only noticed later.
LEMMA PeerGoneIInv ==
    ASSUME IInv, NEW c \in Conns, PeerGone(c)
    PROVE  IInv'
<1> DEFINE q == conn[c]
           r == [q EXCEPT !.live = FALSE]
<1>1. q \in ConnRecord /\ SlotInv(q)
  BY DEF IInv, TypeOK
<1>2. conn' = [conn EXCEPT ![c] = r] /\ UNCHANGED <<mode, phase, pinVars, claimVars, inbound>>
  BY DEF PeerGone
<1>3. /\ r \in ConnRecord /\ ~r.live
      /\ r.pc = q.pc /\ r.peer = q.peer /\ r.cred = q.cred /\ r.gate = q.gate
      /\ r.rkey = q.rkey /\ r.cands = q.cands /\ r.verdict = q.verdict
  BY <1>1, LiveOff
<1> HIDE DEF r
<1>4. SlotInv(r)
  BY <1>1, <1>3 DEF SlotInv
<1>5. QED
  BY <1>2, <1>3, <1>4, OneSlot

\* The header counts a served connection that ended down.
LEMMA ServedEndsIInv ==
    ASSUME IInv, NEW c \in Conns, ServedEnds(c)
    PROVE  IInv'
<1>1. SlotInv(conn[c]) /\ conn[c].pc = "served"
  BY DEF ServedEnds, IInv
<1>2. phase # "stopped"
  BY <1>1 DEF SlotInv
<1>3. inbound' \in [peer : Dialers \cup {NoPeer}, conns : Nat]
  BY DEF ServedEnds, MarkPeerDisconnected, IInv, TypeOK
<1>4. QED
  BY <1>2, <1>3, EndedIInv DEF ServedEnds

\* Every step of the specification preserves IInv.
LEMMA NextIInv ==
    ASSUME IInv, [Next]_vars
    PROVE  IInv'
<1>1. CASE Session
  BY <1>1, StartIInv, StopIInv, EndpointEndsIInv, AbortConnectionsIInv, CloseEndpointIInv,
     ClearListenIInv DEF Session
<1>2. CASE PinPublisher
  BY <1>2, PinTopIInv, PinMintedIInv, PinDerivedIInv, PinPublishedOrWakeIInv DEF PinPublisher
<1>3. ASSUME NEW c \in Conns, Connection(c) PROVE IInv'
  <2>1. CASE \E d \in Dialers, k \in Credentials(newest) : Arrive(c, d, k)
    BY <2>1, ArriveIInv
  <2>2. CASE Gate(c)
    BY <2>2, GateIInv
  <2>3. CASE ReadTokenRequest(c)
    BY <2>3, ReadTokenRequestIInv
  <2>4. CASE ReadPinRequest(c)
    BY <2>4, ReadPinRequestIInv
  <2>5. CASE ReadProof(c)
    BY <2>5, ReadProofIInv
  <2>6. CASE WriteAccept(c)
    BY <2>6, WriteAcceptIInv
  <2>7. CASE AuthFails(c)
    BY <2>7, AuthFailsIInv
  <2>8. CASE PeerGone(c)
    BY <2>8, PeerGoneIInv
  <2>9. CASE ServedEnds(c)
    BY <2>9, ServedEndsIInv
  <2>10. QED
    BY <1>3, <2>1, <2>2, <2>3, <2>4, <2>5, <2>6, <2>7, <2>8, <2>9 DEF Connection
<1>4. CASE UNCHANGED vars
  BY <1>4 DEF vars, IInv, TypeOK, SessionInv, SlotInv, Genuine, Paired
<1>5. QED
  BY <1>1, <1>2, <1>3, <1>4 DEF Next

\* IInv is an invariant of the listener.
THEOREM IInvHolds == Spec => []IInv
<1>1. Init => IInv
  BY InitIInv
<1>2. IInv /\ [Next]_vars => IInv'
  BY NextIInv
<1>3. QED
  BY <1>1, <1>2, PTL DEF Spec

------------------------------------------------------------------------------
(* Theorems. *)

\* The types hold: in particular the recent-PIN cache never exceeds its size.
THEOREM TypeCorrect == Spec => []TypeOK
<1>1. IInv => TypeOK
  BY DEF IInv
<1>2. QED
  BY <1>1, IInvHolds, PTL

\* Whatever the number of dialers and the interleaving of their handshakes, only
\* the holder of the claim is accepted or about to be (PairClaim::commit).
THEOREM OnePairOnly == Spec => []OnlyThePairIsServed
<1>1. IInv => OnlyThePairIsServed
  BY DEF IInv, SlotInv, OnlyThePairIsServed
<1>2. QED
  BY <1>1, IInvHolds, PTL

\* Nobody is accepted without the shared token or a PIN of this session
\* (auth_as_listener).
THEOREM GenuineOnly == Spec => []OnlyGenuineCredentials
<1>1. IInv => OnlyGenuineCredentials
  BY DEF IInv, SlotInv, OnlyGenuineCredentials
<1>2. QED
  BY <1>1, IInvHolds, PTL

\* A stopped listener has nothing left of its session (run_listen's teardown).
THEOREM CleanStop == Spec => []StoppedIsClean
<1>1. IInv => StoppedIsClean
  BY DEF IInv, SessionInv, SlotInv, StoppedIsClean
<1>2. QED
  BY <1>1, IInvHolds, PTL

\* Only the two places that read a credential ever send a rejection.
LEMMA RejectedBy ==
    ASSUME IInv, [Next]_vars, NEW c \in Conns,
           conn[c].verdict # "rejected", conn'[c].verdict = "rejected"
    PROVE  (ReadTokenRequest(c) \/ ReadProof(c)) /\ Reject(c)
<1>1. conn[c] \in ConnRecord /\ conn'[c] # conn[c]
  BY DEF IInv, TypeOK
<1>2. ~UNCHANGED vars /\ ~PinPublisher
  BY <1>1 DEF vars, PinPublisher, PinTop, PinMinted, PinDerived, PinPublished, PinWake
<1>3. ~Session
  <2>1. FreeConn.verdict # "rejected"
    BY DEF FreeConn
  <2>2. EndedConn(conn[c].live, conn[c].verdict).verdict = conn[c].verdict
    BY DEF EndedConn, FreeConn
  <2>3. [conn[c] EXCEPT !.live = FALSE].verdict = conn[c].verdict
    BY <1>1 DEF ConnRecord
  <2>4. QED
    BY <1>1, <2>1, <2>2, <2>3
       DEF Session, Start, Stop, EndpointEnds, AbortConnections, CloseEndpoint, ClearListen
<1>4. PICK b \in Conns : Connection(b)
  BY <1>2, <1>3 DEF Next
<1>5. b = c
  <2> SUFFICES ASSUME b # c PROVE conn'[c] = conn[c]
    BY <1>1
  <2>1. QED
    BY <1>4 DEF Connection, Arrive, Gate, ReadTokenRequest, ReadPinRequest, ReadProof,
       CommitOrReject, Reject, WriteAccept, AuthFails, PeerGone, ServedEnds, IInv, TypeOK
<1>6. ASSUME NEW r, conn' = [conn EXCEPT ![c] = r] PROVE r.verdict = "rejected"
  BY <1>6 DEF IInv, TypeOK
<1>7. /\ ~AuthFails(c) /\ ~ServedEnds(c)
      /\ \A d, k : ~Arrive(c, d, k)
  <2>1. \A d, k : NewConn(d, k).verdict = "none"
    BY DEF NewConn
  <2>2. EndedConn(FALSE, "none").verdict = "none" /\ EndedConn(FALSE, "accepted").verdict = "accepted"
    BY DEF EndedConn, FreeConn
  <2>3. QED
    BY <1>6, <2>1, <2>2 DEF AuthFails, ServedEnds, Arrive
<1>8. ~Gate(c) /\ ~ReadPinRequest(c) /\ ~WriteAccept(c) /\ ~PeerGone(c)
  <2>1. \A p, g, k : [conn[c] EXCEPT !.pc = p, !.gate = g, !.rkey = k].verdict = conn[c].verdict
    BY <1>1 DEF ConnRecord
  <2>2. \A p, s : [conn[c] EXCEPT !.pc = p, !.cands = s].verdict = conn[c].verdict
    BY <1>1 DEF ConnRecord
  <2>3. \A p : [conn[c] EXCEPT !.pc = p, !.verdict = "accepted"].verdict = "accepted"
    BY <1>1 DEF ConnRecord
  <2>4. [conn[c] EXCEPT !.live = FALSE].verdict = conn[c].verdict
    BY <1>1 DEF ConnRecord
  <2>5. ~Gate(c)
    <3> SUFFICES ASSUME Gate(c) PROVE FALSE
      OBVIOUS
    <3>1. PICK g, k :
            conn' = [conn EXCEPT ![c] = [conn[c] EXCEPT !.pc = "request", !.gate = g, !.rkey = k]]
      BY DEF Gate
    <3>2. QED
      BY <1>6, <2>1, <3>1
  <2>6. ~ReadPinRequest(c)
    <3> SUFFICES ASSUME ReadPinRequest(c) PROVE FALSE
      OBVIOUS
    <3>1. PICK s : conn' = [conn EXCEPT ![c] = [conn[c] EXCEPT !.pc = "proof", !.cands = s]]
      BY DEF ReadPinRequest
    <3>2. QED
      BY <1>6, <2>2, <3>1
  <2>7. ~WriteAccept(c)
    BY <1>6, <2>3 DEF WriteAccept
  <2>8. ~PeerGone(c)
    BY <1>6, <2>4 DEF PeerGone
  <2>9. QED
    BY <2>5, <2>6, <2>7, <2>8
<1>9. ReadTokenRequest(c) \/ ReadProof(c)
  BY <1>4, <1>5, <1>7, <1>8 DEF Connection
<1>10. AcceptingConn(conn[c]).verdict = "none"
  BY DEF AcceptingConn
<1>11. conn' # [conn EXCEPT ![c] = AcceptingConn(@)]
  BY <1>6, <1>10
<1>12. QED
  BY <1>9, <1>11 DEF ReadTokenRequest, ReadProof, CommitOrReject

\* The paired peer that presents what it paired with is never rejected, however
\* far the PINs have rotated since (the reconnect_key of auth_as_listener).
THEOREM PairReturns == Spec => ThePairMayReturn
<1> DEFINE Returning(c) == /\ conn[c].pc \in {"request", "proof"}
                           /\ conn[c].gate = "mine"
                           /\ conn[c].cred = PairingCredential
<1>1. ASSUME IInv, [Next]_vars
      PROVE  \A c \in Conns : Returning(c) => conn'[c].verdict # "rejected"
  <2> SUFFICES ASSUME NEW c \in Conns, Returning(c), conn'[c].verdict = "rejected"
               PROVE  FALSE
    OBVIOUS
  <2>1. SlotInv(conn[c]) /\ SessionInv /\ mode \in {"token", "pin"}
    BY <1>1 DEF IInv, TypeOK
  <2>2. (ReadTokenRequest(c) \/ ReadProof(c)) /\ Reject(c)
    BY <1>1, <2>1, RejectedBy DEF SlotInv
  <2>3. /\ claim.peer = conn[c].peer /\ conn[c].rkey = claim.key
        /\ Paired /\ CommitOk(conn[c].peer)
    BY <2>1, DialersAssumption DEF SlotInv, Paired, CommitOk
  <2>4. conn' # [conn EXCEPT ![c] = AcceptingConn(@)]
    <3>1. AcceptingConn(conn[c]).verdict # "rejected"
      BY DEF AcceptingConn
    <3>2. QED
      BY <1>1, <3>1 DEF IInv, TypeOK
  <2>5. CASE claim.key = NoKey
    <3>1. conn[c].cred.kind = "token" /\ conn[c].cred.key = 1
      BY <2>5 DEF PairingCredential
    <3>2. mode = "token"
      BY <2>1, <2>3, <2>5 DEF SessionInv
    <3>3. QED
      BY <2>1, <2>2, <2>3, <2>4, <3>1, <3>2
         DEF ReadTokenRequest, ReadProof, TokenValid, CommitOrReject, SlotInv
  <2>6. CASE claim.key # NoKey
    <3>1. conn[c].cred.kind = "pin" /\ conn[c].cred.key = claim.key
      BY <2>6 DEF PairingCredential
    <3>2. QED
      BY <2>1, <2>2, <2>3, <2>4, <2>6, <3>1
         DEF ReadTokenRequest, ReadProof, CommitOrReject, SlotInv
  <2>7. QED
    BY <2>5, <2>6
<1>2. QED
  BY <1>1, IInvHolds, PTL DEF Spec, ThePairMayReturn

\* The listener implements the one-pair promise: a commit by the first peer is
\* Pair, an acceptance is Admit, the end of a session is Release, and every other
\* step leaves the holder and the admitted peers alone.
THEOREM Refinement == Spec => ImplementsOnePair
<1>1. Init => Promise!Init
  BY DEF Init, Promise!Init, NoClaim
<1>2. ASSUME IInv, [Next]_vars PROVE [Promise!Next]_(Promise!vars)
  <2> USE DEF Promise!vars, Promise!Next
  <2>1. CASE Session
    BY <2>1 DEF Session, Start, Stop, EndpointEnds, AbortConnections, CloseEndpoint,
       ClearListen, claimVars, Promise!Release, NoClaim
  <2>2. CASE PinPublisher
    BY <2>2 DEF PinPublisher, PinTop, PinMinted, PinDerived, PinPublished, PinWake, claimVars
  <2>3. ASSUME NEW c \in Conns, Connection(c) PROVE [Promise!Next]_(Promise!vars)
    <3>1. SlotInv(conn[c])
      BY <1>2 DEF IInv
    <3>2. ASSUME NEW k, CommitOrReject(c, k), conn[c].pc \in {"request", "proof"}
          PROVE  [Promise!Next]_(Promise!vars)
      <4>1. conn[c].peer \in Dialers
        BY <3>1, <3>2 DEF SlotInv
      <4>2. CASE Reject(c)
        BY <4>2 DEF Reject, claimVars
      <4>3. CASE CommitClaim(conn[c].peer, k) /\ UNCHANGED admitted
        BY <4>1, <4>3 DEF CommitClaim, Paired, Promise!Pair
      <4>4. QED
        BY <3>2, <4>2, <4>3 DEF CommitOrReject
    <3>3. CASE ReadTokenRequest(c)
      BY <3>2, <3>3 DEF ReadTokenRequest, Reject, claimVars
    <3>4. CASE ReadProof(c)
      BY <3>2, <3>4 DEF ReadProof, Reject, claimVars
    <3>5. CASE WriteAccept(c)
      <4>1. conn[c].peer \in Dialers /\ claim.peer = conn[c].peer
        BY <3>1, <3>5 DEF SlotInv, WriteAccept
      <4>2. QED
        BY <3>5, <4>1 DEF WriteAccept, Promise!Admit
    <3>6. QED
      BY <2>3, <3>3, <3>4, <3>5
         DEF Connection, Arrive, Gate, ReadPinRequest, AuthFails, PeerGone, ServedEnds, claimVars
  <2>4. CASE UNCHANGED vars
    BY <2>4 DEF vars
  <2>5. QED
    BY <1>2, <2>1, <2>2, <2>3, <2>4 DEF Next
<1>3. QED
  BY <1>1, <1>2, IInvHolds, PTL DEF Spec, ImplementsOnePair, Promise!Spec

------------------------------------------------------------------------------
(* The header's count of connections. *)

Serving == phase \in {"up", "stopping", "ended"}

Served == {c \in Conns : conn[c].pc = "served"}

\* While a session runs the header counts the served connections of the holder; an
\* empty header, which is what the session starts with, counts none.
HeaderInv ==
    Serving =>
        /\ inbound.conns = Cardinality(Served)
        /\ inbound.peer \in {NoPeer, claim.peer}
        /\ inbound.peer = NoPeer => inbound.conns = 0

LEMMA ServedFinite == IsFiniteSet(Served)
<1>1. Served \in SUBSET Conns
  BY DEF Served
<1>2. QED
  BY <1>1, ConnsAssumption, FS_Subset

\* A step that serves nobody and ends nobody leaves the header as it is, also when it
\* takes the claim: nobody was shown before.
LEMMA HeaderSame ==
    ASSUME HeaderInv, Serving' => Serving, inbound' = inbound,
           \A c \in Conns : conn'[c].pc = "served" <=> conn[c].pc = "served",
           claim'.peer = claim.peer \/ claim.peer = NoPeer
    PROVE  HeaderInv'
<1>1. Served' = Served
  BY DEF Served
<1>2. QED
  BY <1>1 DEF HeaderInv

\* The same, of a step on one connection.
LEMMA HeaderSlot ==
    ASSUME IInv, HeaderInv, phase' = phase, inbound' = inbound, NEW c \in Conns, NEW r,
           conn' = [conn EXCEPT ![c] = r], r.pc = "served" <=> conn[c].pc = "served",
           claim'.peer = claim.peer \/ claim.peer = NoPeer
    PROVE  HeaderInv'
<1>1. \A b \in Conns : conn'[b] = IF b = c THEN r ELSE conn[b]
  BY DEF IInv, TypeOK
<1>2. \A b \in Conns : conn'[b].pc = "served" <=> conn[b].pc = "served"
  BY <1>1
<1>3. Serving' => Serving
  BY DEF Serving
<1>4. QED
  BY <1>2, <1>3, HeaderSame

LEMMA HeaderSession ==
    ASSUME IInv, HeaderInv, Session
    PROVE  HeaderInv'
<1>1. CASE Start
  <2>1. inbound' = NoInbound
    BY <1>1 DEF Start, IInv, SessionInv
  <2>2. \A c \in Conns : conn'[c].pc # "served"
    BY <1>1, ConnFields DEF Start
  <2>3. Served' = {}
    BY <2>2 DEF Served
  <2>4. QED
    BY <2>1, <2>3, FS_EmptySet DEF HeaderInv, NoInbound
<1>2. CASE Stop
  BY <1>2, HeaderSame DEF Stop, Serving, claimVars
<1>3. CASE EndpointEnds
  <2>1. ASSUME NEW c \in Conns PROVE conn'[c].pc = conn[c].pc
    <3>1. conn[c] \in ConnRecord /\ conn'[c] = [conn[c] EXCEPT !.live = FALSE]
      BY <1>3 DEF EndpointEnds, IInv, TypeOK
    <3>2. QED
      BY <3>1, LiveOff
  <2>2. QED
    BY <1>3, <2>1, HeaderSame DEF EndpointEnds, Serving, claimVars
<1>4. CASE AbortConnections \/ CloseEndpoint \/ ClearListen
  BY <1>4 DEF AbortConnections, CloseEndpoint, ClearListen, HeaderInv, Serving
<1>5. QED
  BY <1>1, <1>2, <1>3, <1>4 DEF Session

LEMMA HeaderPublisher ==
    ASSUME IInv, HeaderInv, PinPublisher
    PROVE  HeaderInv'
<1>1. UNCHANGED <<phase, claimVars, inbound, conn>>
  BY DEF PinPublisher, PinTop, PinMinted, PinDerived, PinPublished, PinWake
<1>2. QED
  BY <1>1, HeaderSame DEF Serving, claimVars

\* A decided handshake: rejected, or the claim is taken or already held.
LEMMA HeaderDecision ==
    ASSUME IInv, HeaderInv, NEW c \in Conns, NEW k, conn[c].pc \in {"request", "proof"},
           Reject(c) \/ CommitOrReject(c, k), UNCHANGED <<phase, inbound>>
    PROVE  HeaderInv'
<1>1. CASE Reject(c)
  <2>1. EndedConn(FALSE, "rejected").pc # "served"
    BY ConnFields
  <2>2. QED
    BY <1>1, <2>1, HeaderSlot DEF Reject, claimVars
<1>2. CASE CommitOk(conn[c].peer) /\ CommitOrReject(c, k)
  <2>1. /\ conn' = [conn EXCEPT ![c] = AcceptingConn(conn[c])]
        /\ claim' = claim \/ claim.peer = NoPeer
    BY <1>2 DEF CommitOrReject, CommitClaim, Paired
  <2>2. AcceptingConn(conn[c]).pc # "served"
    BY ConnFields
  <2>3. QED
    BY <2>1, <2>2, HeaderSlot
<1>3. QED
  BY <1>1, <1>2 DEF CommitOrReject

\* The acceptance: the header counts one connection more, of the peer that it shows
\* or of the first.
LEMMA HeaderAccept ==
    ASSUME IInv, HeaderInv, NEW c \in Conns, WriteAccept(c)
    PROVE  HeaderInv'
<1> DEFINE d == conn[c].peer
<1>1. /\ conn[c] \in ConnRecord /\ conn[c].pc = "accept" /\ SlotInv(conn[c])
      /\ phase' = phase /\ claim' = claim
      /\ conn' = [conn EXCEPT ![c] = [@ EXCEPT !.pc = "served", !.verdict = "accepted"]]
      /\ inbound \in [peer : Dialers \cup {NoPeer}, conns : Nat]
  BY DEF WriteAccept, IInv, TypeOK, pinVars
<1>2. d = claim.peer /\ d # NoPeer
  BY <1>1, DialersAssumption DEF SlotInv
<1>3. SUFFICES ASSUME Serving
               PROVE  /\ inbound'.conns = Cardinality(Served') /\ inbound'.peer = d
                      /\ inbound'.peer # NoPeer
  BY <1>1, <1>2 DEF HeaderInv, Serving
<1>4. inbound'.conns = inbound.conns + 1 /\ inbound'.peer = d
  <2>1. CASE inbound.peer = d
    BY <1>1, <2>1 DEF WriteAccept, MarkPeerConnected
  <2>2. CASE inbound.peer # d
    <3>1. inbound.peer = NoPeer /\ inbound.conns = 0
      BY <1>2, <1>3, <2>2 DEF HeaderInv
    <3>2. QED
      BY <2>2, <3>1 DEF WriteAccept, MarkPeerConnected
  <2>3. QED
    BY <2>1, <2>2
<1>5. Served' = Served \cup {c} /\ c \notin Served
  <2>1. \A b \in Conns : conn'[b].pc = IF b = c THEN "served" ELSE conn[b].pc
    BY <1>1 DEF ConnRecord, IInv, TypeOK
  <2>2. QED
    BY <1>1, <2>1 DEF Served
<1>6. Cardinality(Served') = Cardinality(Served) + 1
  BY <1>5, ServedFinite, FS_AddElement
<1>7. QED
  BY <1>2, <1>3, <1>4, <1>6 DEF HeaderInv

\* The end of a served connection: a shown one, so the header counts one less.
LEMMA HeaderEnds ==
    ASSUME IInv, HeaderInv, NEW c \in Conns, ServedEnds(c)
    PROVE  HeaderInv'
<1> DEFINE d == conn[c].peer
<1>1. /\ conn[c].pc = "served" /\ SlotInv(conn[c])
      /\ phase' = phase /\ claim' = claim
      /\ conn' = [conn EXCEPT ![c] = EndedConn(FALSE, "accepted")]
      /\ inbound \in [peer : Dialers \cup {NoPeer}, conns : Nat]
  BY DEF ServedEnds, IInv, TypeOK, claimVars
<1>2. d = claim.peer /\ d # NoPeer
  BY <1>1, DialersAssumption DEF SlotInv
<1>3. SUFFICES ASSUME Serving
               PROVE  /\ inbound'.conns = Cardinality(Served') /\ inbound'.peer = d
                      /\ inbound'.peer # NoPeer
  BY <1>1, <1>2 DEF HeaderInv, Serving
<1>4. c \in Served /\ Served' = Served \ {c}
  <2>1. EndedConn(FALSE, "accepted").pc = "over"
    BY DEF EndedConn, FreeConn
  <2>2. \A b \in Conns : conn'[b].pc = IF b = c THEN "over" ELSE conn[b].pc
    BY <1>1, <2>1 DEF IInv, TypeOK
  <2>3. \A b \in Conns : conn'[b].pc = "served" <=> b # c /\ conn[b].pc = "served"
    BY <2>2
  <2>4. QED
    BY <1>1, <2>3 DEF Served
<1>5. /\ Cardinality(Served') = Cardinality(Served) - 1
      /\ Cardinality(Served) \in Nat /\ Cardinality(Served) # 0
  BY <1>4, ServedFinite, FS_RemoveElement, FS_CardinalityType, FS_EmptySet
<1>6. inbound.peer = d /\ inbound.conns > 0
  BY <1>2, <1>3, <1>5 DEF HeaderInv
<1>7. inbound'.conns = inbound.conns - 1 /\ inbound'.peer = d
  BY <1>1, <1>6 DEF ServedEnds, MarkPeerDisconnected
<1>8. QED
  BY <1>2, <1>3, <1>5, <1>7 DEF HeaderInv

LEMMA HeaderNext ==
    ASSUME IInv, HeaderInv, [Next]_vars
    PROVE  HeaderInv'
<1>1. ASSUME NEW c \in Conns, Connection(c) PROVE HeaderInv'
  <2>1. CASE \E d \in Dialers, k \in Credentials(newest) : Arrive(c, d, k)
    <3>1. PICK d \in Dialers, k \in Credentials(newest) : Arrive(c, d, k)
      BY <2>1
    <3>2. NewConn(d, k).pc # "served"
      BY ConnFields
    <3>3. QED
      BY <3>1, <3>2, HeaderSlot DEF Arrive, claimVars
  <2>2. CASE Gate(c)
    <3> DEFINE r == [conn[c] EXCEPT
                       !.pc = "request",
                       !.gate = IF claim.peer = conn[c].peer THEN "mine"
                                ELSE IF Paired THEN "other" ELSE "free",
                       !.rkey = IF claim.peer = conn[c].peer THEN claim.key ELSE NoKey]
    <3>1. conn[c] \in ConnRecord
      BY DEF IInv, TypeOK
    <3>2. r.pc = "request"
      BY <3>1 DEF ConnRecord
    <3>3. conn' = [conn EXCEPT ![c] = r] /\ conn[c].pc = "gate"
      BY <2>2 DEF Gate
    <3> HIDE DEF r
    <3>4. QED
      BY <2>2, <3>2, <3>3, HeaderSlot DEF Gate, claimVars
  <2>3. CASE ReadTokenRequest(c)
    BY <2>3, HeaderDecision DEF ReadTokenRequest
  <2>4. CASE ReadPinRequest(c)
    <3> DEFINE r == [conn[c] EXCEPT !.pc = "proof", !.cands = Candidates(c)]
    <3>1. conn[c] \in ConnRecord
      BY DEF IInv, TypeOK
    <3>2. r.pc = "proof"
      BY <3>1 DEF ConnRecord
    <3>3. conn' = [conn EXCEPT ![c] = r] /\ conn[c].pc = "request"
      BY <2>4 DEF ReadPinRequest
    <3> HIDE DEF r
    <3>4. QED
      BY <2>4, <3>2, <3>3, HeaderSlot DEF ReadPinRequest, claimVars
  <2>5. CASE ReadProof(c)
    BY <2>5, HeaderDecision DEF ReadProof
  <2>6. CASE WriteAccept(c)
    BY <2>6, HeaderAccept
  <2>7. CASE AuthFails(c)
    <3>1. EndedConn(FALSE, "none").pc # "served"
      BY ConnFields
    <3>2. QED
      BY <2>7, <3>1, HeaderSlot DEF AuthFails, claimVars, Handshaking
  <2>8. CASE PeerGone(c)
    <3> DEFINE r == [conn[c] EXCEPT !.live = FALSE]
    <3>1. conn[c] \in ConnRecord /\ conn' = [conn EXCEPT ![c] = r]
      BY <2>8 DEF IInv, TypeOK, PeerGone
    <3>2. r.pc = conn[c].pc
      BY <3>1, LiveOff
    <3> HIDE DEF r
    <3>3. QED
      BY <2>8, <3>1, <3>2, HeaderSlot DEF PeerGone, claimVars
  <2>9. CASE ServedEnds(c)
    BY <2>9, HeaderEnds
  <2>10. QED
    BY <1>1, <2>1, <2>2, <2>3, <2>4, <2>5, <2>6, <2>7, <2>8, <2>9 DEF Connection
<1>2. CASE UNCHANGED vars
  BY <1>2, HeaderSame DEF vars, Serving
<1>3. QED
  BY <1>1, <1>2, HeaderSession, HeaderPublisher DEF Next

\* The header shows the holder and counts its connections, for any number of slots: an
\* overlapping reconnect is counted twice and uncounted once (mark_peer_connected,
\* mark_peer_disconnected).
THEOREM HeaderCounts == Spec => []HeaderIsAccurate
<1>1. Init => HeaderInv
  BY DEF Init, HeaderInv, Serving
<1>2. IInv /\ HeaderInv /\ [Next]_vars => HeaderInv'
  BY HeaderNext
<1>3. HeaderInv => HeaderIsAccurate
  BY DEF HeaderInv, HeaderIsAccurate, Serving, Served
<1>4. QED
  BY <1>1, <1>2, <1>3, IInvHolds, PTL DEF Spec
==============================================================================
