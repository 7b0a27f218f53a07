------------------------------ MODULE SocksPipe ------------------------------
(***************************************************************************)
(* What a tunnelled stream promises to the two applications at its ends,   *)
(* without saying how: a client that is told it is connected has a target, *)
(* what either of them writes arrives at the other in full and before the  *)
(* end of it, each direction ends by itself, and only a break of the       *)
(* stream ends a direction early.                                          *)
(*                                                                         *)
(* This is one SOCKS connection of peer.rs, socks5.rs and helpers.rs, as   *)
(* its client and its target see it: without handshake, acknowledgement,   *)
(* permits, copy loops or tasks.  Each slot of StreamTunnel is shown to    *)
(* implement it.                                                           *)
(***************************************************************************)
EXTENDS Naturals

VARIABLES
    client,  \* "idle", "asking", "connected" or "refused", as the client knows
    target,  \* the target has been connected
    broken,  \* something other than an end of data ended the stream
    pipe     \* per direction: units sent and got, shut down at the source, ended

vars == <<client, target, broken, pipe>>

Directions == {"up", "down"}

Empty == [dir \in Directions |-> [sent |-> 0, shut |-> FALSE, got |-> 0, eof |-> FALSE]]

\* The application that writes a direction is there, and the one that reads it.
SourceOpen(dir) == IF dir = "up" THEN client = "connected" ELSE target
SinkOpen(dir) == SourceOpen(IF dir = "up" THEN "down" ELSE "up")

Init ==
    /\ client = "idle"
    /\ target = FALSE
    /\ broken = FALSE
    /\ pipe = Empty

Ask ==
    /\ client = "idle"
    /\ client' = "asking"
    /\ UNCHANGED <<target, broken, pipe>>

\* The target may be reached for a client that has given up.
Reach ==
    /\ client # "idle" /\ ~target
    /\ target' = TRUE
    /\ UNCHANGED <<client, broken, pipe>>

Tell ==
    /\ client = "asking" /\ target
    /\ client' = "connected"
    /\ UNCHANGED <<target, broken, pipe>>

Refuse ==
    /\ client = "asking"
    /\ client' = "refused"
    /\ UNCHANGED <<target, broken, pipe>>

Write(dir) ==
    /\ SourceOpen(dir) /\ ~pipe[dir].shut
    /\ pipe' = [pipe EXCEPT ![dir].sent = @ + 1]
    /\ UNCHANGED <<client, target, broken>>

Shut(dir) ==
    /\ SourceOpen(dir) /\ ~pipe[dir].shut
    /\ pipe' = [pipe EXCEPT ![dir].shut = TRUE]
    /\ UNCHANGED <<client, target, broken>>

Deliver(dir) ==
    /\ SinkOpen(dir) /\ ~pipe[dir].eof /\ pipe[dir].got < pipe[dir].sent
    /\ pipe' = [pipe EXCEPT ![dir].got = @ + 1]
    /\ UNCHANGED <<client, target, broken>>

\* The end follows the last unit, or a break.
End(dir) ==
    /\ broken \/ (pipe[dir].shut /\ pipe[dir].got = pipe[dir].sent)
    /\ pipe' = [pipe EXCEPT ![dir].eof = TRUE]
    /\ UNCHANGED <<client, target, broken>>

\* A socket, the stream, the connection or a device fails: any end may be seen.
Break(ends) ==
    /\ client = "connected" \/ target
    /\ broken' = TRUE
    /\ pipe' = [dir \in Directions |-> [pipe[dir] EXCEPT !.eof = @ \/ dir \in ends]]
    /\ UNCHANGED <<client, target>>

\* The slot serves another client.
Forget ==
    /\ client \in {"connected", "refused"}
    /\ client' = "idle" /\ target' = FALSE /\ broken' = FALSE /\ pipe' = Empty

Next ==
    \/ Ask \/ Reach \/ Tell \/ Refuse \/ Forget
    \/ \E dir \in Directions : Write(dir) \/ Shut(dir) \/ Deliver(dir) \/ End(dir)
    \/ \E ends \in SUBSET Directions : Break(ends)

Spec == Init /\ [][Next]_vars
==============================================================================
