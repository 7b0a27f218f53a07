------------------------------- MODULE OnePair -------------------------------
(***************************************************************************)
(* What a listen session promises, without saying how: at most one peer    *)
(* holds the endpoint, the holder never changes while the session lives,   *)
(* and nobody but the holder is ever told that it was accepted.            *)
(*                                                                         *)
(* This is the "one pair at a time" rule of PairClaim in                   *)
(* iroh_mode/peer.rs.  ListenerClaim is shown to implement it.             *)
(***************************************************************************)
CONSTANTS Dialers,  \* the node ids that may dial this endpoint
          NoPeer    \* the endpoint is not paired

VARIABLES holder,   \* the paired node id, or NoPeer
          admitted  \* node ids that were sent an acceptance in this session

vars == <<holder, admitted>>

Init ==
    /\ holder = NoPeer
    /\ admitted = {}

\* The first peer to authenticate takes the endpoint.
Pair(d) ==
    /\ holder = NoPeer
    /\ holder' = d
    /\ UNCHANGED admitted

\* The holder, and only the holder, is told that it is accepted.
Admit(d) ==
    /\ holder = d
    /\ admitted' = admitted \cup {d}
    /\ UNCHANGED holder

\* The listen session ends; the next one starts unpaired.
Release ==
    /\ holder' = NoPeer
    /\ admitted' = {}

Next ==
    \/ \E d \in Dialers : Pair(d) \/ Admit(d)
    \/ Release

Spec == Init /\ [][Next]_vars
==============================================================================
