------------------------------- MODULE OneName -------------------------------
(***************************************************************************)
(* What a name on nostr promises, without saying how: it leads to the      *)
(* newest listen session of whoever wrote it, and a device that was told   *)
(* it lost the name does not write again, in no session and under no       *)
(* circumstances, until its user takes the name over.                      *)
(*                                                                         *)
(* This is the rule of run_node_id_publisher in iroh_mode/peer.rs and of   *)
(* the state file behind it.  NamePublisher is shown to implement it.      *)
(***************************************************************************)
EXTENDS Naturals

CONSTANT Devices  \* the devices with this name

VARIABLES
    record,   \* what the relays hold under the name: <<device, session>>, or nothing
    serving,  \* the devices that have a listen session
    newest,   \* per device, the number of its newest session
    losers    \* the devices that were told they lost the name

vars == <<record, serving, newest, losers>>

Nothing == <<>>

Init ==
    /\ record = Nothing
    /\ serving = {}
    /\ newest = [d \in Devices |-> 0]
    /\ losers = {}

\* A session has a node id of its own, newer than any before it.
Begin(d) ==
    /\ d \notin serving
    /\ serving' = serving \cup {d}
    /\ \A e \in Devices : newest[e] < newest'[d]
    /\ newest' = [newest EXCEPT ![d] = newest'[d]]
    /\ UNCHANGED <<record, losers>>

\* Only a device with a session and the right to the name writes it, and it writes
\* the session it has.
Write(d) ==
    /\ d \in serving \ losers
    /\ record' = <<d, newest[d]>>
    /\ UNCHANGED <<serving, newest, losers>>

\* A session ends, by the user, by a crash, by an error; what it has sent may still
\* arrive.
Finish(d) ==
    /\ d \in serving
    /\ serving' = serving \ {d}
    /\ \/ UNCHANGED record
       \/ d \notin losers /\ record' = <<d, newest[d]>>
    /\ UNCHANGED <<newest, losers>>

\* The relays keep nothing for ever.
Vanish ==
    /\ record' = Nothing
    /\ UNCHANGED <<serving, newest, losers>>

\* A device finds the name in other hands, maybe just after its session has ended.
Lose(d) ==
    /\ losers' = losers \cup {d}
    /\ UNCHANGED <<record, serving, newest>>

\* Its user takes the name over, within a session.
TakeOver(d) ==
    /\ d \in serving
    /\ losers' = losers \ {d}
    /\ UNCHANGED <<record, serving, newest>>

Next ==
    \/ \E d \in Devices : Begin(d) \/ Write(d) \/ Finish(d) \/ Lose(d) \/ TakeOver(d)
    \/ Vanish

Spec == Init /\ [][Next]_vars
==============================================================================
