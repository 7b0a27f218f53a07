--------------------------- MODULE MCListenerClaim ---------------------------
(* Instances of ListenerClaim for TLC. *)
EXTENDS ListenerClaim, TLC

\* Dialers and slots are interchangeable in every safety property.
Symmetry == Permutations(Dialers) \cup Permutations(Conns)
==============================================================================
