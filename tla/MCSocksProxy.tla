----------------------------- MODULE MCSocksProxy -----------------------------
(* Instances of SocksProxy for TLC. *)
EXTENDS SocksProxy, TLC

\* Connections and proxy tasks are interchangeable in every safety property.
Symmetry == Permutations(Conns) \cup Permutations(Proxies)
==============================================================================
