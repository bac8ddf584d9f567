--------------------------- MODULE MCSocksStreams ---------------------------
(* Instances of SocksStreams for TLC. *)
EXTENDS SocksStreams, TLC

Symmetry == Permutations(Clients) \cup Permutations(Nodes)
=============================================================================
