--------------------------- MODULE MCTapHubHistory --------------------------
(* Small instances of TapHub and its history for TLC. *)
EXTENDS TapHubHistory, TLC

Cfg(client, ttl, netLimit, l2) ==
    [client |-> client, ttl |-> ttl, netLimit |-> netLimit, sessLimit |-> 1,
     maxMac |-> 1, c2c |-> FALSE, l2 |-> l2]

\* Clients that are kept apart, and nodes that may not send L2 control frames.
\* Each session may send one flooded frame a second, the network two.
PolicyConfigs == {Cfg(TRUE, 1, 2, TRUE), Cfg(FALSE, 1, 2, FALSE)}

\* An idle address is soon forgotten, or not.
MoveConfigs == {Cfg(FALSE, 1, 1, TRUE), Cfg(FALSE, 9, 1, TRUE)}

FdSymmetry == Permutations(Fds)
Symmetry == Permutations(Fds) \cup Permutations(Networks)
=============================================================================
