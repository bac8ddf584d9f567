---------------------------- MODULE MCMessageStream ----------------------------
(* Values for the constants of MessageStream. *)
EXTENDS MessageStream, TLC

\* The smallest MTU, the default, the largest whose frames fit, the next, and the largest.
SomeMtus == {576, 1400, 1412, 1413, 1500}
UsualMtu == {1400}
WideMtu == {1500}
=============================================================================
