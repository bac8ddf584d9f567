--------------------------- MODULE MCNodeServer ---------------------------
(***************************************************************************)
(* Instances of NodeServer for TLC.                                        *)
(***************************************************************************)
EXTENDS NodeServer

\* No limit (also for a negative number), one session in the main thread, and
\* two in threads of their own.
MCAsked == {-1, 0, 1, 2}
=============================================================================
