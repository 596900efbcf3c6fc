--------------------------- MODULE MCDaemonTurns ---------------------------
(***************************************************************************)
(* Two clients of one session, three commands, turns of at most one event  *)
(* before the TurnComplete, and one milestone driven after each.           *)
(***************************************************************************)
EXTENDS DaemonTurns

CONSTANTS c1, c2
=============================================================================
