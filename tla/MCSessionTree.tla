--------------------------- MODULE MCSessionTree ----------------------------
(* One agent and its sessions for TLC.  The bounds are in the .cfg files. *)
EXTENDS SessionTree
=============================================================================
