---------------------------- MODULE MCHandshake ----------------------------
(***************************************************************************)
(* Instances of the handshake for TLC.  The belt's and the cell's physics  *)
(* are cut to the shortest that is still there: what the handshake sees of *)
(* the machines is running or not, idle or not.                            *)
(***************************************************************************)
EXTENDS Handshake

MCDuration == [HOMING |-> 1, LOADING |-> 1, RUNNING |-> 1, UNLOADING |-> 1]
============================================================================
