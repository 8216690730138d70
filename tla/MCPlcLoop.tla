----------------------------- MODULE MCPlcLoop -----------------------------
(***************************************************************************)
(* The instance of the PLC's loop for TLC: two places and three masters,   *)
(* the gateway among them, and a stall of more than two periods.           *)
(***************************************************************************)
EXTENDS PlcLoop
=============================================================================
