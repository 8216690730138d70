------------------------------- MODULE MCPlc -------------------------------
(***************************************************************************)
(* Instances of the PLC for TLC.                                           *)
(***************************************************************************)
EXTENDS Plc

(* The unit of speed is fine enough that the longest ramp still moves the  *)
(* belt in every scan, as the code's float does; SpeedSettles needs it.    *)
ASSUME FineEnough == RampMax <= MaxSpeed

\* The durations of plc/__main__.py, 0.3 s each, cut down to a few scans.
MCDuration ==
  [HOMING |-> 2, LOADING |-> 1, RUNNING |-> 2, UNLOADING |-> 1]

\* Shorter than, inside and longer than the clamp, and zero.
MCRamps == {0, 2, 9}

\* An acknowledgement of a command that was not carried out.
MCForged == {[seq |-> 1, result |-> "OK"]}

\* Floats as the register can hold them.
MCRampsNaN == {1, NaN}
============================================================================
