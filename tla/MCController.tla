---------------------------- MODULE MCController ----------------------------
(***************************************************************************)
(* The instance of the controller for TLC: one analogue signal and one     *)
(* that is not.  Values 0, 1 and 2 with a deadband of 2 have a move that   *)
(* is noise and two of them that add up to news.                           *)
(***************************************************************************)
EXTENDS Controller

MCOrder  == <<"position", "running">>
MCValues == [position |-> {0, 1, 2}, running |-> {0}]
============================================================================
