----------------------------- MODULE MCGateway -----------------------------
(***************************************************************************)
(* Instances of the gateway for TLC: two writable signals and the state    *)
(* signal stand for the contract's five.                                   *)
(***************************************************************************)
EXTENDS Gateway

MCOrder == <<"setpoint", "ramp", "cnc">>
MCWords == [setpoint |-> {"s0", "s1", "s2"}, ramp |-> {"r0", "r1"},
            cnc |-> {"idle", "homing", "undeclared"}]
MCBoot  == [setpoint |-> "s0", ramp |-> "r0", cnc |-> "idle"]

To(s, v) == [signal |-> s, value |-> v]

\* What this repository's client sends (DeviceController.write_setpoint):
\* one value per request, its type from the contract.
MCSingles ==
  { <<To("setpoint", "s1")>>, <<To("setpoint", "s2")>>, <<To("ramp", "r1")>>,
    <<To("setpoint", "tooLarge")>> }

\* What any OPC UA client may send: a wrong type.
MCMistyped == { <<To("setpoint", "s1")>>, <<To("setpoint", "mistyped")>> }
============================================================================
