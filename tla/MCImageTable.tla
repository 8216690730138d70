---------------------------- MODULE MCImageTable ----------------------------
(***************************************************************************)
(* The instance of the image tables for TLC: bytes that count to two, so a *)
(* register holds 0..3, and contracts of three signals and the two blocks  *)
(* crowded into a few addresses, in every order of the file.               *)
(***************************************************************************)
EXTENDS ImageTable

Setpoint(addr, type) ==
  [name |-> "setpoint", table |-> "holding", addr |-> addr, type |-> type, scale |-> 2,
   variable |-> TRUE, states |-> FALSE]

Ramp(addr) ==
  [name |-> "ramp", table |-> "holding", addr |-> addr, type |-> "float32", scale |-> 1,
   variable |-> TRUE, states |-> FALSE]

Position(table, addr, type) ==
  [name |-> "position", table |-> table, addr |-> addr, type |-> type, scale |-> 1,
   variable |-> TRUE, states |-> FALSE]

File(signals, command, ack, word, byte) ==
  [signals |-> signals, word_order |-> word, byte_order |-> byte,
   command |-> [base |-> command, size |-> 2], ack |-> [base |-> ack, size |-> 1]]

\* Where things may lie: before, inside, up against and behind each other.
Layouts ==
  {File(<<Setpoint(a, "uint16"), Ramp(b), Position("holding", p, "int16")>>,
        c, k, "high_first", "big") :
     a \in {0, 2, 4}, b \in {0, 1, 3}, p \in {2, 5, 6}, c \in {3, 5, 7}, k \in {2, 9}}

\* The word and byte orders, the types, and a table of the PLC's own.
Orders ==
  {File(<<Ramp(3), Position(t, 1, type), Setpoint(1, "uint16")>>, 5, 7, word, byte) :
     t \in {"input", "coil"}, type \in {"int32", "uint32", "bool", "real"},
     word \in {"high_first", "low_first", "middle"}, byte \in {"big", "little"}}

Faulty ==
  {File(<<Ramp(0), Ramp(2)>>, 5, 7, "high_first", "big"),
   File(<<Ramp(0), [Setpoint(2, "int16") EXCEPT !.states = TRUE]>>, 5, 7,
        "high_first", "big")}

MCContracts == Layouts \cup Orders \cup Faulty

\* Fitting and not, even and odd multiples of half a unit, and bytes that
\* differ from each other: 6 is 0110 and 13 is 1101.
MCValues ==
  [setpoint |-> {1, 3, 6, 7}, ramp |-> {6, 13}, position |-> {-3, 1, 2}]

MCCommands == {<<1, 2>>}

MCForeign ==
  [fc : {6}, addr : {0, 1, 3}, words : {<<3>>}]
    \cup [fc : {16}, addr : {0, 4, 6}, words : {<<3, 3>>, <<3, 3, 3>>}]
    \cup [fc : {3, 4, 5, 43}, addr : {1}, words : {<<1>>}]
    \cup [fc : {3}, addr : {8}, words : {<<1>>}]
    \cup [fc : {23}, addr : {1, 6}, words : {<<3>>, <<3, 3>>}]
=============================================================================
