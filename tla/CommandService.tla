--------------------------- MODULE CommandService ---------------------------
(***************************************************************************)
(* What the gateway's command methods promise a client, with no registers, *)
(* sequence numbers or scans in it.                                        *)
(*                                                                         *)
(* A call gets a ticket.  It may be refused before anything is sent.  Once *)
(* it is posted there is one mailbox, where a later command displaces an   *)
(* earlier one, and the machine takes a ticket from it at most once in its *)
(* life.  An answer proves that the ticket was taken when the gateway is   *)
(* the machine's only master and serves one call at a time (Exclusive);    *)
(* otherwise it proves only that the call was posted.                      *)
(***************************************************************************)
EXTENDS Integers

CONSTANTS
  Clients,     \* calls that may be in progress at the same time
  Answers,     \* what the machine may answer to a command
  MaxTickets,  \* bound: calls in a behaviour
  Exclusive    \* one master, one call at a time

VARIABLES
  phase,       \* of each call: idle, asked, posted
  ticket,      \* of each call
  told,        \* the last result of each client
  tickets,     \* tickets handed out
  mailbox,     \* the ticket that waits for the machine, or Nobody
  taken        \* the tickets the machine has taken since it started

serviceVars == <<phase, ticket, told, tickets, mailbox, taken>>

Nobody == 0

ServiceInit ==
  /\ phase   = [c \in Clients |-> "idle"]
  /\ ticket  = [c \in Clients |-> Nobody]
  /\ told    = [c \in Clients |-> "None"]
  /\ tickets = 0
  /\ mailbox = Nobody
  /\ taken   = {}

Tell(c, result) ==
  /\ phase' = [phase EXCEPT ![c] = "idle"]
  /\ told'  = [told EXCEPT ![c] = result]
  /\ UNCHANGED <<ticket, tickets, mailbox, taken>>

Ask(c) ==
  /\ phase[c] = "idle"
  /\ tickets < MaxTickets
  /\ tickets' = tickets + 1
  /\ ticket'  = [ticket EXCEPT ![c] = tickets + 1]
  /\ phase'   = [phase EXCEPT ![c] = "asked"]
  /\ UNCHANGED <<told, mailbox, taken>>

\* Nothing was sent, and nothing will be.
DeclineCall(c) == phase[c] = "asked" /\ Tell(c, "Contended")

\* In the mailbox once more, unless the machine has taken it or never will.
Post(c) ==
  /\ phase[c] \in {"asked", "posted"}
  /\ phase' = [phase EXCEPT ![c] = "posted"]
  /\ \/ ticket[c] \notin taken /\ mailbox' = ticket[c]
     \/ mailbox' = Nobody
  /\ UNCHANGED <<ticket, told, tickets, taken>>

Take ==
  /\ mailbox # Nobody
  /\ mailbox \notin taken
  /\ taken'   = taken \cup {mailbox}
  /\ mailbox' = Nobody
  /\ UNCHANGED <<phase, ticket, told, tickets>>

\* Somebody else's command takes its place.
Displace ==
  /\ mailbox' = Nobody
  /\ UNCHANGED <<phase, ticket, told, tickets, taken>>

Answer(c) ==
  /\ phase[c] = "posted"
  /\ Exclusive => ticket[c] \in taken
  /\ \E result \in Answers : Tell(c, result)

NoAnswer(c) ==
  \/ phase[c] = "posted" /\ Tell(c, "Timeout")
  \/ phase[c] # "idle" /\ Tell(c, "Failed")

MachineRestarts ==
  /\ mailbox' = Nobody
  /\ taken'   = {}
  /\ UNCHANGED <<phase, ticket, told, tickets>>

ServiceRestarts ==
  /\ phase' = [c \in Clients |-> "idle"]
  /\ told'  = [c \in Clients |-> IF phase[c] = "idle" THEN told[c] ELSE "Lost"]
  /\ UNCHANGED <<ticket, tickets, mailbox, taken>>

ServiceNext ==
  \/ Take \/ Displace \/ MachineRestarts \/ ServiceRestarts
  \/ \E c \in Clients :
       Ask(c) \/ DeclineCall(c) \/ Post(c) \/ Answer(c) \/ NoAnswer(c)

ServiceSpec == ServiceInit /\ [][ServiceNext]_serviceVars

----------------------------------------------------------------------------
(* What a refusal is worth (server.py, CONTENDED_STATUS: "the command was  *)
(* not sent"): the machine has not taken a refused call and never will, so *)
(* the client may simply call again.                                       *)
RefusedNeverTaken ==
  \A c \in Clients :
    phase[c] = "idle" /\ told[c] = "Contended" =>
      ticket[c] \notin taken /\ ticket[c] # mailbox
=============================================================================
