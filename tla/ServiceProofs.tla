--------------------------- MODULE ServiceProofs ---------------------------
(***************************************************************************)
(* What CommandService promises, for any number of clients and of calls.   *)
(***************************************************************************)
EXTENDS CommandService, TLAPS

Results == Answers \cup {"None", "Contended", "Timeout", "Failed", "Lost"}

ServiceTypeOK ==
  /\ phase \in [Clients -> {"idle", "asked", "posted"}]
  /\ ticket \in [Clients -> Nat]
  /\ told \in [Clients -> Results]
  /\ tickets \in Nat
  /\ mailbox \in Nat
  /\ taken \subseteq Nat

\* Tickets are handed out one by one, and none is known before it is.
Numbered ==
  /\ \A c \in Clients : ticket[c] <= tickets
  /\ \A a, b \in Clients : ticket[a] = ticket[b] /\ ticket[a] # Nobody => a = b
  /\ mailbox <= tickets
  /\ \A t \in taken : t <= tickets

\* This call has sent nothing.
Unsent(c) == phase[c] = "asked" \/ (phase[c] = "idle" /\ told[c] = "Contended")

UnsentStaysOut ==
  \A c \in Clients :
    Unsent(c) => ticket[c] # Nobody /\ ticket[c] \notin taken /\ ticket[c] # mailbox

ServiceInv == ServiceTypeOK /\ Numbered /\ UnsentStaysOut

LEMMA ServiceInvInit == ServiceInit => ServiceInv
  BY DEF ServiceInit, ServiceInv, ServiceTypeOK, Numbered, UnsentStaysOut, Unsent,
         Results, Nobody

\* One case per action; each leaf needs the type, the numbering and what is unsent.
LEMMA ServiceInvStep ==
  ASSUME "Contended" \notin Answers, ServiceInv, [ServiceNext]_serviceVars
  PROVE  ServiceInv'
<1> USE DEF ServiceInv, ServiceTypeOK, Numbered, UnsentStaysOut, Unsent, Nobody
<1>1. CASE Take
  BY <1>1 DEF Take
<1>2. CASE Displace
  BY <1>2 DEF Displace
<1>3. CASE MachineRestarts
  BY <1>3 DEF MachineRestarts
<1>4. CASE ServiceRestarts
  BY <1>4 DEF ServiceRestarts, Results
<1>5. ASSUME NEW c \in Clients, Ask(c)
      PROVE  ServiceInv'
  BY <1>5 DEF Ask
<1>6. ASSUME NEW c \in Clients, DeclineCall(c)
      PROVE  ServiceInv'
  BY <1>6 DEF DeclineCall, Tell, Results
<1>7. ASSUME NEW c \in Clients, Post(c)
      PROVE  ServiceInv'
  BY <1>7 DEF Post
<1>8. ASSUME NEW c \in Clients, Answer(c)
      PROVE  ServiceInv'
  BY <1>8 DEF Answer, Tell, Results
<1>9. ASSUME NEW c \in Clients, NoAnswer(c)
      PROVE  ServiceInv'
  BY <1>9 DEF NoAnswer, Tell, Results
<1>10. CASE UNCHANGED serviceVars
  BY <1>10 DEF serviceVars
<1>11. QED
  BY <1>1, <1>2, <1>3, <1>4, <1>5, <1>6, <1>7, <1>8, <1>9, <1>10 DEF ServiceNext

(* A refused call has not been taken and never will be: what the status of *)
(* a contended call is worth (server.py, CONTENDED_STATUS), for any number *)
(* of clients and through restarts of both sides.                          *)
THEOREM RefusedIsNeverTaken ==
  ASSUME "Contended" \notin Answers
  PROVE  ServiceSpec => []RefusedNeverTaken
<1>1. ServiceInv => RefusedNeverTaken
  BY DEF ServiceInv, UnsentStaysOut, Unsent, RefusedNeverTaken
<1>2. ServiceInv /\ [ServiceNext]_serviceVars => ServiceInv'
  BY ServiceInvStep
<1>3. QED
  BY ServiceInvInit, <1>1, <1>2, PTL DEF ServiceSpec
=============================================================================
