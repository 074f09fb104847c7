-------------------------------- MODULE D1Udp ---------------------------------
(*****************************************************************************)
(* d1_udp.c: stop-and-wait transfer over UDP with a one-bit sequence number, *)
(* as the client of d1_test_client.c uses it, and a server that follows the  *)
(* rules d1_udp.h states for both ends.  The server is a binary in the       *)
(* repository: its definitions are external, the least the client relies on. *)
(*                                                                           *)
(* One step of the client is the handling of one packet, or the sending of   *)
(* one: d1_wait_ack and d1_recv_data block in recvfrom, without a timeout.   *)
(* Their recursion (a resend, another receive) is the client staying in the  *)
(* same place of its program.                                                *)
(*                                                                           *)
(* Simplifications: a direction of the network is a queue, packets are not   *)
(* reordered; a payload is the number of the call that sends it; the         *)
(* checksum finds any damage to a data packet, as the XOR of its words does  *)
(* for a damaged bit; a datagram is whole.                                   *)
(*                                                                           *)
(* A definition named Mutant... is a plausible bug: what the definition that *)
(* follows it would be if the code were wrong.                               *)
(*****************************************************************************)
EXTENDS Naturals, Sequences, SequencesExt

CONSTANTS
    Script,      \* the client program: a sequence of "send" and "recv"
    Faults,      \* what may go wrong, a subset of FaultKinds
    MaxFaults    \* bound on how often

FaultKinds == {"lose", "duplicate", "damage", "flip_seqno", "damage_ack", "late", "socket"}

ASSUME D1Assumption ==
    /\ Script \in Seq({"send", "recv"})
    /\ Faults \subseteq FaultKinds
    /\ MaxFaults \in Nat

VARIABLES
    to_server, to_client,  \* the two directions of the network
    next_seqno,            \* of the client's D1Peer
    pc,                    \* where the client is
    step,                  \* the call of the script it is in, or comes to next
    returned_ok,           \* the sends that returned a positive value
    received,              \* the payloads d1_recv_data returned
    expected_seqno,        \* server: of the next new data packet
    accepted,              \* server: the payloads it has taken
    server_seqno,          \* server: of its own next data packet
    outbox,                \* server: answers not acknowledged, the first one sent
    faults                 \* how often something went wrong, and whether data
                           \* or a sequence number was damaged

client == <<next_seqno, pc, step, returned_ok, received>>
server == <<expected_seqno, accepted, server_seqno, outbox>>
vars == <<to_server, to_client, client, server, faults>>

-------------------------------------------------------------------------------
(* Packets *)

Calls == DOMAIN Script

Bit == {0, 1}

Flip(bit) == 1 - bit

\* damage is what the network did to the packet.
Packet ==
    [type : {"DATA", "ACK"}, seqno : Bit, payload : Calls \cup {0},
     damage : {"none", "data", "seqno", "size"}]

Data(seqno, payload) ==
    [type |-> "DATA", seqno |-> seqno, payload |-> payload, damage |-> "none"]

Ack(seqno) == [type |-> "ACK", seqno |-> seqno, payload |-> 0, damage |-> "none"]

\* compute_checksum: d1_recv_data finds the size or the checksum wrong.
Intact(packet) == packet.damage = "none"

Init ==
    /\ to_server = <<>> /\ to_client = <<>>
    /\ next_seqno = 0
    /\ pc = "start"
    /\ step = 1
    /\ returned_ok = {}
    /\ received = <<>>
    /\ expected_seqno = 0 /\ server_seqno = 0
    /\ accepted = <<>>
    /\ outbox = <<>>
    /\ faults = [number |-> 0, damaged |-> FALSE]

\* Something goes wrong; damages: to data or a sequence number.
OneMoreFault(damages) ==
    /\ faults.number < MaxFaults
    /\ faults' = [number |-> faults.number + 1, damaged |-> faults.damaged \/ damages]

Fault(kind) == kind \in Faults /\ OneMoreFault(FALSE)

-------------------------------------------------------------------------------
(* The client *)

\* The script's next call is op.
Calling(op) == pc = "ready" /\ Script[step] = op

Return ==
    /\ step' = step + 1
    /\ pc' = IF step = Len(Script) THEN "done" ELSE "ready"

\* d1_create_client and d1_get_peer_info, which may not find the name.
Start ==
    /\ pc = "start"
    /\ pc' \in {IF Script = <<>> THEN "done" ELSE "ready", "aborted"}
    /\ UNCHANGED <<to_server, to_client, next_seqno, step, returned_ok, received,
                   server, faults>>

\* d1_send_data up to its call of d1_wait_ack.
SendData ==
    /\ Calling("send")
    /\ to_server' = Append(to_server, Data(next_seqno, step))
    /\ pc' = "wait_ack"
    /\ UNCHANGED <<to_client, next_seqno, step, returned_ok, received, server, faults>>

\* sendto fails: d1_send_data returns -1 and the program gives up.
SendFails ==
    /\ Calling("send")
    /\ Fault("socket")
    /\ pc' = "aborted"
    /\ UNCHANGED <<to_server, to_client, next_seqno, step, returned_ok, received, server>>

SendReturnsOk ==
    /\ returned_ok' = returned_ok \cup {step}
    /\ Return

\* d1_wait_ack takes the next packet.
Waiting(packet) ==
    /\ pc = "wait_ack"
    /\ to_client # <<>>
    /\ packet = Head(to_client)
    /\ to_client' = Tail(to_client)

\* An ACK of the right size; its checksum is not looked at.
IsAck(packet) == packet.type = "ACK" /\ packet.damage # "size"

\* The ACK is taken for the one that is waited for whatever it acknowledges.
MutantAcknowledges(packet) == packet.seqno \in Bit

Acknowledges(packet) == packet.seqno = next_seqno

AckReceived ==
    /\ \E packet \in Packet :
          Waiting(packet) /\ IsAck(packet) /\ Acknowledges(packet)
    /\ next_seqno' = Flip(next_seqno)
    /\ SendReturnsOk
    /\ UNCHANGED <<to_server, received, server, faults>>

\* The sequence number is advanced before it is compared.
MutantWrongAck ==
    /\ \E packet \in Packet :
          Waiting(packet) /\ IsAck(packet) /\ ~Acknowledges(packet)
    /\ to_server' = Append(to_server, Data(Flip(next_seqno), step))
    /\ next_seqno' = Flip(next_seqno)
    /\ UNCHANGED <<pc, step, returned_ok, received, server, faults>>

\* d1_wait_ack calls d1_send_data again.
WrongAck ==
    /\ \E packet \in Packet :
          Waiting(packet) /\ IsAck(packet) /\ ~Acknowledges(packet)
    /\ to_server' = Append(to_server, Data(next_seqno, step))
    /\ UNCHANGED <<next_seqno, pc, step, returned_ok, received, server, faults>>

\* The sendto of that call fails.  Its -1 is not 0, so the first d1_send_data
\* returns the number of bytes it sent.
ResendFails ==
    /\ Fault("socket")
    /\ \E packet \in Packet :
          Waiting(packet) /\ IsAck(packet) /\ ~Acknowledges(packet)
    /\ SendReturnsOk
    /\ UNCHANGED <<to_server, next_seqno, received, server>>

\* A data packet that arrives instead is acknowledged and dropped.
MutantNoAck ==
    /\ \E packet \in Packet :
          /\ Waiting(packet) /\ ~IsAck(packet)
          /\ to_server' = IF packet.type = "DATA"
                             THEN Append(to_server, Ack(packet.seqno)) ELSE to_server
    /\ SendReturnsOk
    /\ UNCHANGED <<next_seqno, received, server, faults>>

\* d1_wait_ack returns -1, which is not 0 either.
NoAck ==
    /\ \E packet \in Packet : Waiting(packet) /\ ~IsAck(packet)
    /\ SendReturnsOk
    /\ UNCHANGED <<to_server, next_seqno, received, server, faults>>

\* So it does when recvfrom fails.
WaitFails ==
    /\ Fault("socket")
    /\ pc = "wait_ack"
    /\ SendReturnsOk
    /\ UNCHANGED <<to_server, to_client, next_seqno, received, server>>

\* d1_recv_data takes the next packet.
Receiving(packet) ==
    /\ Calling("recv")
    /\ to_client # <<>>
    /\ packet = Head(to_client)
    /\ to_client' = Tail(to_client)

\* The checksum and the size are not compared.
MutantRecvData ==
    /\ \E packet \in Packet :
          /\ Receiving(packet) /\ packet.type = "DATA"
          /\ received' = Append(received, packet.payload)
          /\ to_server' = Append(to_server, Ack(packet.seqno))
    /\ Return
    /\ UNCHANGED <<next_seqno, returned_ok, server, faults>>

RecvData ==
    /\ \E packet \in Packet :
          /\ Receiving(packet) /\ packet.type = "DATA" /\ Intact(packet)
          /\ received' = Append(received, packet.payload)
          /\ to_server' = Append(to_server, Ack(packet.seqno))
    /\ Return
    /\ UNCHANGED <<next_seqno, returned_ok, server, faults>>

\* The opposite of the packet's SEQNO is acknowledged, and d1_recv_data calls
\* itself.
RecvDamaged ==
    /\ \E packet \in Packet :
          /\ Receiving(packet) /\ packet.type = "DATA" /\ ~Intact(packet)
          /\ to_server' = Append(to_server, Ack(Flip(packet.seqno)))
    /\ UNCHANGED <<client, server, faults>>

\* d1_recv_data returns -1 and the program gives up.
RecvNotData ==
    /\ \E packet \in Packet : Receiving(packet) /\ packet.type # "DATA"
    /\ pc' = "aborted"
    /\ UNCHANGED <<to_server, next_seqno, step, returned_ok, received, server, faults>>

\* So it does when recvfrom fails.
RecvFails ==
    /\ Fault("socket")
    /\ Calling("recv")
    /\ pc' = "aborted"
    /\ UNCHANGED <<to_server, to_client, next_seqno, step, returned_ok, received, server>>

Client ==
    \/ Start
    \/ SendData
    \/ AckReceived \/ WrongAck \/ NoAck
    \/ RecvData \/ RecvDamaged \/ RecvNotData

SocketFails == SendFails \/ ResendFails \/ WaitFails \/ RecvFails

-------------------------------------------------------------------------------
(* The server (external) *)

\* The client receives after this call: the server answers the payload.
Answered(call) == call + 1 \in Calls /\ Script[call + 1] = "recv"

\* The packets that carry the first answer of box, if there is one.
Answer(seqno, box) == IF box = <<>> THEN <<>> ELSE <<Data(seqno, Head(box))>>

Serving(packet) ==
    /\ to_server # <<>>
    /\ packet = Head(to_server)
    /\ to_server' = Tail(to_server)

\* A new payload: acknowledged, taken and, if the client expects it, answered.
ServerAccepts ==
    /\ \E packet \in Packet :
          /\ Serving(packet) /\ packet.type = "DATA" /\ Intact(packet)
          /\ packet.seqno = expected_seqno
          /\ accepted' = Append(accepted, packet.payload)
          /\ outbox' = IF Answered(packet.payload) THEN Append(outbox, packet.payload)
                                                   ELSE outbox
          /\ to_client' = to_client \o <<Ack(packet.seqno)>>
                              \o IF outbox = <<>> THEN Answer(server_seqno, outbox') ELSE <<>>
    /\ expected_seqno' = Flip(expected_seqno)
    /\ UNCHANGED <<client, server_seqno, faults>>

\* A payload it has already: acknowledged again.
ServerIgnores ==
    /\ \E packet \in Packet :
          /\ Serving(packet) /\ packet.type = "DATA" /\ Intact(packet)
          /\ packet.seqno # expected_seqno
          /\ to_client' = Append(to_client, Ack(packet.seqno))
    /\ UNCHANGED <<client, server, faults>>

ServerRefuses ==
    /\ \E packet \in Packet :
          /\ Serving(packet) /\ packet.type = "DATA" /\ ~Intact(packet)
          /\ to_client' = Append(to_client, Ack(Flip(packet.seqno)))
    /\ UNCHANGED <<client, server, faults>>

\* The ACK of the answer that is out: the next one is sent.
ServerAcked ==
    /\ outbox # <<>>
    /\ \E packet \in Packet :
          Serving(packet) /\ packet.type = "ACK" /\ Intact(packet)
                          /\ packet.seqno = server_seqno
    /\ outbox' = Tail(outbox)
    /\ server_seqno' = Flip(server_seqno)
    /\ to_client' = to_client \o Answer(server_seqno', outbox')
    /\ UNCHANGED <<client, expected_seqno, accepted, faults>>

\* Any other ACK: the answer that is out, if there is one, is sent again.
ServerResends ==
    /\ \E packet \in Packet :
          /\ Serving(packet) /\ packet.type = "ACK"
          /\ outbox = <<>> \/ ~Intact(packet) \/ packet.seqno # server_seqno
    /\ to_client' = to_client \o Answer(server_seqno, outbox)
    /\ UNCHANGED <<client, server, faults>>

Server == ServerAccepts \/ ServerIgnores \/ ServerRefuses \/ ServerAcked \/ ServerResends

-------------------------------------------------------------------------------
(* What goes wrong (external) *)

\* The server resends its answer after a second, although it is not lost.
ServerTimeout ==
    /\ Fault("late")
    /\ outbox # <<>>
    /\ to_client' = to_client \o Answer(server_seqno, outbox)
    /\ UNCHANGED <<to_server, client, server>>

Damaged(packet, kind) ==
    [packet EXCEPT !.damage = kind,
                   !.payload = IF kind = "data" THEN 0 ELSE @,
                   !.seqno = IF kind = "seqno" THEN Flip(@) ELSE @]

\* What may become of a packet on its way.
Outcomes(packet) ==
    {<<>> : k \in Faults \cap {"lose"}}
    \cup {<<packet, packet>> : k \in Faults \cap {"duplicate"}}
    \cup {<<Damaged(packet, "seqno")>> : k \in Faults \cap {"flip_seqno"}}
    \cup {<<Damaged(packet, "data")>> : k \in {"damage"} \cap
             IF packet.type = "DATA" THEN Faults ELSE {}}
    \cup {<<Damaged(packet, "size")>> : k \in {"damage_ack"} \cap
             IF packet.type = "ACK" THEN Faults ELSE {}}

\* It happens to the packet that is next to arrive.
Hit(queue, outcome) ==
    /\ OneMoreFault(outcome # <<>> /\ outcome[1].damage \in {"data", "seqno"})
    /\ queue' = outcome \o Tail(queue)

Network ==
    /\ \/ /\ to_server # <<>> /\ Intact(Head(to_server))
          /\ \E outcome \in Outcomes(Head(to_server)) : Hit(to_server, outcome)
          /\ UNCHANGED to_client
       \/ /\ to_client # <<>> /\ Intact(Head(to_client))
          /\ \E outcome \in Outcomes(Head(to_client)) : Hit(to_client, outcome)
          /\ UNCHANGED to_server
    /\ UNCHANGED <<client, server>>

-------------------------------------------------------------------------------
Next == Client \/ SocketFails \/ Server \/ ServerTimeout \/ Network

Spec == Init /\ [][Next]_vars

\* The client handles what has arrived, and so does the server; neither has to
\* be given a packet that does not exist.
FairSpec == Spec /\ WF_vars(Client) /\ WF_vars(Server)

-------------------------------------------------------------------------------
(* Properties *)

\* d1_udp.h:49-53: d1_send_data blocks until it has the correct ACK, so what it
\* reports as sent has been taken by the server; here it is enough if a packet
\* with it is still on its way.
SuccessMeansAccepted ==
    \A call \in returned_ok :
        \/ Contains(accepted, call)
        \/ \E i \in DOMAIN to_server :
              to_server[i].type = "DATA" /\ to_server[i].payload = call

\* d1_udp.h:125-126: the ACK of a damaged packet makes its sender retransmit.
\* The server does not drop an answer before the client has it, whether it was
\* lost, sent twice or taken by d1_wait_ack, which does not want it; unless a
\* packet was damaged: d1_recv_data computes its ACK from the damaged packet's
\* own SEQNO, which may be what was damaged, or that of an older packet.
NoAnswerLost ==
    \A i \in DOMAIN accepted :
        Answered(accepted[i]) /\ ~faults.damaged
            => Contains(outbox, accepted[i]) \/ Contains(received, accepted[i])

\* Stop and wait: when d1_send_data is called no packet is left over for the
\* client, and both ends agree on the number the next packet will have.
SeqnosAgree ==
    Calling("send") => to_client = <<>> /\ next_seqno = expected_seqno

\* Whatever is lost, damaged or sent again, sequence numbers included:
\* d1_wait_ack's resends never make the server take a payload twice, or one
\* that was sent before a payload it has taken; and d1_recv_data, which does
\* not compare the SEQNO, may return an answer again, but no damaged one, and
\* none after a later one.
AcceptedOnceInOrder ==
    /\ \A i, j \in DOMAIN accepted : i < j => accepted[i] < accepted[j]
    /\ \A i \in DOMAIN received : Contains(accepted, received[i])
    /\ \A i, j \in DOMAIN received : i < j => received[i] <= received[j]

\* The packets, sequence numbers and resends amount to D1Service: every call of
\* the program returns, each payload is taken once, in order, before its send
\* returns, and its answer is received once.
Service == INSTANCE D1Service WITH connected <- pc \notin {"start", "aborted"}

ImplementsD1Service == Service!Spec

===============================================================================
