---------------------------- MODULE D1Udp_proofs -----------------------------
(*****************************************************************************)
(* Proofs about the D1 transport, for every script of calls, any number of   *)
(* faults and queues of any length.                                          *)
(*                                                                           *)
(* Whatever the network and the sockets do, the server takes payloads once   *)
(* and in order, and the client receives their answers in order: packets are *)
(* lost, copied and damaged, but those that arrive whole arrive in the order *)
(* in which they were sent, and a resend has the number of the first send    *)
(* (OrderInv).  While no data was damaged no answer is dropped by the        *)
(* server: what carries the number of the answer that is out is the last     *)
(* part of one stream, the acknowledgements followed by the answers they     *)
(* will acknowledge (AckedOK).  While the network does no worse than damage  *)
(* data there is one packet at a time (SessionOK), the sequence numbers      *)
(* agree, and every step is a step of D1Service or leaves its state alone.   *)
(*****************************************************************************)
EXTENDS D1Udp, SequenceTheorems, TLAPS

\* What a packet carries; 0 is that of an acknowledgement and of damaged data.
Payloads == Calls \cup {0}

\* The packets of one type in a queue that nothing has happened to.
Whole(type, queue) == {i \in DOMAIN queue : queue[i].type = type /\ Intact(queue[i])}

\* The data packets that arrive whole if nothing more happens.
Genuine(queue) == Whole("DATA", queue)

\* So the acknowledgements.
Acks(queue) == Whole("ACK", queue)

\* Types; a call of the script is running in ready and wait_ack.
D1TypeOK ==
    /\ to_server \in Seq(Packet) /\ to_client \in Seq(Packet)
    /\ next_seqno \in Bit /\ expected_seqno \in Bit /\ server_seqno \in Bit
    /\ pc \in {"start", "ready", "wait_ack", "done", "aborted"}
    /\ step \in Nat \ {0}
    /\ pc = "start" => step = 1
    /\ pc \in {"ready", "wait_ack"} => step \in Calls
    /\ accepted \in Seq(Payloads) /\ received \in Seq(Payloads) /\ outbox \in Seq(Payloads)
    /\ faults \in [number : Nat, damaged : BOOLEAN]

\* The client's data in queue, on the way to a server that has taken the
\* payloads taken and expects expected, when the client has come to call with
\* the sequence number seqno; begun: it has sent the call's payload.
SendingIn(queue, taken, expected, call, seqno, begun) ==
    /\ \A i, j \in Genuine(queue) : i <= j =>
          /\ queue[i].payload <= queue[j].payload
          /\ queue[i].payload = queue[j].payload => queue[i].seqno = queue[j].seqno
    /\ \A i \in Genuine(queue), n \in DOMAIN taken :
          /\ taken[n] <= queue[i].payload
          /\ taken[n] = queue[i].payload => queue[i].seqno # expected
    /\ \A i \in Genuine(queue) :
          /\ queue[i].payload <= call
          /\ queue[i].payload = call => begun /\ queue[i].seqno = seqno
    /\ \A n \in DOMAIN taken :
          /\ taken[n] <= call
          /\ taken[n] = call => begun /\ seqno # expected

\* The client's data as they are.
SendingOK ==
    SendingIn(to_server, accepted, expected_seqno, step, next_seqno,
              pc \notin {"start", "ready"})

\* No payload is taken twice or behind a later one.
Growing(taken) == \A i, j \in DOMAIN taken : i < j => taken[i] < taken[j]

AcceptedGrows == Growing(accepted)

\* The answers in queue, on the way to a client that has received got, from a
\* server that has taken the payloads taken and keeps box.
AnswersIn(queue, taken, box, got) ==
    /\ \A i, j \in Genuine(queue) : i <= j => queue[i].payload <= queue[j].payload
    /\ \A i \in Genuine(queue) : /\ Contains(taken, queue[i].payload)
                                 /\ \A m \in DOMAIN got : got[m] <= queue[i].payload
                                 /\ \A n \in DOMAIN box : queue[i].payload <= box[n]
    /\ \A n \in DOMAIN box : /\ Contains(taken, box[n])
                             /\ \A m \in DOMAIN got : got[m] <= box[n]
                             /\ \A l \in DOMAIN box : l <= n => box[l] <= box[n]
    /\ \A m \in DOMAIN got : /\ Contains(taken, got[m])
                             /\ \A l \in DOMAIN got : l <= m => got[l] <= got[m]

\* The server's answers as they are.
AnswersOK == AnswersIn(to_client, accepted, outbox, received)

\* The inductive invariant whatever goes wrong.
OrderInv == D1TypeOK /\ SendingOK /\ AcceptedGrows /\ AnswersOK

\* What an answer on its way, and the acknowledgement of one, say about the
\* answer that is out: the acknowledgements in up and the answers in down form
\* one stream, and those with the server's number seqno, its last part, belong
\* to the first of box.
AckedIn(up, down, seqno, box, got) ==
    /\ \A i, j \in Acks(up) : i <= j => (up[i].seqno = seqno => up[j].seqno = seqno)
    /\ \A i \in Acks(up), j \in Genuine(down) : up[i].seqno = seqno => down[j].seqno = seqno
    /\ \A i, j \in Genuine(down) : i <= j =>
          (down[i].seqno = seqno => down[j].seqno = seqno)
    /\ \A i \in Acks(up) : up[i].seqno = seqno => box # <<>> /\ Contains(got, box[1])
    /\ \A j \in Genuine(down) : down[j].seqno = seqno => box # <<>> /\ down[j].payload = box[1]

\* No answer on its way is damaged.
AnswersIntact(queue) == \A i \in DOMAIN queue : queue[i].type = "DATA" => Intact(queue[i])

\* Holds until data or a sequence number is damaged.
AckedOK ==
    /\ AnswersIntact(to_client)
    /\ AckedIn(to_server, to_client, server_seqno, outbox, received)

\* Every answer that is due is kept in box or has been received.
KeptIn(taken, box, got) ==
    \A i \in DOMAIN taken :
        Answered(taken[i]) => Contains(box, taken[i]) \/ Contains(got, taken[i])

\* What NoAnswerLost says as long as nothing was damaged.
AnswersKept == KeptIn(accepted, outbox, received)

\* The inductive invariant of NoAnswerLost.
AnswerInv == OrderInv /\ (~faults.damaged => AckedOK /\ AnswersKept)

\* What follows holds while the network does no worse than damage data, and
\* says of each place of the client what is on its way.

\* The server has the acknowledgement of its last answer, or will have it.
Settled ==
    \/ to_server = <<>> /\ outbox = <<>>
    \/ to_server = <<Ack(server_seqno)>> /\ Len(outbox) = 1

\* Nothing is left over for the client.
Quiet == to_client = <<>> /\ next_seqno = expected_seqno /\ Settled

\* A data packet as it was sent or as damage leaves it.
Versions(seqno, payload) == {Data(seqno, payload), Damaged(Data(seqno, payload), "data")}

\* The payload is on its way, perhaps behind the acknowledgement of an answer.
Upward ==
    /\ to_client = <<>> /\ next_seqno = expected_seqno
    /\ \E packet \in Versions(next_seqno, step) :
          \/ to_server = <<packet>> /\ outbox = <<>>
          \/ to_server = <<Ack(server_seqno), packet>> /\ Intact(packet) /\ Len(outbox) = 1

\* It arrived damaged.
Refused ==
    /\ to_client = <<Ack(Flip(next_seqno))>> /\ next_seqno = expected_seqno
    /\ to_server = <<>> /\ outbox = <<>>

\* The payload is the last one the server took.
LastAccepted(payload) == accepted # <<>> /\ accepted[Len(accepted)] = payload

\* It was taken, and its answer follows its acknowledgement.
TakenUp ==
    /\ next_seqno # expected_seqno /\ to_server = <<>> /\ LastAccepted(step)
    /\ IF Answered(step)
          THEN to_client = <<Ack(next_seqno), Data(server_seqno, step)>> /\ outbox = <<step>>
          ELSE to_client = <<Ack(next_seqno)>> /\ outbox = <<>>

\* The client is to receive the answer to its last payload.
Due ==
    /\ next_seqno = expected_seqno /\ LastAccepted(step - 1) /\ outbox = <<step - 1>>
    /\ \/ /\ to_server = <<>>
          /\ \E packet \in Versions(server_seqno, step - 1) : to_client = <<packet>>
       \/ to_client = <<>> /\ to_server = <<Ack(Flip(server_seqno))>>

\* What is on its way at each place of the client's program.
SessionOK ==
    /\ pc \in {"start", "done", "aborted"} => Quiet
    /\ pc = "ready" => Quiet \/ (Script[step] = "recv" /\ Due)
    /\ pc = "wait_ack" => Script[step] = "send" /\ (Upward \/ Refused \/ TakenUp)

\* The inductive invariant while the network only damages data.
SessionInv == OrderInv /\ SessionOK

-------------------------------------------------------------------------------
(* Queues *)

\* Packets of the type are in new in the order in which they are in old.
Follows(type, new, old) ==
    \A i, j \in Whole(type, new) : i <= j =>
        \E k, l \in Whole(type, old) : k <= l /\ new[i] = old[k] /\ new[j] = old[l]

\* So they are, but e may come behind them.
Grows(type, new, old, e) ==
    \A i, j \in Whole(type, new) : i <= j =>
        \/ \E k, l \in Whole(type, old) : k <= l /\ new[i] = old[k] /\ new[j] = old[l]
        \/ \E k \in Whole(type, old) : new[i] = old[k] /\ new[j] = e
        \/ new[i] = e /\ new[j] = e

\* What the constructors and damage make of a packet: a packet, and damage
\* shows.
LEMMA PacketTypes ==
    /\ \A s \in Bit : Flip(s) \in Bit /\ Flip(s) # s /\ Flip(Flip(s)) = s
    /\ \A s \in Bit, p \in Payloads : Data(s, p) \in Packet
    /\ \A s \in Bit : Ack(s) \in Packet
    /\ \A packet \in Packet, kind \in {"data", "seqno", "size"} :
          /\ Damaged(packet, kind) \in Packet
          /\ ~Intact(Damaged(packet, kind))
          /\ Damaged(packet, kind).type = packet.type
          /\ Damaged(packet, kind).damage = kind
<1>1. \A s \in Bit : Flip(s) \in Bit /\ Flip(s) # s /\ Flip(Flip(s)) = s
  BY DEF Flip, Bit
<1>2. \A s \in Bit, p \in Payloads : Data(s, p) \in Packet
  BY DEF Data, Packet, Payloads
<1>3. \A s \in Bit : Ack(s) \in Packet
  BY DEF Ack, Packet, Payloads
<1>4. ASSUME NEW packet \in Packet, NEW kind \in {"data", "seqno", "size"}
      PROVE  /\ Damaged(packet, kind) \in Packet
             /\ ~Intact(Damaged(packet, kind))
             /\ Damaged(packet, kind).type = packet.type
             /\ Damaged(packet, kind).damage = kind
  BY <1>1 DEF Damaged, Packet, Intact
<1>5. QED
  BY <1>1, <1>2, <1>3, <1>4

\* Taking the head of a queue shifts the rest by one place.
LEMMA TailQueue ==
    ASSUME NEW S, NEW q \in Seq(S), q # <<>>
    PROVE  /\ Tail(q) \in Seq(S) /\ Head(q) \in S
           /\ 1 \in DOMAIN q /\ Head(q) = q[1]
           /\ \A i \in DOMAIN Tail(q) : i \in Nat /\ i + 1 \in DOMAIN q /\ Tail(q)[i] = q[i + 1]
<1>1. Len(q) \in Nat /\ DOMAIN q = 1 .. Len(q) /\ Len(q) # 0
  BY EmptySeq, LenProperties
<1>2. /\ Tail(q) \in Seq(S) /\ Head(q) \in S /\ Len(Tail(q)) = Len(q) - 1
      /\ \A i \in 1 .. Len(Tail(q)) : Tail(q)[i] = q[i + 1]
  BY HeadTailProperties
<1>3. DOMAIN Tail(q) = 1 .. Len(q) - 1
  BY <1>2, LenProperties
<1>4. Head(q) = q[1]
  OBVIOUS
<1>5. QED
  BY <1>1, <1>2, <1>3, <1>4

\* Appending leaves the places of the queue as they are and adds one.
LEMMA AppendQueue ==
    ASSUME NEW S, NEW q \in Seq(S), NEW e \in S
    PROVE  /\ Append(q, e) \in Seq(S)
           /\ q \o <<e>> = Append(q, e)
           /\ DOMAIN Append(q, e) = DOMAIN q \cup {Len(q) + 1}
           /\ Append(q, e)[Len(q) + 1] = e
           /\ \A i \in DOMAIN q : i \in Nat /\ i < Len(q) + 1 /\ Append(q, e)[i] = q[i]
OBVIOUS

\* The packets behind the head are in the order in which they were.
LEMMA TailFollows ==
    ASSUME NEW type, NEW q \in Seq(Packet), q # <<>>
    PROVE  Follows(type, Tail(q), q)
<1> SUFFICES ASSUME NEW i \in Whole(type, Tail(q)), NEW j \in Whole(type, Tail(q)), i <= j
             PROVE  \E k, l \in Whole(type, q) :
                       k <= l /\ Tail(q)[i] = q[k] /\ Tail(q)[j] = q[l]
    BY DEF Follows
<1>1. /\ i \in Nat /\ i + 1 \in DOMAIN q /\ Tail(q)[i] = q[i + 1]
      /\ j \in Nat /\ j + 1 \in DOMAIN q /\ Tail(q)[j] = q[j + 1]
  BY TailQueue DEF Whole
<1>2. i + 1 <= j + 1 /\ i + 1 \in Whole(type, q) /\ j + 1 \in Whole(type, q)
  BY <1>1 DEF Whole
<1>3. QED
  BY <1>1, <1>2

\* Appending a packet leaves the others in their order, and does not show to
\* packets of the other type.
LEMMA AppendGrows ==
    ASSUME NEW type, NEW q \in Seq(Packet), NEW e \in Packet
    PROVE  /\ Grows(type, Append(q, e), q, e)
           /\ e.type # type => Follows(type, Append(q, e), q)
<1> DEFINE new == Append(q, e)
<1>1. /\ DOMAIN new = DOMAIN q \cup {Len(q) + 1}
      /\ new[Len(q) + 1] = e
      /\ \A i \in DOMAIN q : i \in Nat /\ i < Len(q) + 1 /\ new[i] = q[i]
      /\ Len(q) \in Nat
  BY AppendQueue
<1> HIDE DEF new
<1>2. \A i \in Whole(type, new) :
          (i \in Whole(type, q) /\ new[i] = q[i]) \/ (i = Len(q) + 1 /\ new[i] = e /\ e.type = type)
  BY <1>1 DEF Whole
<1>3. \A i \in Whole(type, q) : i \in Nat /\ i < Len(q) + 1
  BY <1>1 DEF Whole
<1>4. Grows(type, new, q, e)
  BY <1>1, <1>2, <1>3 DEF Grows
<1>5. e.type # type => Follows(type, new, q)
  BY <1>2 DEF Follows
<1>6. QED
  BY <1>4, <1>5 DEF new

\* A queue that stays as it is.
LEMMA StillFollows ==
    ASSUME NEW type, NEW q
    PROVE  Follows(type, q, q)
BY DEF Follows

\* What may happen to the packet at the head of a queue adds no whole packet
\* and leaves the others in order.
LEMMA HitFollows ==
    ASSUME NEW type, NEW q \in Seq(Packet), q # <<>>, NEW outcome \in Outcomes(Head(q))
    PROVE  /\ outcome \o Tail(q) \in Seq(Packet)
           /\ Follows(type, outcome \o Tail(q), q)
           /\ /\ \A i \in DOMAIN q : q[i].type = "DATA" => Intact(q[i])
              /\ ~(outcome # <<>> /\ outcome[1].damage \in {"data", "seqno"})
              => \A i \in DOMAIN (outcome \o Tail(q)) :
                    (outcome \o Tail(q))[i].type = "DATA" => Intact((outcome \o Tail(q))[i])
<1> DEFINE h == Head(q)
           t == Tail(q)
           new == outcome \o t
<1>1. /\ t \in Seq(Packet) /\ h \in Packet /\ 1 \in DOMAIN q /\ h = q[1]
      /\ \A i \in DOMAIN t : i \in Nat /\ i + 1 \in DOMAIN q /\ t[i] = q[i + 1]
      /\ Follows(type, t, q)
  BY TailQueue, TailFollows
<1>2. DOMAIN t = 1 .. Len(t) /\ Len(t) \in Nat /\ DOMAIN q \subseteq Nat
  BY <1>1
<1>3. \/ outcome = <<>>
      \/ outcome = <<h, h>>
      \/ \E kind \in {"data", "seqno", "size"} :
            outcome = <<Damaged(h, kind)>> /\ (kind = "size" => h.type = "ACK")
  <2>1. outcome \in Outcomes(h)
    OBVIOUS
  <2> HIDE DEF h
  <2>2. QED
    BY <2>1 DEF Outcomes
<1> HIDE DEF h, t
<1>4. CASE outcome = <<>>
  <2>1. new = t
    BY <1>1, <1>4, ConcatEmptySeq
  <2>2. QED
    BY <1>1, <1>2, <2>1 DEF h, t
<1>5. CASE outcome = <<h, h>>
  <2>1. <<h, h>> \in Seq(Packet) /\ Len(<<h, h>>) = 2
    BY <1>1
  <2>2. /\ new \in Seq(Packet) /\ Len(new) = Len(t) + 2
        /\ \A i \in 1 .. Len(t) + 2 : new[i] = IF i <= 2 THEN <<h, h>>[i] ELSE t[i - 2]
    BY <1>1, <1>2, <1>5, <2>1, ConcatProperties
  <2>3. DOMAIN new = 1 .. Len(t) + 2
    BY <2>2, LenProperties
  <2> HIDE DEF new
  <2>4. \A i \in DOMAIN new : IF i <= 2 THEN new[i] = q[1]
                              ELSE i - 1 \in DOMAIN q /\ new[i] = q[i - 1]
    <3> SUFFICES ASSUME NEW i \in DOMAIN new
                 PROVE  IF i <= 2 THEN new[i] = q[1]
                        ELSE i - 1 \in DOMAIN q /\ new[i] = q[i - 1]
        OBVIOUS
    <3>1. CASE i <= 2
      BY <1>1, <2>2, <2>3, <3>1
    <3>2. CASE i > 2
      <4>1. i - 2 \in DOMAIN t /\ new[i] = t[i - 2] /\ (i - 2) + 1 = i - 1
        BY <1>2, <2>2, <2>3, <3>2
      <4>2. QED
        BY <1>1, <1>2, <2>3, <3>2, <4>1
    <3>3. QED
      BY <1>2, <2>3, <3>1, <3>2
  <2>5. Follows(type, new, q)
    <3> DEFINE at(i) == IF i <= 2 THEN 1 ELSE i - 1
    <3>1. \A i \in DOMAIN new : i \in Nat /\ at(i) \in DOMAIN q /\ new[i] = q[at(i)]
      BY <1>1, <2>3, <2>4
    <3>2. \A i, j \in DOMAIN new : i <= j => at(i) <= at(j)
      BY <3>1
    <3>3. \A i \in Whole(type, new) : i \in DOMAIN new /\ at(i) \in Whole(type, q)
      BY <3>1 DEF Whole
    <3> HIDE DEF at
    <3>4. QED
      BY <3>1, <3>2, <3>3 DEF Follows
  <2>6. (\A i \in DOMAIN q : q[i].type = "DATA" => Intact(q[i]))
           => \A i \in DOMAIN new : new[i].type = "DATA" => Intact(new[i])
    BY <1>1, <2>4
  <2>7. QED
    BY <2>2, <2>5, <2>6 DEF new, h, t
<1>6. ASSUME NEW kind \in {"data", "seqno", "size"},
             outcome = <<Damaged(h, kind)>>, kind = "size" => h.type = "ACK"
      PROVE  /\ new \in Seq(Packet) /\ Follows(type, new, q)
             /\ /\ \A i \in DOMAIN q : q[i].type = "DATA" => Intact(q[i])
                /\ ~(outcome # <<>> /\ outcome[1].damage \in {"data", "seqno"})
                => \A i \in DOMAIN new : new[i].type = "DATA" => Intact(new[i])
  <2> DEFINE d == Damaged(h, kind)
  <2>1. d \in Packet /\ ~Intact(d) /\ d.type = h.type /\ d.damage = kind
    BY <1>1, PacketTypes
  <2> HIDE DEF d
  <2>2. <<d>> \in Seq(Packet) /\ Len(<<d>>) = 1 /\ outcome = <<d>>
    BY <1>6, <2>1 DEF d
  <2>3. /\ new \in Seq(Packet) /\ Len(new) = Len(t) + 1
        /\ \A i \in 1 .. Len(t) + 1 : new[i] = IF i <= 1 THEN <<d>>[i] ELSE t[i - 1]
    BY <1>1, <1>2, <2>2, ConcatProperties
  <2>4. DOMAIN new = 1 .. Len(t) + 1
    BY <2>3, LenProperties
  <2> HIDE DEF new
  <2>5. \A i \in DOMAIN new : IF i <= 1 THEN i = 1 /\ new[i] = d
                              ELSE i \in DOMAIN q /\ new[i] = q[i]
    <3> SUFFICES ASSUME NEW i \in DOMAIN new
                 PROVE  IF i <= 1 THEN i = 1 /\ new[i] = d
                        ELSE i \in DOMAIN q /\ new[i] = q[i]
        OBVIOUS
    <3>1. CASE i <= 1
      BY <2>3, <2>4, <3>1, <1>2
    <3>2. CASE i > 1
      <4>1. i - 1 \in DOMAIN t /\ new[i] = t[i - 1] /\ (i - 1) + 1 = i
        BY <1>2, <2>3, <2>4, <3>2
      <4>2. QED
        BY <1>1, <1>2, <3>2, <4>1
    <3>3. QED
      BY <1>2, <2>4, <3>1, <3>2
  <2>6. Follows(type, new, q)
    BY <1>1, <1>2, <2>1, <2>4, <2>5 DEF Follows, Whole
  <2>7. outcome # <<>> /\ outcome[1] = d
    BY <2>2
  <2>8. QED
    BY <1>6, <2>1, <2>3, <2>5, <2>6, <2>7
<1>7. QED
  BY <1>3, <1>4, <1>5, <1>6 DEF h, t

-------------------------------------------------------------------------------
(* Types *)

\* The calls of the script are numbered from 1.
LEMMA ScriptFacts ==
    /\ Len(Script) \in Nat /\ Calls = 1 .. Len(Script)
    /\ Payloads \subseteq Nat
BY D1Assumption DEF Calls, Payloads

\* A call that returns leaves the client in the next call, if there is one.
LEMMA ReturnTypes ==
    ASSUME step \in Calls, Return
    PROVE  /\ step' = step + 1 /\ step' \in Nat \ {0} /\ step \in Nat /\ pc' \in {"ready", "done"}
           /\ pc' = "ready" => step' \in Calls
BY ScriptFacts DEF Return

\* What d1_wait_ack and d1_recv_data take from their queue.
LEMMA ClientTakes ==
    ASSUME D1TypeOK, NEW packet \in Packet, Waiting(packet) \/ Receiving(packet)
    PROVE  /\ to_client # <<>> /\ packet = Head(to_client) /\ packet = to_client[1]
           /\ 1 \in DOMAIN to_client
           /\ to_client' = Tail(to_client) /\ to_client' \in Seq(Packet)
           /\ packet.seqno \in Bit /\ packet.payload \in Payloads
           /\ packet.type \in {"DATA", "ACK"}
<1>1. to_client # <<>> /\ packet = Head(to_client) /\ to_client' = Tail(to_client)
  BY DEF Waiting, Receiving
<1>2. /\ to_client' \in Seq(Packet) /\ 1 \in DOMAIN to_client /\ packet = to_client[1]
  BY <1>1, TailQueue DEF D1TypeOK
<1>3. QED
  BY <1>1, <1>2 DEF Packet, Payloads

\* What the server takes from its queue.
LEMMA ServerTakes ==
    ASSUME D1TypeOK, NEW packet \in Packet, Serving(packet)
    PROVE  /\ to_server # <<>> /\ packet = Head(to_server) /\ packet = to_server[1]
           /\ 1 \in DOMAIN to_server
           /\ to_server' = Tail(to_server) /\ to_server' \in Seq(Packet)
           /\ packet.seqno \in Bit /\ packet.payload \in Payloads
<1>1. to_server # <<>> /\ packet = Head(to_server) /\ to_server' = Tail(to_server)
  BY DEF Serving
<1>2. /\ to_server' \in Seq(Packet) /\ 1 \in DOMAIN to_server /\ packet = to_server[1]
  BY <1>1, TailQueue DEF D1TypeOK
<1>3. QED
  BY <1>1, <1>2 DEF Packet, Payloads

\* The first answer of a box as packets behind a queue.
LEMMA AnswerQueue ==
    ASSUME NEW q \in Seq(Packet), NEW s \in Bit, NEW box \in Seq(Payloads)
    PROVE  /\ q \o Answer(s, box) \in Seq(Packet)
           /\ box = <<>> => q \o Answer(s, box) = q
           /\ box # <<>> => /\ q \o Answer(s, box) = Append(q, Data(s, Head(box)))
                            /\ Data(s, Head(box)) \in Packet /\ Head(box) \in Payloads
<1>1. CASE box = <<>>
  BY <1>1, ConcatEmptySeq DEF Answer
<1>2. CASE box # <<>>
  <2>1. Head(box) \in Payloads
    BY <1>2, TailQueue
  <2>2. Data(s, Head(box)) \in Packet
    BY <2>1, PacketTypes
  <2>3. QED
    BY <1>2, <2>1, <2>2, AppendQueue DEF Answer
<1>3. QED
  BY <1>1, <1>2

\* D1TypeOK holds at the start.
LEMMA InitTypes == Init => D1TypeOK
BY DEF Init, D1TypeOK, Bit

\* One more fault.
LEMMA FaultTypes ==
    ASSUME D1TypeOK, NEW damages \in BOOLEAN, OneMoreFault(damages)
    PROVE  /\ faults' \in [number : Nat, damaged : BOOLEAN]
           /\ faults'.damaged = (faults.damaged \/ damages)
BY DEF OneMoreFault, D1TypeOK

\* The steps of the client keep the types.
LEMMA ClientTypes == D1TypeOK /\ Client => D1TypeOK'
<1> SUFFICES ASSUME D1TypeOK, Client PROVE D1TypeOK'
    OBVIOUS
<1>1. CASE Start
  BY <1>1, ScriptFacts DEF Start, D1TypeOK, server
<1>2. CASE SendData
  <2>1. /\ UNCHANGED <<to_client, next_seqno, step, returned_ok, received, server, faults>>
        /\ pc' = "wait_ack" /\ step \in Calls
        /\ to_server' = Append(to_server, Data(next_seqno, step))
    BY <1>2 DEF SendData, Calling, D1TypeOK
  <2>2. Data(next_seqno, step) \in Packet
    BY <2>1, PacketTypes DEF D1TypeOK, Payloads
  <2>3. to_server' \in Seq(Packet)
    BY <2>1, <2>2, AppendQueue DEF D1TypeOK
  <2>4. QED
    BY <2>1, <2>3 DEF D1TypeOK, server
<1>3. CASE AckReceived \/ NoAck
  <2>1. /\ UNCHANGED <<to_server, received, server, faults>> /\ step \in Calls
        /\ Return /\ next_seqno' \in {next_seqno, Flip(next_seqno)}
        /\ to_client' \in Seq(Packet)
    BY <1>3, ClientTakes DEF AckReceived, NoAck, SendReturnsOk, Waiting, D1TypeOK
  <2>2. next_seqno' \in Bit
    BY <2>1, PacketTypes DEF D1TypeOK
  <2>3. QED
    BY <2>1, <2>2, ReturnTypes DEF D1TypeOK, server
<1>4. CASE WrongAck
  <2>1. /\ UNCHANGED <<next_seqno, pc, step, returned_ok, received, server, faults>>
        /\ to_server' = Append(to_server, Data(next_seqno, step))
        /\ to_client' \in Seq(Packet) /\ step \in Calls
    BY <1>4, ClientTakes DEF WrongAck, Waiting, D1TypeOK
  <2>2. Data(next_seqno, step) \in Packet
    BY <2>1, PacketTypes DEF D1TypeOK, Payloads
  <2>3. to_server' \in Seq(Packet)
    BY <2>1, <2>2, AppendQueue DEF D1TypeOK
  <2>4. QED
    BY <2>1, <2>3 DEF D1TypeOK, server
<1>5. CASE RecvData
  <2>1. PICK packet \in Packet :
            /\ Receiving(packet) /\ packet.type = "DATA" /\ Intact(packet)
            /\ received' = Append(received, packet.payload)
            /\ to_server' = Append(to_server, Ack(packet.seqno))
    BY <1>5 DEF RecvData
  <2>2. /\ Return /\ UNCHANGED <<next_seqno, returned_ok, server, faults>>
        /\ step \in Calls
    BY <1>5, <2>1 DEF RecvData, Receiving, Calling, D1TypeOK
  <2>3. packet.seqno \in Bit /\ packet.payload \in Payloads /\ to_client' \in Seq(Packet)
    BY <2>1, ClientTakes
  <2>4. received' \in Seq(Payloads) /\ to_server' \in Seq(Packet)
    BY <2>1, <2>3, PacketTypes, AppendQueue DEF D1TypeOK
  <2>5. QED
    BY <2>2, <2>3, <2>4, ReturnTypes DEF D1TypeOK, server
<1>6. CASE RecvDamaged
  <2>1. PICK packet \in Packet :
            /\ Receiving(packet) /\ packet.type = "DATA" /\ ~Intact(packet)
            /\ to_server' = Append(to_server, Ack(Flip(packet.seqno)))
    BY <1>6 DEF RecvDamaged
  <2>2. UNCHANGED <<client, server, faults>>
    BY <1>6 DEF RecvDamaged
  <2>3. packet.seqno \in Bit /\ to_client' \in Seq(Packet)
    BY <2>1, ClientTakes
  <2>4. to_server' \in Seq(Packet)
    BY <2>1, <2>3, PacketTypes, AppendQueue DEF D1TypeOK
  <2>5. QED
    BY <2>2, <2>3, <2>4 DEF D1TypeOK, client, server
<1>7. CASE RecvNotData
  <2>1. /\ pc' = "aborted"
        /\ UNCHANGED <<to_server, next_seqno, step, returned_ok, received, server, faults>>
        /\ to_client' \in Seq(Packet)
    BY <1>7, ClientTakes DEF RecvNotData
  <2>2. QED
    BY <2>1 DEF D1TypeOK, server
<1>8. QED
  BY <1>1, <1>2, <1>3, <1>4, <1>5, <1>6, <1>7 DEF Client

\* So do its steps in which the socket fails.
LEMMA FailureTypes == D1TypeOK /\ SocketFails => D1TypeOK'
<1> SUFFICES ASSUME D1TypeOK, SocketFails PROVE D1TypeOK'
    OBVIOUS
<1>1. faults' \in [number : Nat, damaged : BOOLEAN]
  BY FaultTypes DEF SocketFails, SendFails, ResendFails, WaitFails, RecvFails, Fault
<1>2. CASE SendFails \/ RecvFails
  BY <1>1, <1>2 DEF SendFails, RecvFails, D1TypeOK, server
<1>3. CASE ResendFails \/ WaitFails
  <2>1. /\ UNCHANGED <<to_server, next_seqno, received, server>>
        /\ step \in Calls /\ Return /\ to_client' \in Seq(Packet)
    BY <1>3, ClientTakes DEF ResendFails, WaitFails, SendReturnsOk, Waiting, D1TypeOK
  <2>2. QED
    BY <1>1, <2>1, ReturnTypes DEF D1TypeOK, server
<1>4. QED
  BY <1>2, <1>3 DEF SocketFails

\* A new payload moves from the head of to_server to the end of accepted; its
\* acknowledgement goes to the client and, if nothing else is out, its answer.
LEMMA AcceptEffect ==
    ASSUME D1TypeOK, ServerAccepts
    PROVE  \E packet \in Packet :
              /\ to_server # <<>> /\ packet = to_server[1] /\ 1 \in Genuine(to_server)
              /\ to_server' = Tail(to_server) /\ to_server' \in Seq(Packet)
              /\ packet.seqno = expected_seqno /\ packet.payload \in Payloads
              /\ accepted' = Append(accepted, packet.payload) /\ accepted' \in Seq(Payloads)
              /\ expected_seqno' = Flip(expected_seqno)
              /\ outbox' \in Seq(Payloads)
              /\ IF Answered(packet.payload) THEN outbox' = Append(outbox, packet.payload)
                                             ELSE outbox' = outbox
              /\ Append(to_client, Ack(packet.seqno)) \in Seq(Packet)
              /\ to_client' = IF outbox = <<>>
                                 THEN Append(to_client, Ack(packet.seqno))
                                         \o Answer(server_seqno, outbox')
                                 ELSE Append(to_client, Ack(packet.seqno))
              /\ UNCHANGED <<next_seqno, pc, step, returned_ok, received, server_seqno, faults>>
<1>1. PICK packet \in Packet :
          /\ Serving(packet) /\ packet.type = "DATA" /\ Intact(packet)
          /\ packet.seqno = expected_seqno
          /\ accepted' = Append(accepted, packet.payload)
          /\ outbox' = IF Answered(packet.payload) THEN Append(outbox, packet.payload)
                                                   ELSE outbox
          /\ to_client' = to_client \o <<Ack(packet.seqno)>>
                              \o IF outbox = <<>> THEN Answer(server_seqno, outbox') ELSE <<>>
  BY DEF ServerAccepts
<1>2. /\ expected_seqno' = Flip(expected_seqno)
      /\ UNCHANGED <<next_seqno, pc, step, returned_ok, received, server_seqno, faults>>
  BY DEF ServerAccepts, client
<1>3. /\ to_server # <<>> /\ packet = to_server[1] /\ 1 \in DOMAIN to_server
      /\ to_server' = Tail(to_server) /\ to_server' \in Seq(Packet)
      /\ packet.seqno \in Bit /\ packet.payload \in Payloads
  BY <1>1, ServerTakes
<1>4. 1 \in Genuine(to_server)
  BY <1>1, <1>3 DEF Genuine, Whole
<1>5. accepted' \in Seq(Payloads) /\ outbox' \in Seq(Payloads)
  BY <1>1, <1>3, AppendQueue DEF D1TypeOK
<1>6. /\ Append(to_client, Ack(packet.seqno)) \in Seq(Packet)
      /\ to_client \o <<Ack(packet.seqno)>> = Append(to_client, Ack(packet.seqno))
  BY <1>3, PacketTypes, AppendQueue DEF D1TypeOK
<1>7. to_client' = IF outbox = <<>> THEN Append(to_client, Ack(packet.seqno))
                                            \o Answer(server_seqno, outbox')
                   ELSE Append(to_client, Ack(packet.seqno))
  BY <1>1, <1>6, ConcatEmptySeq
<1>8. QED
  BY <1>1, <1>2, <1>3, <1>4, <1>5, <1>6, <1>7

\* A packet that is not taken is answered with an acknowledgement.
LEMMA IgnoreEffect ==
    ASSUME D1TypeOK, ServerIgnores \/ ServerRefuses
    PROVE  \E s \in Bit :
              /\ to_server # <<>> /\ to_server' = Tail(to_server) /\ to_server' \in Seq(Packet)
              /\ to_client' = Append(to_client, Ack(s)) /\ to_client' \in Seq(Packet)
              /\ UNCHANGED <<client, server, faults>>
<1>1. PICK packet \in Packet :
          /\ Serving(packet)
          /\ \/ to_client' = Append(to_client, Ack(packet.seqno))
             \/ to_client' = Append(to_client, Ack(Flip(packet.seqno)))
  BY DEF ServerIgnores, ServerRefuses
<1>2. UNCHANGED <<client, server, faults>>
  BY DEF ServerIgnores, ServerRefuses
<1>3. /\ to_server # <<>> /\ to_server' = Tail(to_server) /\ to_server' \in Seq(Packet)
      /\ packet.seqno \in Bit
  BY <1>1, ServerTakes
<1>4. PICK s \in Bit : to_client' = Append(to_client, Ack(s))
  BY <1>1, <1>3, PacketTypes
<1>5. Append(to_client, Ack(s)) \in Seq(Packet)
  BY <1>4, PacketTypes, AppendQueue DEF D1TypeOK
<1>6. QED
  BY <1>2, <1>3, <1>4, <1>5

\* The acknowledgement of the answer that is out.
LEMMA AckedEffect ==
    ASSUME D1TypeOK, ServerAcked
    PROVE  /\ to_server # <<>> /\ to_server' = Tail(to_server) /\ to_server' \in Seq(Packet)
           /\ 1 \in Acks(to_server) /\ to_server[1].seqno = server_seqno
           /\ outbox # <<>> /\ outbox' = Tail(outbox) /\ outbox' \in Seq(Payloads)
           /\ server_seqno' = Flip(server_seqno) /\ server_seqno' \in Bit
           /\ to_client' = to_client \o Answer(server_seqno', outbox')
           /\ to_client' \in Seq(Packet)
           /\ UNCHANGED <<client, expected_seqno, accepted, faults>>
<1>1. PICK packet \in Packet :
          Serving(packet) /\ packet.type = "ACK" /\ Intact(packet)
                          /\ packet.seqno = server_seqno
  BY DEF ServerAcked
<1>2. /\ outbox # <<>> /\ outbox' = Tail(outbox)
      /\ server_seqno' = Flip(server_seqno)
      /\ to_client' = to_client \o Answer(server_seqno', outbox')
      /\ UNCHANGED <<client, expected_seqno, accepted, faults>>
  BY DEF ServerAcked
<1>3. /\ to_server # <<>> /\ to_server' = Tail(to_server) /\ to_server' \in Seq(Packet)
      /\ packet = to_server[1] /\ 1 \in DOMAIN to_server
  BY <1>1, ServerTakes
<1>4. outbox' \in Seq(Payloads) /\ server_seqno' \in Bit
  BY <1>2, TailQueue, PacketTypes DEF D1TypeOK
<1>5. to_client' \in Seq(Packet)
  BY <1>2, <1>4, AnswerQueue DEF D1TypeOK
<1>6. QED
  BY <1>1, <1>2, <1>3, <1>4, <1>5 DEF Acks, Whole

\* The answer that is out is sent again, if there is one.
LEMMA ResendEffect ==
    ASSUME D1TypeOK, ServerResends \/ ServerTimeout
    PROVE  /\ \/ to_server # <<>> /\ to_server' = Tail(to_server)
              \/ to_server' = to_server
           /\ to_server' \in Seq(Packet)
           /\ to_client' = to_client \o Answer(server_seqno, outbox)
           /\ to_client' \in Seq(Packet)
           /\ faults' \in [number : Nat, damaged : BOOLEAN]
           /\ faults'.damaged = faults.damaged
           /\ UNCHANGED <<client, server>>
<1>1. to_client' = to_client \o Answer(server_seqno, outbox) /\ UNCHANGED <<client, server>>
  BY DEF ServerResends, ServerTimeout
<1>2. to_client' \in Seq(Packet)
  BY <1>1, AnswerQueue DEF D1TypeOK
<1>3. CASE ServerResends
  <2>1. to_server # <<>> /\ to_server' = Tail(to_server) /\ to_server' \in Seq(Packet)
    BY <1>3, ServerTakes DEF ServerResends
  <2>2. faults' = faults
    BY <1>3 DEF ServerResends
  <2>3. QED
    BY <1>1, <1>2, <2>1, <2>2 DEF D1TypeOK
<1>4. CASE ServerTimeout
  <2>1. to_server' = to_server
    BY <1>4 DEF ServerTimeout
  <2>2. /\ faults' \in [number : Nat, damaged : BOOLEAN]
        /\ faults'.damaged = faults.damaged
    BY <1>4, FaultTypes DEF ServerTimeout, Fault, D1TypeOK
  <2>3. QED
    BY <1>1, <1>2, <2>1, <2>2 DEF D1TypeOK
<1>5. QED
  BY <1>3, <1>4

\* The network leaves the whole packets of both queues in their order, and
\* says so if it damages data.
LEMMA NetworkEffect ==
    ASSUME D1TypeOK, Network
    PROVE  /\ to_server' \in Seq(Packet) /\ to_client' \in Seq(Packet)
           /\ \A type \in {"DATA", "ACK"} : /\ Follows(type, to_server', to_server)
                                            /\ Follows(type, to_client', to_client)
           /\ faults' \in [number : Nat, damaged : BOOLEAN]
           /\ faults.damaged => faults'.damaged
           /\ /\ \A i \in DOMAIN to_client : to_client[i].type = "DATA" => Intact(to_client[i])
              /\ ~faults'.damaged
              => \A i \in DOMAIN to_client' : to_client'[i].type = "DATA" => Intact(to_client'[i])
           /\ UNCHANGED <<client, server>>
<1>1. UNCHANGED <<client, server>>
  BY DEF Network
<1>2. ASSUME to_server # <<>>, UNCHANGED to_client,
             NEW outcome \in Outcomes(Head(to_server)), Hit(to_server, outcome)
      PROVE  /\ to_server' \in Seq(Packet) /\ to_client' \in Seq(Packet)
             /\ \A type \in {"DATA", "ACK"} : /\ Follows(type, to_server', to_server)
                                              /\ Follows(type, to_client', to_client)
             /\ faults' \in [number : Nat, damaged : BOOLEAN]
             /\ faults.damaged => faults'.damaged
             /\ /\ \A i \in DOMAIN to_client : to_client[i].type = "DATA" => Intact(to_client[i])
                /\ ~faults'.damaged
                => \A i \in DOMAIN to_client' : to_client'[i].type = "DATA" => Intact(to_client'[i])
  <2>1. to_server' = outcome \o Tail(to_server)
    BY <1>2 DEF Hit
  <2>2. PICK damages \in BOOLEAN : OneMoreFault(damages)
    BY <1>2 DEF Hit
  <2>3. /\ to_server' \in Seq(Packet)
        /\ \A type \in {"DATA", "ACK"} : Follows(type, to_server', to_server)
    BY <1>2, <2>1, HitFollows DEF D1TypeOK
  <2>4. QED
    BY <1>2, <2>2, <2>3, FaultTypes, StillFollows DEF D1TypeOK
<1>3. ASSUME to_client # <<>>, UNCHANGED to_server,
             NEW outcome \in Outcomes(Head(to_client)), Hit(to_client, outcome)
      PROVE  /\ to_server' \in Seq(Packet) /\ to_client' \in Seq(Packet)
             /\ \A type \in {"DATA", "ACK"} : /\ Follows(type, to_server', to_server)
                                              /\ Follows(type, to_client', to_client)
             /\ faults' \in [number : Nat, damaged : BOOLEAN]
             /\ faults.damaged => faults'.damaged
             /\ /\ \A i \in DOMAIN to_client : to_client[i].type = "DATA" => Intact(to_client[i])
                /\ ~faults'.damaged
                => \A i \in DOMAIN to_client' : to_client'[i].type = "DATA" => Intact(to_client'[i])
  <2>1. to_client' = outcome \o Tail(to_client)
    BY <1>3 DEF Hit
  <2>2. PICK damages \in BOOLEAN :
            /\ damages = (outcome # <<>> /\ outcome[1].damage \in {"data", "seqno"})
            /\ OneMoreFault(damages)
    BY <1>3 DEF Hit
  <2>3. /\ to_client' \in Seq(Packet)
        /\ \A type \in {"DATA", "ACK"} : Follows(type, to_client', to_client)
    BY <1>3, <2>1, HitFollows DEF D1TypeOK
  <2>4. /\ faults' \in [number : Nat, damaged : BOOLEAN]
        /\ faults.damaged => faults'.damaged
        /\ ~faults'.damaged => ~(outcome # <<>> /\ outcome[1].damage \in {"data", "seqno"})
    BY <2>2, FaultTypes DEF D1TypeOK
  <2>5. /\ \A i \in DOMAIN to_client : to_client[i].type = "DATA" => Intact(to_client[i])
        /\ ~faults'.damaged
        => \A i \in DOMAIN to_client' : to_client'[i].type = "DATA" => Intact(to_client'[i])
    BY <1>3, <2>1, <2>4, HitFollows DEF D1TypeOK
  <2>6. QED
    BY <1>3, <2>3, <2>4, <2>5, StillFollows DEF D1TypeOK
<1>4. CASE \E outcome \in Outcomes(Head(to_server)) :
              to_server # <<>> /\ UNCHANGED to_client /\ Hit(to_server, outcome)
  BY <1>1, <1>2, <1>4
<1>5. CASE \E outcome \in Outcomes(Head(to_client)) :
              to_client # <<>> /\ UNCHANGED to_server /\ Hit(to_client, outcome)
  BY <1>1, <1>3, <1>5
<1>6. QED
  BY <1>4, <1>5 DEF Network

\* So does every step.
LEMMA NextTypes == D1TypeOK /\ [Next]_vars => D1TypeOK'
<1> SUFFICES ASSUME D1TypeOK, [Next]_vars PROVE D1TypeOK'
    OBVIOUS
<1>1. CASE Client
  BY <1>1, ClientTypes
<1>2. CASE SocketFails
  BY <1>2, FailureTypes
<1>3. CASE ServerAccepts
  <2>1. expected_seqno' \in Bit
    BY <1>3, AcceptEffect, PacketTypes DEF D1TypeOK
  <2>2. PICK q \in Seq(Packet) :
            to_client' = IF outbox = <<>> THEN q \o Answer(server_seqno, outbox') ELSE q
    BY <1>3, AcceptEffect
  <2>3. q \o Answer(server_seqno, outbox') \in Seq(Packet)
    BY <1>3, AcceptEffect, AnswerQueue DEF D1TypeOK
  <2>4. to_client' \in Seq(Packet)
    BY <2>2, <2>3
  <2>5. QED
    BY <1>3, <2>1, <2>4, AcceptEffect DEF D1TypeOK
<1>4. CASE ServerIgnores \/ ServerRefuses
  BY <1>4, IgnoreEffect DEF D1TypeOK, client, server
<1>5. CASE ServerAcked
  BY <1>5, AckedEffect DEF D1TypeOK, client
<1>6. CASE ServerResends \/ ServerTimeout
  BY <1>6, ResendEffect DEF D1TypeOK, client, server
<1>7. CASE Network
  BY <1>7, NetworkEffect DEF D1TypeOK, client, server
<1>8. CASE UNCHANGED vars
  BY <1>8 DEF D1TypeOK, vars, client, server
<1>9. QED
  BY <1>1, <1>2, <1>3, <1>4, <1>5, <1>6, <1>7, <1>8 DEF Next, Server

\* The fields of a whole packet of a queue.
LEMMA QueueFacts ==
    ASSUME NEW q \in Seq(Packet)
    PROVE  \A type, i : i \in Whole(type, q) =>
              /\ i \in Nat /\ 1 <= i /\ i <= i
              /\ q[i] \in Packet /\ q[i].payload \in Nat /\ q[i].payload \in Payloads
              /\ q[i].seqno \in Bit
<1> SUFFICES ASSUME NEW type, NEW i \in Whole(type, q)
             PROVE  /\ i \in Nat /\ 1 <= i /\ i <= i
                    /\ q[i] \in Packet /\ q[i].payload \in Nat /\ q[i].payload \in Payloads
                    /\ q[i].seqno \in Bit
    OBVIOUS
<1>1. i \in 1 .. Len(q) /\ Len(q) \in Nat
  BY LenProperties DEF Whole
<1>2. i \in Nat /\ 1 <= i /\ i <= i /\ q[i] \in Packet
  BY <1>1
<1>3. q[i].payload \in Payloads /\ q[i].seqno \in Bit
  BY <1>2 DEF Packet, Payloads
<1>4. QED
  BY <1>2, <1>3, ScriptFacts

\* The elements of a sequence of payloads are numbers.
LEMMA PayloadFacts ==
    ASSUME NEW s \in Seq(Payloads)
    PROVE  \A n \in DOMAIN s : n \in Nat /\ 1 <= n /\ s[n] \in Payloads /\ s[n] \in Nat
<1> SUFFICES ASSUME NEW n \in DOMAIN s
             PROVE  n \in Nat /\ 1 <= n /\ s[n] \in Payloads /\ s[n] \in Nat
    OBVIOUS
<1>1. n \in 1 .. Len(s) /\ Len(s) \in Nat
  BY LenProperties
<1>2. n \in Nat /\ 1 <= n /\ s[n] \in Payloads
  BY <1>1
<1>3. QED
  BY <1>2, ScriptFacts

-------------------------------------------------------------------------------
(* The client's data: a payload that is sent again has the number it had *)

\* Packets may be taken from the queue, or be lost or damaged in it.
LEMMA SendingFollows ==
    ASSUME NEW new \in Seq(Packet), NEW queue \in Seq(Packet), Follows("DATA", new, queue),
           NEW taken \in Seq(Payloads), NEW expected,
           NEW call \in Nat, NEW seqno, NEW begun \in BOOLEAN,
           SendingIn(queue, taken, expected, call, seqno, begun)
    PROVE  SendingIn(new, taken, expected, call, seqno, begun)
<1>1. \A i \in Genuine(new) : \E k \in Genuine(queue) : new[i] = queue[k]
  BY QueueFacts DEF Follows, Genuine
<1>2. \A i, j \in Genuine(new) : i <= j =>
          /\ new[i].payload <= new[j].payload
          /\ new[i].payload = new[j].payload => new[i].seqno = new[j].seqno
  BY DEF Follows, Genuine, SendingIn
<1>3. QED
  BY <1>1, <1>2 DEF SendingIn

\* The client may come to its next call, with whatever number.
LEMMA SendingMoves ==
    ASSUME NEW queue \in Seq(Packet), NEW taken \in Seq(Payloads), NEW expected,
           NEW call \in Nat, NEW seqno, NEW begun \in BOOLEAN,
           SendingIn(queue, taken, expected, call, seqno, begun),
           NEW seqno2, NEW begun2 \in BOOLEAN
    PROVE  SendingIn(queue, taken, expected, call + 1, seqno2, begun2)
<1>1. \A i \in Genuine(queue) : /\ queue[i].payload <= call /\ queue[i].payload \in Nat
                               /\ queue[i].payload <= call + 1 /\ queue[i].payload # call + 1
  BY QueueFacts DEF Genuine, SendingIn
<1>2. \A n \in DOMAIN taken : /\ taken[n] <= call /\ taken[n] \in Nat
                             /\ taken[n] <= call + 1 /\ taken[n] # call + 1
  BY PayloadFacts DEF SendingIn
<1>3. QED
  BY <1>1, <1>2 DEF SendingIn

\* The payload of the client's call is sent, for the first time or again.
LEMMA SendingGrows ==
    ASSUME NEW queue \in Seq(Packet), NEW taken \in Seq(Payloads), NEW expected,
           NEW call \in Calls, NEW seqno \in Bit, NEW begun \in BOOLEAN,
           SendingIn(queue, taken, expected, call, seqno, begun)
    PROVE  SendingIn(Append(queue, Data(seqno, call)), taken, expected, call, seqno, TRUE)
<1> DEFINE e == Data(seqno, call)
           new == Append(queue, e)
<1>1. e \in Packet /\ e.payload = call /\ e.seqno = seqno /\ call \in Nat
  BY PacketTypes, ScriptFacts DEF Data, Payloads
<1>2. Grows("DATA", new, queue, e)
  BY <1>1, AppendGrows
<1> HIDE DEF e, new
<1>3. \A k \in Genuine(queue) : queue[k].payload \in Nat
  BY QueueFacts DEF Genuine
<1>4. \A i \in Genuine(new) : new[i] = e \/ \E k \in Genuine(queue) : new[i] = queue[k]
  <2>1. \A i \in Genuine(new) :
            i <= i => new[i] = e \/ \E k \in Genuine(queue) : new[i] = queue[k]
    BY <1>2 DEF Grows, Genuine
  <2>2. \A i \in Genuine(new) : i <= i
    BY <1>1, AppendQueue DEF Genuine, Whole, new
  <2>3. QED
    BY <2>1, <2>2
<1>5. ASSUME NEW i \in Genuine(new), NEW j \in Genuine(new), i <= j
      PROVE  /\ new[i].payload <= new[j].payload
             /\ new[i].payload = new[j].payload => new[i].seqno = new[j].seqno
  <2>1. CASE \E k, l \in Genuine(queue) : k <= l /\ new[i] = queue[k] /\ new[j] = queue[l]
    BY <2>1 DEF SendingIn
  <2>2. CASE \E k \in Genuine(queue) : new[i] = queue[k] /\ new[j] = e
    BY <2>2, <1>1 DEF SendingIn
  <2>3. CASE new[i] = e /\ new[j] = e
    BY <2>3, <1>1
  <2>4. QED
    BY <1>2, <1>5, <2>1, <2>2, <2>3 DEF Grows, Genuine
<1>6. ASSUME NEW i \in Genuine(new)
      PROVE  /\ \A n \in DOMAIN taken :
                   /\ taken[n] <= new[i].payload
                   /\ taken[n] = new[i].payload => new[i].seqno # expected
             /\ new[i].payload <= call
             /\ new[i].payload = call => new[i].seqno = seqno
  <2>1. CASE new[i] = e
    BY <2>1, <1>1 DEF SendingIn
  <2>2. CASE \E k \in Genuine(queue) : new[i] = queue[k]
    BY <2>2 DEF SendingIn
  <2>3. QED
    BY <1>4, <2>1, <2>2
<1>7. SendingIn(new, taken, expected, call, seqno, TRUE)
  BY <1>5, <1>6 DEF SendingIn
<1>8. QED
  BY <1>7 DEF e, new

\* A payload of the number the server expects is newer than all it has taken.
LEMMA SendingTaken ==
    ASSUME NEW queue \in Seq(Packet), NEW taken \in Seq(Payloads), NEW expected \in Bit,
           NEW call \in Nat, NEW seqno \in Bit, NEW begun \in BOOLEAN,
           SendingIn(queue, taken, expected, call, seqno, begun), Growing(taken),
           queue # <<>>, 1 \in Genuine(queue), queue[1].seqno = expected
    PROVE  /\ \A n \in DOMAIN taken : taken[n] < queue[1].payload
           /\ Growing(Append(taken, queue[1].payload))
           /\ SendingIn(Tail(queue), Append(taken, queue[1].payload), Flip(expected),
                        call, seqno, begun)
<1> DEFINE p == queue[1].payload
           more == Append(taken, p)
<1>1. p \in Payloads /\ p \in Nat /\ Payloads \subseteq Nat
  BY ScriptFacts, QueueFacts DEF Genuine
<1>2. /\ \A k \in Genuine(queue) : queue[k].payload \in Nat /\ queue[k].seqno \in Bit
      /\ \A k \in Genuine(queue) : k \in Nat /\ 1 <= k
  BY QueueFacts DEF Genuine
<1>3. \A n \in DOMAIN taken : taken[n] \in Nat
  BY PayloadFacts
<1>4. \A n \in DOMAIN taken : taken[n] < p
  BY <1>1, <1>3 DEF SendingIn
<1>5. /\ \A n \in DOMAIN more : \/ n \in DOMAIN taken /\ more[n] = taken[n]
                                \/ n = Len(taken) + 1 /\ more[n] = p
      /\ \A n \in DOMAIN taken : n \in Nat /\ n < Len(taken) + 1
  BY <1>1, AppendQueue
<1> HIDE DEF more, p
<1>6. Growing(more)
  BY <1>4, <1>5 DEF Growing
<1>7. \A s \in Bit : s # expected <=> s = Flip(expected)
  BY DEF Bit, Flip
<1>8. expected # Flip(expected)
  BY PacketTypes
<1>9. Follows("DATA", Tail(queue), queue)
  BY TailFollows
<1>10. SendingIn(Tail(queue), taken, expected, call, seqno, begun)
  <2>1. Tail(queue) \in Seq(Packet)
    BY TailQueue
  <2>2. QED
    BY <1>9, <2>1, SendingFollows
<1>11. ASSUME NEW i \in Genuine(Tail(queue)), NEW n \in DOMAIN more
       PROVE  /\ more[n] <= Tail(queue)[i].payload
              /\ more[n] = Tail(queue)[i].payload => Tail(queue)[i].seqno # Flip(expected)
  <2>1. PICK k \in Genuine(queue) : Tail(queue)[i] = queue[k]
    <3>1. i <= i
      BY TailQueue DEF Genuine, Whole
    <3>2. QED
      BY <1>9, <3>1 DEF Follows, Genuine
  <2>2. p <= queue[k].payload /\ (p = queue[k].payload => queue[k].seqno = expected)
    BY <1>2 DEF SendingIn, p
  <2>3. CASE more[n] = p
    <3>1. more[n] <= queue[k].payload
      BY <2>2, <2>3
    <3>2. more[n] = queue[k].payload => queue[k].seqno # Flip(expected)
      BY <2>2, <2>3, <1>8
    <3>3. QED
      BY <2>1, <3>1, <3>2
  <2>4. CASE n \in DOMAIN taken /\ more[n] = taken[n]
    <3>1. more[n] < p /\ more[n] \in Nat /\ queue[k].payload \in Nat
      BY <2>4, <1>2, <1>3, <1>4
    <3>2. p \in Nat /\ p <= queue[k].payload
      BY <1>1, <2>2
    <3>3. \A a, b, c \in Nat : a < b /\ b <= c => a <= c /\ a # c
      OBVIOUS
    <3>4. more[n] <= queue[k].payload /\ more[n] # queue[k].payload
      BY <3>1, <3>2, <3>3
    <3>5. QED
      BY <2>1, <3>4
  <2>5. QED
    BY <2>3, <2>4, <1>5
<1>12. p <= call /\ (p = call => begun /\ seqno = expected)
  BY DEF SendingIn, p
<1>13. ASSUME NEW n \in DOMAIN more
       PROVE  more[n] <= call /\ (more[n] = call => begun /\ seqno # Flip(expected))
  <2>1. CASE more[n] = p
    BY <2>1, <1>8, <1>12
  <2>2. CASE n \in DOMAIN taken /\ more[n] = taken[n]
    BY <2>2, <1>1, <1>3, <1>4, <1>12
  <2>3. QED
    BY <2>1, <2>2, <1>5
<1>14. SendingIn(Tail(queue), more, Flip(expected), call, seqno, begun)
  BY <1>10, <1>11, <1>13 DEF SendingIn
<1>15. QED
  BY <1>4, <1>6, <1>14 DEF more, p

-------------------------------------------------------------------------------
(* The server's answers: no older one behind a newer one *)

\* Packets may be taken from the answers, or be lost or damaged among them.
LEMMA AnswersFollow ==
    ASSUME NEW new \in Seq(Packet), NEW queue \in Seq(Packet), Follows("DATA", new, queue),
           NEW taken, NEW box, NEW got, AnswersIn(queue, taken, box, got)
    PROVE  AnswersIn(new, taken, box, got)
<1>1. \A i \in Genuine(new) : \E k \in Genuine(queue) : new[i] = queue[k]
  BY QueueFacts DEF Follows, Genuine
<1>2. \A i, j \in Genuine(new) : i <= j => new[i].payload <= new[j].payload
  BY DEF Follows, Genuine, AnswersIn
<1>3. QED
  BY <1>1, <1>2 DEF AnswersIn

\* The answer that is out is sent, for the first time or again.
LEMMA AnswersGrow ==
    ASSUME NEW queue \in Seq(Packet), NEW taken, NEW box \in Seq(Payloads), box # <<>>,
           NEW got, NEW s \in Bit, AnswersIn(queue, taken, box, got)
    PROVE  AnswersIn(Append(queue, Data(s, Head(box))), taken, box, got)
<1> DEFINE e == Data(s, Head(box))
           new == Append(queue, e)
<1>1. /\ 1 \in DOMAIN box /\ Head(box) = box[1] /\ box[1] \in Payloads
      /\ \A n \in DOMAIN box : n \in Nat /\ 1 <= n
  BY TailQueue, PayloadFacts
<1>2. e \in Packet /\ e.payload = box[1]
  BY <1>1, PacketTypes DEF Data
<1>3. Grows("DATA", new, queue, e)
  BY <1>2, AppendGrows
<1>4. new \in Seq(Packet)
  BY <1>2, AppendQueue
<1> HIDE DEF e, new
<1>5. \A i \in Genuine(new) : new[i] = e \/ \E k \in Genuine(queue) : new[i] = queue[k]
  BY <1>3, <1>4, QueueFacts DEF Grows, Genuine
<1>6. /\ box[1] \in Nat /\ box[1] <= box[1] /\ Contains(taken, box[1])
      /\ \A n \in DOMAIN box : box[1] <= box[n]
      /\ \A m \in DOMAIN got : got[m] <= box[1]
  BY <1>1, PayloadFacts DEF AnswersIn
<1>7. ASSUME NEW i \in Genuine(new), NEW j \in Genuine(new), i <= j
      PROVE  new[i].payload <= new[j].payload
  <2>1. CASE \E k, l \in Genuine(queue) : k <= l /\ new[i] = queue[k] /\ new[j] = queue[l]
    BY <2>1 DEF AnswersIn
  <2>2. CASE \E k \in Genuine(queue) : new[i] = queue[k] /\ new[j] = e
    BY <2>2, <1>1, <1>2 DEF AnswersIn
  <2>3. CASE new[i] = e /\ new[j] = e
    BY <2>3, <1>2, <1>6
  <2>4. QED
    BY <1>3, <1>7, <2>1, <2>2, <2>3 DEF Grows, Genuine
<1>8. ASSUME NEW i \in Genuine(new)
      PROVE  /\ Contains(taken, new[i].payload)
             /\ \A m \in DOMAIN got : got[m] <= new[i].payload
             /\ \A n \in DOMAIN box : new[i].payload <= box[n]
  <2>1. CASE new[i] = e
    BY <2>1, <1>2, <1>6
  <2>2. CASE \E k \in Genuine(queue) : new[i] = queue[k]
    BY <2>2 DEF AnswersIn
  <2>3. QED
    BY <1>5, <2>1, <2>2
<1>9. AnswersIn(new, taken, box, got)
  BY <1>7, <1>8 DEF AnswersIn
<1>10. QED
  BY <1>9 DEF e, new

\* What Contains says of a sequence and of one with a payload appended.
LEMMA ContainsFacts ==
    ASSUME NEW s \in Seq(Payloads), NEW p \in Payloads
    PROVE  /\ \A x : Contains(s, x) => \E n \in DOMAIN s : s[n] = x
           /\ \A x : Contains(s, x) => Contains(Append(s, p), x)
           /\ Contains(Append(s, p), p)
           /\ \A n \in DOMAIN s : Contains(s, s[n])
<1>1. /\ DOMAIN s = 1 .. Len(s) /\ DOMAIN Append(s, p) = 1 .. Len(Append(s, p))
      /\ Len(Append(s, p)) = Len(s) + 1 /\ Len(s) \in Nat
      /\ Append(s, p)[Len(s) + 1] = p
      /\ \A n \in 1 .. Len(s) : Append(s, p)[n] = s[n]
  OBVIOUS
<1>2. \A n \in 1 .. Len(s) : n \in 1 .. Len(Append(s, p))
  BY <1>1
<1>3. Len(s) + 1 \in 1 .. Len(Append(s, p))
  BY <1>1
<1>4. QED
  BY <1>1, <1>2, <1>3 DEF Contains

\* A payload newer than all that were taken, and perhaps an answer to keep.
LEMMA AnswersTaken ==
    ASSUME NEW queue \in Seq(Packet), NEW taken \in Seq(Payloads), NEW box \in Seq(Payloads),
           NEW got \in Seq(Payloads), AnswersIn(queue, taken, box, got),
           NEW p \in Payloads, \A n \in DOMAIN taken : taken[n] < p,
           NEW more, more = box \/ more = Append(box, p)
    PROVE  AnswersIn(queue, Append(taken, p), more, got)
<1>1. p \in Nat
  BY ScriptFacts
<1>2. \A x \in Nat : Contains(taken, x) => x <= p
  BY <1>1, ContainsFacts, PayloadFacts
<1>3. \A x : Contains(taken, x) => Contains(Append(taken, p), x)
  BY ContainsFacts
<1>4. Contains(Append(taken, p), p)
  BY ContainsFacts
<1>5. /\ \A i \in Genuine(queue) : queue[i].payload <= p
      /\ \A n \in DOMAIN box : box[n] <= p
      /\ \A m \in DOMAIN got : got[m] <= p
  BY <1>2, QueueFacts, PayloadFacts DEF AnswersIn, Genuine
<1>6. AnswersIn(queue, Append(taken, p), box, got)
  BY <1>3 DEF AnswersIn
<1>7. CASE more = Append(box, p)
  <2>1. /\ \A n \in DOMAIN more : (n \in DOMAIN box /\ more[n] = box[n])
                                   \/ (n = Len(box) + 1 /\ more[n] = p)
        /\ \A n \in DOMAIN box : n \in Nat /\ n < Len(box) + 1
        /\ Len(box) \in Nat
    BY <1>7, AppendQueue
  <2>2. ASSUME NEW n \in DOMAIN more
        PROVE  /\ Contains(Append(taken, p), more[n])
               /\ \A m \in DOMAIN got : got[m] <= more[n]
               /\ \A i \in Genuine(queue) : queue[i].payload <= more[n]
    BY <2>1, <1>4, <1>5, <1>6 DEF AnswersIn
  <2>3. ASSUME NEW n \in DOMAIN more, NEW l \in DOMAIN more, l <= n
        PROVE  more[l] <= more[n]
    <3>1. CASE n \in DOMAIN box /\ more[n] = box[n]
      <4>1. l \in DOMAIN box /\ more[l] = box[l]
        BY <3>1, <2>1, <2>3
      <4>2. QED
        BY <3>1, <4>1, <2>3 DEF AnswersIn
    <3>2. CASE more[n] = p
      <4>1. p <= p
        BY <1>1
      <4>2. QED
        BY <3>2, <4>1, <2>1, <1>5
    <3>3. QED
      BY <2>1, <3>1, <3>2
  <2>4. QED
    BY <1>6, <2>2, <2>3 DEF AnswersIn
<1>8. QED
  BY <1>6, <1>7

\* The answer that is out is dropped.
LEMMA AnswersAcked ==
    ASSUME NEW queue, NEW taken, NEW box \in Seq(Payloads), box # <<>>, NEW got,
           AnswersIn(queue, taken, box, got)
    PROVE  AnswersIn(queue, taken, Tail(box), got)
<1>1. \A n \in DOMAIN Tail(box) : n \in Nat /\ n + 1 \in DOMAIN box /\ Tail(box)[n] = box[n + 1]
  BY TailQueue
<1>2. ASSUME NEW n \in DOMAIN Tail(box)
      PROVE  /\ Contains(taken, Tail(box)[n])
             /\ \A m \in DOMAIN got : got[m] <= Tail(box)[n]
             /\ \A i \in Genuine(queue) : queue[i].payload <= Tail(box)[n]
  BY <1>1 DEF AnswersIn
<1>3. ASSUME NEW n \in DOMAIN Tail(box), NEW l \in DOMAIN Tail(box), l <= n
      PROVE  Tail(box)[l] <= Tail(box)[n]
  <2>1. l + 1 <= n + 1
    BY <1>1, <1>3
  <2>2. QED
    BY <1>1, <2>1 DEF AnswersIn
<1>4. QED
  BY <1>2, <1>3 DEF AnswersIn

\* The answer at the head of the queue is received.
LEMMA AnswersReceived ==
    ASSUME NEW queue \in Seq(Packet), queue # <<>>, 1 \in Genuine(queue), NEW taken,
           NEW box, NEW got \in Seq(Payloads), AnswersIn(queue, taken, box, got)
    PROVE  AnswersIn(Tail(queue), taken, box, Append(got, queue[1].payload))
<1> DEFINE p == queue[1].payload
           new == Tail(queue)
           more == Append(got, p)
<1>1. p \in Payloads /\ p \in Nat /\ p <= p
  BY QueueFacts DEF Genuine
<1>2. /\ \A m \in DOMAIN more : (m \in DOMAIN got /\ more[m] = got[m])
                                 \/ (m = Len(got) + 1 /\ more[m] = p)
      /\ \A m \in DOMAIN got : m \in Nat /\ m < Len(got) + 1
      /\ Len(got) \in Nat
  BY <1>1, AppendQueue
<1>3. Follows("DATA", new, queue)
  BY TailFollows
<1>4. new \in Seq(Packet)
  BY TailQueue
<1>5. AnswersIn(new, taken, box, got)
  BY <1>3, <1>4, AnswersFollow
<1>6. \A i \in Genuine(new) : \E k \in Genuine(queue) : new[i] = queue[k]
  BY <1>3, <1>4, QueueFacts DEF Follows, Genuine
<1>7. /\ \A k \in Genuine(queue) : p <= queue[k].payload
      /\ \A n \in DOMAIN box : p <= box[n]
      /\ \A m \in DOMAIN got : got[m] <= p
      /\ Contains(taken, p)
  BY QueueFacts DEF AnswersIn, Genuine
<1> HIDE DEF p, new, more
<1>8. \A m \in DOMAIN more : /\ Contains(taken, more[m])
                             /\ \A i \in Genuine(new) : more[m] <= new[i].payload
                             /\ \A n \in DOMAIN box : more[m] <= box[n]
  BY <1>2, <1>5, <1>6, <1>7 DEF AnswersIn
<1>9. ASSUME NEW m \in DOMAIN more, NEW l \in DOMAIN more, l <= m
      PROVE  more[l] <= more[m]
  <2>1. CASE m \in DOMAIN got /\ more[m] = got[m]
    <3>1. l \in DOMAIN got /\ more[l] = got[l]
      BY <2>1, <1>2, <1>9
    <3>2. QED
      BY <2>1, <3>1, <1>9 DEF AnswersIn
  <2>2. CASE more[m] = p
    BY <2>2, <1>1, <1>2, <1>7
  <2>3. QED
    BY <1>2, <2>1, <2>2
<1>10. AnswersIn(new, taken, box, more)
  BY <1>5, <1>8, <1>9 DEF AnswersIn
<1>11. QED
  BY <1>10 DEF p, new, more

-------------------------------------------------------------------------------
(* The answer that is out: who has it, and what acknowledges it *)

\* Packets may be taken from either queue, or be lost or damaged in it.
LEMMA AckedFollows ==
    ASSUME NEW up2 \in Seq(Packet), NEW up \in Seq(Packet), Follows("ACK", up2, up),
           NEW down2 \in Seq(Packet), NEW down \in Seq(Packet), Follows("DATA", down2, down),
           NEW seqno, NEW box, NEW got, AckedIn(up, down, seqno, box, got)
    PROVE  AckedIn(up2, down2, seqno, box, got)
<1>1. \A i \in Acks(up2) : \E k \in Acks(up) : up2[i] = up[k]
  BY QueueFacts DEF Follows, Acks
<1>2. \A j \in Genuine(down2) : \E k \in Genuine(down) : down2[j] = down[k]
  BY QueueFacts DEF Follows, Genuine
<1>3. \A i, j \in Acks(up2) : i <= j => (up2[i].seqno = seqno => up2[j].seqno = seqno)
  BY DEF Follows, Acks, AckedIn
<1>4. \A i, j \in Genuine(down2) : i <= j =>
          (down2[i].seqno = seqno => down2[j].seqno = seqno)
  BY DEF Follows, Genuine, AckedIn
<1>5. \A i \in Acks(up2), j \in Genuine(down2) :
          up2[i].seqno = seqno => down2[j].seqno = seqno
  BY <1>1, <1>2 DEF AckedIn
<1>6. \A i \in Acks(up2) : up2[i].seqno = seqno => box # <<>> /\ Contains(got, box[1])
  BY <1>1 DEF AckedIn
<1>7. \A j \in Genuine(down2) : down2[j].seqno = seqno => box # <<>> /\ down2[j].payload = box[1]
  BY <1>2 DEF AckedIn
<1>8. QED
  BY <1>3, <1>4, <1>5, <1>6, <1>7 DEF AckedIn

\* The answer that is out is sent, for the first time or again.
LEMMA AckedGrows ==
    ASSUME NEW up \in Seq(Packet), NEW down \in Seq(Packet), NEW seqno \in Bit,
           NEW box \in Seq(Payloads), box # <<>>, NEW got, AckedIn(up, down, seqno, box, got)
    PROVE  AckedIn(up, Append(down, Data(seqno, Head(box))), seqno, box, got)
<1> DEFINE e == Data(seqno, Head(box))
           new == Append(down, e)
<1>1. Head(box) = box[1] /\ Head(box) \in Payloads
  BY TailQueue
<1>2. e \in Packet /\ e.payload = box[1] /\ e.seqno = seqno
  BY <1>1, PacketTypes DEF Data
<1>3. Grows("DATA", new, down, e)
  BY <1>2, AppendGrows
<1>4. new \in Seq(Packet)
  BY <1>2, AppendQueue
<1> HIDE DEF e, new
<1>5. \A i \in Genuine(new) : new[i] = e \/ \E k \in Genuine(down) : new[i] = down[k]
  BY <1>3, <1>4, QueueFacts DEF Grows, Genuine
<1>6. ASSUME NEW i \in Genuine(new), NEW j \in Genuine(new), i <= j, new[i].seqno = seqno
      PROVE  new[j].seqno = seqno
  <2>1. CASE \E k, l \in Genuine(down) : k <= l /\ new[i] = down[k] /\ new[j] = down[l]
    BY <2>1, <1>6 DEF AckedIn
  <2>2. CASE new[j] = e
    BY <2>2, <1>2
  <2>3. QED
    BY <1>3, <1>6, <2>1, <2>2 DEF Grows, Genuine
<1>7. \A i \in Acks(up), j \in Genuine(new) : up[i].seqno = seqno => new[j].seqno = seqno
  BY <1>2, <1>5 DEF AckedIn
<1>8. \A j \in Genuine(new) : new[j].seqno = seqno => box # <<>> /\ new[j].payload = box[1]
  BY <1>2, <1>5 DEF AckedIn
<1>9. AckedIn(up, new, seqno, box, got)
  BY <1>6, <1>7, <1>8 DEF AckedIn
<1>10. QED
  BY <1>9 DEF e, new

\* While no answer is out nothing with the server's number is on its way; so
\* it does not matter what box becomes.
LEMMA AckedBox ==
    ASSUME NEW up, NEW down, NEW seqno, NEW box \in Seq(Payloads), NEW got, NEW more,
           AckedIn(up, down, seqno, box, got),
           box # <<>> => more # <<>> /\ more[1] = box[1]
    PROVE  AckedIn(up, down, seqno, more, got)
BY DEF AckedIn

\* The acknowledgement of the answer that is out arrives: all that is behind
\* it belongs to that answer, and not to the next one.
LEMMA AckedMoves ==
    ASSUME NEW up \in Seq(Packet), up # <<>>, 1 \in Acks(up), NEW down \in Seq(Packet),
           NEW seqno \in Bit, up[1].seqno = seqno, NEW box, NEW more, NEW got,
           AckedIn(up, down, seqno, box, got)
    PROVE  AckedIn(Tail(up), down, Flip(seqno), more, got)
<1>1. \A k \in Acks(up) : up[k].seqno = seqno
  BY QueueFacts DEF AckedIn, Acks
<1>2. \A j \in Genuine(down) : down[j].seqno = seqno
  BY DEF AckedIn
<1>3. Tail(up) \in Seq(Packet) /\ Follows("ACK", Tail(up), up)
  <2>1. Follows("ACK", Tail(up), up)
    BY TailFollows
  <2>2. Tail(up) \in Seq(Packet)
    BY TailQueue
  <2>3. QED
    BY <2>1, <2>2
<1>4. \A i \in Acks(Tail(up)) : Tail(up)[i].seqno = seqno
  <2>1. \A i \in Acks(Tail(up)) : i <= i
    BY <1>3, QueueFacts DEF Acks
  <2>2. \A i \in Acks(Tail(up)) : \E k \in Acks(up) : Tail(up)[i] = up[k]
    BY <1>3, <2>1 DEF Follows, Acks
  <2>3. QED
    BY <1>1, <2>2
<1>5. seqno # Flip(seqno)
  BY PacketTypes
<1>6. QED
  BY <1>2, <1>4, <1>5 DEF AckedIn

\* The answer at the head of the queue is received and acknowledged.
LEMMA AckedReceived ==
    ASSUME NEW up \in Seq(Packet), NEW down \in Seq(Packet), down # <<>>, 1 \in Genuine(down),
           NEW seqno \in Bit, NEW box, NEW got \in Seq(Payloads),
           AckedIn(up, down, seqno, box, got)
    PROVE  AckedIn(Append(up, Ack(down[1].seqno)), Tail(down), seqno, box,
                   Append(got, down[1].payload))
<1> DEFINE e == Ack(down[1].seqno)
           new == Append(up, e)
           rest == Tail(down)
           more == Append(got, down[1].payload)
<1>1. down[1].seqno \in Bit /\ down[1].payload \in Payloads
  BY QueueFacts DEF Genuine
<1>2. e \in Packet /\ e.seqno = down[1].seqno
  BY <1>1, PacketTypes DEF Ack
<1>3. Grows("ACK", new, up, e)
  BY <1>2, AppendGrows
<1>4. new \in Seq(Packet)
  BY <1>2, AppendQueue
<1>5. Follows("DATA", rest, down)
  BY TailFollows
<1>6. rest \in Seq(Packet)
  BY TailQueue
<1>7. AckedIn(up, rest, seqno, box, got)
  <2>1. Follows("ACK", up, up)
    BY StillFollows
  <2>2. QED
    BY <1>5, <1>6, <2>1, AckedFollows
<1>8. /\ Contains(more, down[1].payload)
      /\ \A x : Contains(got, x) => Contains(more, x)
  BY <1>1, ContainsFacts
<1>9. /\ \A k \in Genuine(down) : down[1].seqno = seqno => down[k].seqno = seqno
      /\ \A k \in Acks(up) : up[k].seqno = seqno => down[1].seqno = seqno
      /\ down[1].seqno = seqno => box # <<>> /\ down[1].payload = box[1]
  BY QueueFacts DEF AckedIn, Genuine
<1> HIDE DEF e, new, rest, more
<1>10. \A j \in Genuine(rest) : \E k \in Genuine(down) : rest[j] = down[k]
  BY <1>5, <1>6, QueueFacts DEF Follows, Genuine
<1>11. \A i \in Acks(new) : new[i] = e \/ \E k \in Acks(up) : new[i] = up[k]
  BY <1>3, <1>4, QueueFacts DEF Grows, Acks
<1>12. ASSUME NEW i \in Acks(new), NEW j \in Acks(new), i <= j, new[i].seqno = seqno
       PROVE  new[j].seqno = seqno
  <2>1. CASE \E k, l \in Acks(up) : k <= l /\ new[i] = up[k] /\ new[j] = up[l]
    BY <2>1, <1>12 DEF AckedIn
  <2>2. CASE \E k \in Acks(up) : new[i] = up[k] /\ new[j] = e
    BY <2>2, <1>2, <1>9, <1>12
  <2>3. CASE new[i] = e /\ new[j] = e
    BY <2>3, <1>12
  <2>4. QED
    BY <1>3, <1>12, <2>1, <2>2, <2>3 DEF Grows, Acks
<1>13. ASSUME NEW i \in Acks(new), NEW j \in Genuine(rest), new[i].seqno = seqno
       PROVE  rest[j].seqno = seqno
  BY <1>2, <1>7, <1>9, <1>10, <1>11, <1>13 DEF AckedIn
<1>14. ASSUME NEW i \in Acks(new), new[i].seqno = seqno
       PROVE  box # <<>> /\ Contains(more, box[1])
  BY <1>2, <1>7, <1>8, <1>9, <1>11, <1>14 DEF AckedIn
<1>15. AckedIn(new, rest, seqno, box, more)
  BY <1>7, <1>12, <1>13, <1>14 DEF AckedIn
<1>16. QED
  BY <1>15 DEF e, new, rest, more

-------------------------------------------------------------------------------
(* The steps of the client *)

\* What the client does to the answers and their acknowledgements.
LEMMA ClientEffect ==
    ASSUME D1TypeOK, Client \/ SocketFails
    PROVE  /\ UNCHANGED server
           /\ faults'.damaged = faults.damaged
           /\ to_server' \in Seq(Packet) /\ to_client' \in Seq(Packet)
           /\ \/ /\ received' = received
                 /\ Follows("DATA", to_client', to_client)
                 /\ Follows("ACK", to_server', to_server) \/ RecvDamaged
                 /\ \A i \in DOMAIN to_client' : \E k \in DOMAIN to_client : to_client'[i] = to_client[k]
              \/ /\ to_client # <<>> /\ 1 \in Genuine(to_client)
                 /\ to_client' = Tail(to_client)
                 /\ received' = Append(received, to_client[1].payload)
                 /\ to_server' = Append(to_server, Ack(to_client[1].seqno))
                 /\ \A i \in DOMAIN to_client' : \E k \in DOMAIN to_client : to_client'[i] = to_client[k]
<1>1. UNCHANGED server
  BY DEF Client, SocketFails, Start, SendData, AckReceived, WrongAck, NoAck, RecvData,
         RecvDamaged, RecvNotData, SendFails, ResendFails, WaitFails, RecvFails
<1>2. faults'.damaged = faults.damaged
  <2>1. CASE Client
    <3>1. faults' = faults
      BY <2>1 DEF Client, Start, SendData, AckReceived, WrongAck, NoAck, RecvData,
             RecvDamaged, RecvNotData, client, server
    <3>2. QED
      BY <3>1
  <2>2. CASE SocketFails
    <3>1. OneMoreFault(FALSE)
      BY <2>2 DEF SocketFails, SendFails, ResendFails, WaitFails, RecvFails, Fault
    <3>2. faults.damaged \in BOOLEAN
      BY DEF D1TypeOK
    <3>3. faults'.damaged = (faults.damaged \/ FALSE)
      BY <3>1, FaultTypes
    <3>4. QED
      BY <3>2, <3>3
  <2>3. QED
    BY <2>1, <2>2
<1>3. D1TypeOK'
  BY ClientTypes, FailureTypes
<1>4. to_server' \in Seq(Packet) /\ to_client' \in Seq(Packet)
  BY <1>3 DEF D1TypeOK
<1>5. /\ Follows("DATA", to_client, to_client)
      /\ Follows("ACK", to_server, to_server)
  BY StillFollows
<1>6. to_client # <<>> =>
          /\ Follows("DATA", Tail(to_client), to_client)
          /\ \A i \in DOMAIN Tail(to_client) :
                \E k \in DOMAIN to_client : Tail(to_client)[i] = to_client[k]
  BY TailFollows, TailQueue DEF D1TypeOK
<1>7. CASE Start \/ SendFails \/ WaitFails \/ RecvFails
  <2>1. UNCHANGED <<to_server, to_client, received>>
    BY <1>7 DEF Start, SendFails, WaitFails, RecvFails
  <2>2. QED
    BY <1>1, <1>2, <1>4, <1>5, <2>1
<1>8. CASE SendData
  <2>1. /\ to_server' = Append(to_server, Data(next_seqno, step))
        /\ UNCHANGED <<to_client, received>>
        /\ step \in Payloads
    BY <1>8 DEF SendData, Calling, D1TypeOK, Payloads
  <2>2. Data(next_seqno, step) \in Packet /\ Data(next_seqno, step).type = "DATA"
    BY <2>1, PacketTypes DEF D1TypeOK, Data
  <2>3. Follows("ACK", to_server', to_server)
    BY <2>1, <2>2, AppendGrows DEF D1TypeOK
  <2>4. QED
    BY <1>1, <1>2, <1>4, <1>5, <2>1, <2>3
<1>9. CASE WrongAck
  <2>1. /\ to_server' = Append(to_server, Data(next_seqno, step))
        /\ received' = received
        /\ step \in Payloads
        /\ to_client # <<>> /\ to_client' = Tail(to_client)
    BY <1>9 DEF WrongAck, Waiting, D1TypeOK, Payloads
  <2>2. Data(next_seqno, step) \in Packet /\ Data(next_seqno, step).type = "DATA"
    BY <2>1, PacketTypes DEF D1TypeOK, Data
  <2>3. Follows("ACK", to_server', to_server)
    BY <2>1, <2>2, AppendGrows DEF D1TypeOK
  <2>4. QED
    BY <1>1, <1>2, <1>4, <1>6, <2>1, <2>3
<1>10. CASE AckReceived \/ NoAck \/ ResendFails \/ RecvNotData
  <2>1. /\ UNCHANGED <<to_server, received>>
        /\ to_client # <<>> /\ to_client' = Tail(to_client)
    BY <1>10 DEF AckReceived, NoAck, ResendFails, RecvNotData, Waiting, Receiving
  <2>2. QED
    BY <1>1, <1>2, <1>4, <1>5, <1>6, <2>1
<1>11. CASE RecvDamaged
  <2>1. /\ received' = received
        /\ to_client # <<>> /\ to_client' = Tail(to_client)
    BY <1>11 DEF RecvDamaged, Receiving, client
  <2>2. QED
    BY <1>1, <1>2, <1>4, <1>6, <1>11, <2>1
<1>12. CASE RecvData
  <2>1. PICK packet \in Packet :
            /\ Receiving(packet) /\ packet.type = "DATA" /\ Intact(packet)
            /\ received' = Append(received, packet.payload)
            /\ to_server' = Append(to_server, Ack(packet.seqno))
    BY <1>12 DEF RecvData
  <2>2. /\ to_client # <<>> /\ to_client' = Tail(to_client) /\ packet = to_client[1]
        /\ 1 \in DOMAIN to_client
    BY <2>1, ClientTakes
  <2>3. 1 \in Genuine(to_client)
    BY <2>1, <2>2 DEF Genuine, Whole
  <2>4. QED
    BY <1>1, <1>2, <1>4, <1>6, <2>1, <2>2, <2>3
<1>13. QED
  BY <1>7, <1>8, <1>9, <1>10, <1>11, <1>12 DEF Client, SocketFails

\* The client sends each payload with one number, and no payload of an earlier
\* call.
LEMMA ClientSending ==
    ASSUME D1TypeOK, SendingOK, Client \/ SocketFails
    PROVE  SendingOK'
<1> DEFINE begun == pc \notin {"start", "ready"}
<1>1. D1TypeOK' /\ UNCHANGED <<accepted, expected_seqno>>
  BY ClientTypes, FailureTypes, ClientEffect DEF server
<1>2. /\ to_server \in Seq(Packet) /\ to_server' \in Seq(Packet)
      /\ accepted \in Seq(Payloads) /\ step \in Nat /\ next_seqno \in Bit
  BY <1>1 DEF D1TypeOK
<1>3. SendingIn(to_server, accepted, expected_seqno, step, next_seqno, begun)
  BY DEF SendingOK
<1>4. ASSUME SendingIn(to_server', accepted, expected_seqno, step', next_seqno', begun')
      PROVE  SendingOK'
  BY <1>1, <1>4 DEF SendingOK
<1>5. begun \in BOOLEAN /\ begun' \in BOOLEAN
  OBVIOUS
<1> HIDE DEF begun
<1>6. CASE Start \/ SendFails \/ RecvNotData \/ RecvFails
  <2>1. UNCHANGED <<to_server, next_seqno, step>> /\ ~begun
    BY <1>6 DEF Start, SendFails, RecvNotData, RecvFails, Receiving, Calling, begun
  <2>2. QED
    BY <1>3, <1>4, <2>1 DEF SendingIn
<1>7. CASE SendData \/ WrongAck
  <2>1. /\ to_server' = Append(to_server, Data(next_seqno, step))
        /\ UNCHANGED <<next_seqno, step>> /\ begun' = TRUE /\ step \in Calls
    BY <1>7 DEF SendData, WrongAck, Calling, Waiting, D1TypeOK, begun
  <2>2. SendingIn(Append(to_server, Data(next_seqno, step)), accepted, expected_seqno,
                  step, next_seqno, TRUE)
    BY <1>2, <1>3, <1>5, <2>1, SendingGrows
  <2>3. QED
    BY <1>4, <2>1, <2>2
<1>8. CASE AckReceived \/ NoAck \/ ResendFails \/ WaitFails
  <2>1. to_server' = to_server /\ step' = step + 1
    BY <1>8 DEF AckReceived, NoAck, ResendFails, WaitFails, SendReturnsOk, Return
  <2>2. SendingIn(to_server, accepted, expected_seqno, step + 1, next_seqno', begun')
    BY <1>2, <1>3, <1>5, SendingMoves
  <2>3. QED
    BY <1>4, <2>1, <2>2
<1>9. ASSUME RecvData \/ RecvDamaged
      PROVE  SendingIn(to_server', accepted, expected_seqno, step, next_seqno, begun)
  <2>1. PICK packet \in Packet :
            /\ Receiving(packet)
            /\ \/ to_server' = Append(to_server, Ack(packet.seqno))
               \/ to_server' = Append(to_server, Ack(Flip(packet.seqno)))
    BY <1>9 DEF RecvData, RecvDamaged
  <2>2. packet.seqno \in Bit /\ Flip(packet.seqno) \in Bit
    BY <2>1, ClientTakes, PacketTypes
  <2>3. PICK e \in Packet : e.type = "ACK" /\ to_server' = Append(to_server, e)
    BY <2>1, <2>2, PacketTypes DEF Ack
  <2>4. Follows("DATA", to_server', to_server)
    BY <1>2, <2>3, AppendGrows
  <2>5. QED
    BY <1>2, <1>3, <1>5, <2>4, SendingFollows
<1>10. CASE RecvData
  <2>1. step' = step + 1
    BY <1>10 DEF RecvData, Return
  <2>2. SendingIn(to_server', accepted, expected_seqno, step + 1, next_seqno', begun')
    BY <1>2, <1>5, <1>9, <1>10, SendingMoves
  <2>3. QED
    BY <1>4, <2>1, <2>2
<1>11. CASE RecvDamaged
  <2>1. UNCHANGED <<step, next_seqno, pc>>
    BY <1>11 DEF RecvDamaged, client
  <2>2. begun' = begun
    BY <2>1 DEF begun
  <2>3. QED
    BY <1>4, <1>9, <1>11, <2>1, <2>2
<1>12. QED
  BY <1>6, <1>7, <1>8, <1>10, <1>11 DEF Client, SocketFails

\* The client receives the answers in the order in which they arrive.
LEMMA ClientAnswers ==
    ASSUME D1TypeOK, AnswersOK, Client \/ SocketFails
    PROVE  AnswersOK'
<1>1. UNCHANGED <<accepted, outbox>> /\ to_client' \in Seq(Packet)
  BY ClientEffect DEF server
<1>2. CASE received' = received /\ Follows("DATA", to_client', to_client)
  BY <1>1, <1>2, AnswersFollow DEF AnswersOK, D1TypeOK
<1>3. CASE /\ to_client # <<>> /\ 1 \in Genuine(to_client)
           /\ to_client' = Tail(to_client)
           /\ received' = Append(received, to_client[1].payload)
  BY <1>1, <1>3, AnswersReceived DEF AnswersOK, D1TypeOK
<1>4. QED
  BY <1>2, <1>3, ClientEffect

-------------------------------------------------------------------------------
(* The steps of the server and the network *)

\* What does not change the client or what the server has taken, and adds no
\* data of the client.
LEMMA StillSending ==
    ASSUME D1TypeOK, SendingOK, to_server' \in Seq(Packet),
           Follows("DATA", to_server', to_server),
           UNCHANGED <<client, accepted, expected_seqno>>
    PROVE  SendingOK'
<1> DEFINE begun == pc \notin {"start", "ready"}
<1>1. SendingIn(to_server', accepted, expected_seqno, step, next_seqno, begun)
  <2>1. /\ to_server \in Seq(Packet) /\ accepted \in Seq(Payloads) /\ step \in Nat
        /\ begun \in BOOLEAN /\ SendingIn(to_server, accepted, expected_seqno, step, next_seqno, begun)
    BY DEF D1TypeOK, SendingOK
  <2> HIDE DEF begun
  <2>2. QED
    BY <2>1, SendingFollows
<1>2. QED
  BY <1>1 DEF SendingOK, client

\* Taking the first packet adds none.
LEMMA ServerTail ==
    ASSUME D1TypeOK, NEW type,
           \/ to_server # <<>> /\ to_server' = Tail(to_server)
           \/ to_server' = to_server
    PROVE  Follows(type, to_server', to_server)
<1>1. CASE to_server # <<>> /\ to_server' = Tail(to_server)
  BY <1>1, TailFollows DEF D1TypeOK
<1>2. CASE to_server' = to_server
  BY <1>2, StillFollows
<1>3. QED
  BY <1>1, <1>2

\* AnswersGrow, if there is an answer.
LEMMA AnswersSent ==
    ASSUME NEW queue \in Seq(Packet), NEW taken, NEW box \in Seq(Payloads), NEW got,
           NEW s \in Bit, AnswersIn(queue, taken, box, got)
    PROVE  AnswersIn(queue \o Answer(s, box), taken, box, got)
<1>1. CASE box = <<>>
  BY <1>1, AnswerQueue
<1>2. CASE box # <<>>
  <2>1. queue \o Answer(s, box) = Append(queue, Data(s, Head(box)))
    BY <1>2, AnswerQueue
  <2>2. QED
    BY <1>2, <2>1, AnswersGrow
<1>3. QED
  BY <1>1, <1>2

\* AckedGrows, if there is an answer.
LEMMA AckedSent ==
    ASSUME NEW up \in Seq(Packet), NEW down \in Seq(Packet), NEW seqno \in Bit,
           NEW box \in Seq(Payloads), NEW got, AckedIn(up, down, seqno, box, got)
    PROVE  AckedIn(up, down \o Answer(seqno, box), seqno, box, got)
<1>1. CASE box = <<>>
  BY <1>1, AnswerQueue
<1>2. CASE box # <<>>
  <2>1. down \o Answer(seqno, box) = Append(down, Data(seqno, Head(box)))
    BY <1>2, AnswerQueue
  <2>2. QED
    BY <1>2, <2>1, AckedGrows
<1>3. QED
  BY <1>1, <1>2

\* What the server sends is not damaged when it is sent.
LEMMA IntactGrows ==
    ASSUME NEW queue \in Seq(Packet), AnswersIntact(queue)
    PROVE  /\ \A s \in Bit : AnswersIntact(Append(queue, Ack(s)))
           /\ \A s \in Bit, box \in Seq(Payloads) : AnswersIntact(queue \o Answer(s, box))
<1>1. ASSUME NEW e \in Packet, Intact(e)
      PROVE  AnswersIntact(Append(queue, e))
  BY <1>1, AppendQueue DEF AnswersIntact
<1>2. ASSUME NEW s \in Bit
      PROVE  AnswersIntact(Append(queue, Ack(s)))
  BY <1>1, PacketTypes DEF Ack, Intact
<1>3. ASSUME NEW s \in Bit, NEW box \in Seq(Payloads)
      PROVE  AnswersIntact(queue \o Answer(s, box))
  <2>1. CASE box = <<>>
    BY <2>1, AnswerQueue
  <2>2. CASE box # <<>>
    <3>1. /\ queue \o Answer(s, box) = Append(queue, Data(s, Head(box)))
          /\ Data(s, Head(box)) \in Packet
      BY <2>2, AnswerQueue
    <3>2. Intact(Data(s, Head(box)))
      BY DEF Data, Intact
    <3>3. QED
      BY <1>1, <3>1, <3>2
  <2>3. QED
    BY <2>1, <2>2
<1>4. QED
  BY <1>2, <1>3

\* An acknowledgement behind the answers is none of them.
LEMMA AckIsNoAnswer ==
    ASSUME NEW queue \in Seq(Packet), NEW s \in Bit
    PROVE  Append(queue, Ack(s)) \in Seq(Packet) /\ Follows("DATA", Append(queue, Ack(s)), queue)
<1>1. Ack(s) \in Packet /\ Ack(s).type = "ACK"
  BY PacketTypes DEF Ack
<1>2. Append(queue, Ack(s)) \in Seq(Packet)
  BY <1>1, AppendQueue
<1>3. Follows("DATA", Append(queue, Ack(s)), queue)
  BY <1>1, AppendGrows
<1>4. QED
  BY <1>2, <1>3

\* The server takes a payload that is newer than all it has taken.
LEMMA AcceptOrder == OrderInv /\ ServerAccepts => SendingOK' /\ AcceptedGrows' /\ AnswersOK'
<1> SUFFICES ASSUME OrderInv, ServerAccepts
             PROVE  SendingOK' /\ AcceptedGrows' /\ AnswersOK'
    OBVIOUS
<1> USE DEF OrderInv
<1>1. PICK packet \in Packet :
          /\ to_server # <<>> /\ packet = to_server[1] /\ 1 \in Genuine(to_server)
          /\ to_server' = Tail(to_server) /\ to_server' \in Seq(Packet)
          /\ packet.seqno = expected_seqno /\ packet.payload \in Payloads
          /\ accepted' = Append(accepted, packet.payload) /\ accepted' \in Seq(Payloads)
          /\ expected_seqno' = Flip(expected_seqno)
          /\ outbox' \in Seq(Payloads)
          /\ IF Answered(packet.payload) THEN outbox' = Append(outbox, packet.payload)
                                         ELSE outbox' = outbox
          /\ Append(to_client, Ack(packet.seqno)) \in Seq(Packet)
          /\ to_client' = IF outbox = <<>>
                             THEN Append(to_client, Ack(packet.seqno))
                                     \o Answer(server_seqno, outbox')
                             ELSE Append(to_client, Ack(packet.seqno))
          /\ UNCHANGED <<next_seqno, pc, step, returned_ok, received, server_seqno, faults>>
  BY AcceptEffect
<1> DEFINE begun == pc \notin {"start", "ready"}
           mid == Append(to_client, Ack(packet.seqno))
<1>2. /\ SendingIn(to_server, accepted, expected_seqno, step, next_seqno, begun)
      /\ Growing(accepted) /\ begun \in BOOLEAN
      /\ to_server \in Seq(Packet) /\ accepted \in Seq(Payloads)
      /\ step \in Nat /\ next_seqno \in Bit /\ expected_seqno \in Bit
  BY DEF SendingOK, AcceptedGrows, D1TypeOK
<1> HIDE DEF begun
<1>3. /\ \A n \in DOMAIN accepted : accepted[n] < packet.payload
      /\ Growing(Append(accepted, packet.payload))
      /\ SendingIn(Tail(to_server), Append(accepted, packet.payload), Flip(expected_seqno),
                   step, next_seqno, begun)
  BY <1>1, <1>2, SendingTaken
<1>4. SendingOK' /\ AcceptedGrows'
  BY <1>1, <1>3 DEF SendingOK, AcceptedGrows, begun
<1>5. AnswersIn(to_client, accepted', outbox', received)
  <2>1. outbox' = outbox \/ outbox' = Append(outbox, packet.payload)
    BY <1>1
  <2>2. QED
    BY <1>1, <1>3, <2>1, AnswersTaken DEF AnswersOK, D1TypeOK
<1>6. mid \in Seq(Packet) /\ Follows("DATA", mid, to_client)
  BY <1>1, <1>2, AckIsNoAnswer DEF D1TypeOK
<1> HIDE DEF mid
<1>7. AnswersIn(mid, accepted', outbox', received)
  BY <1>5, <1>6, AnswersFollow DEF D1TypeOK
<1>8. AnswersIn(mid \o Answer(server_seqno, outbox'), accepted', outbox', received)
  BY <1>1, <1>6, <1>7, AnswersSent DEF D1TypeOK
<1>9. AnswersOK'
  BY <1>1, <1>7, <1>8 DEF AnswersOK, mid
<1>10. QED
  BY <1>4, <1>9

\* OrderInv is inductive.
LEMMA NextOrder == OrderInv /\ [Next]_vars => OrderInv'
<1> SUFFICES ASSUME OrderInv, [Next]_vars PROVE SendingOK' /\ AcceptedGrows' /\ AnswersOK'
    BY NextTypes DEF OrderInv
<1> USE DEF OrderInv
<1>1. CASE Client \/ SocketFails
  <2>1. accepted' = accepted
    BY <1>1, ClientEffect DEF server
  <2>2. AcceptedGrows'
    BY <2>1 DEF AcceptedGrows
  <2>3. QED
    BY <1>1, <2>2, ClientSending, ClientAnswers
<1>2. CASE ServerAccepts
  BY <1>2, AcceptOrder
<1>3. CASE ServerIgnores \/ ServerRefuses
  <2>1. PICK s \in Bit :
            /\ to_server # <<>> /\ to_server' = Tail(to_server) /\ to_server' \in Seq(Packet)
            /\ to_client' = Append(to_client, Ack(s)) /\ to_client' \in Seq(Packet)
            /\ UNCHANGED <<client, server, faults>>
    BY <1>3, IgnoreEffect
  <2>2. UNCHANGED <<expected_seqno, accepted, server_seqno, outbox, received>>
    BY <2>1 DEF client, server
  <2>3. SendingOK'
    <3>1. Follows("DATA", to_server', to_server)
      BY <2>1, ServerTail
    <3>2. QED
      BY <2>1, <2>2, <3>1, StillSending
  <2>4. AnswersOK'
    <3>1. Follows("DATA", to_client', to_client)
      BY <2>1, AckIsNoAnswer DEF D1TypeOK
    <3>2. AnswersIn(to_client', accepted, outbox, received)
      BY <2>1, <3>1, AnswersFollow DEF AnswersOK, D1TypeOK
    <3>3. QED
      BY <2>2, <3>2 DEF AnswersOK
  <2>5. QED
    BY <2>2, <2>3, <2>4 DEF AcceptedGrows
<1>4. CASE ServerAcked
  <2>1. /\ to_server # <<>> /\ to_server' = Tail(to_server) /\ to_server' \in Seq(Packet)
        /\ outbox # <<>> /\ outbox' = Tail(outbox) /\ outbox' \in Seq(Payloads)
        /\ server_seqno' \in Bit
        /\ to_client' = to_client \o Answer(server_seqno', outbox')
        /\ UNCHANGED <<client, expected_seqno, accepted, faults>>
    BY <1>4, AckedEffect
  <2>2. received' = received
    BY <2>1 DEF client
  <2>3. SendingOK'
    <3>1. Follows("DATA", to_server', to_server)
      BY <2>1, ServerTail
    <3>2. QED
      BY <2>1, <3>1, StillSending
  <2>4. AnswersOK'
    <3>1. AnswersIn(to_client, accepted, outbox', received)
      BY <2>1, AnswersAcked DEF AnswersOK, D1TypeOK
    <3>2. AnswersIn(to_client', accepted, outbox', received)
      BY <2>1, <3>1, AnswersSent DEF D1TypeOK
    <3>3. QED
      BY <2>1, <2>2, <3>2 DEF AnswersOK
  <2>5. QED
    BY <2>1, <2>3, <2>4 DEF AcceptedGrows
<1>5. CASE ServerResends \/ ServerTimeout
  <2>1. /\ \/ to_server # <<>> /\ to_server' = Tail(to_server)
           \/ to_server' = to_server
        /\ to_server' \in Seq(Packet)
        /\ to_client' = to_client \o Answer(server_seqno, outbox)
        /\ UNCHANGED <<client, server>>
    BY <1>5, ResendEffect
  <2>2. UNCHANGED <<expected_seqno, accepted, outbox, received>>
    BY <2>1 DEF client, server
  <2>3. SendingOK'
    <3>1. Follows("DATA", to_server', to_server)
      BY <2>1, ServerTail
    <3>2. QED
      BY <2>1, <2>2, <3>1, StillSending
  <2>4. AnswersOK'
    <3>1. AnswersIn(to_client', accepted, outbox, received)
      BY <2>1, AnswersSent DEF AnswersOK, D1TypeOK
    <3>2. QED
      BY <2>2, <3>1 DEF AnswersOK
  <2>5. QED
    BY <2>2, <2>3, <2>4 DEF AcceptedGrows
<1>6. CASE Network
  <2>1. /\ to_server' \in Seq(Packet) /\ to_client' \in Seq(Packet)
        /\ Follows("DATA", to_server', to_server)
        /\ Follows("DATA", to_client', to_client)
        /\ UNCHANGED <<client, server>>
    BY <1>6, NetworkEffect
  <2>2. UNCHANGED <<expected_seqno, accepted, outbox, received>>
    BY <2>1 DEF client, server
  <2>3. SendingOK'
    BY <2>1, <2>2, StillSending
  <2>4. AnswersOK'
    <3>1. AnswersIn(to_client', accepted, outbox, received)
      BY <2>1, AnswersFollow DEF AnswersOK, D1TypeOK
    <3>2. QED
      BY <2>2, <3>1 DEF AnswersOK
  <2>5. QED
    BY <2>2, <2>3, <2>4 DEF AcceptedGrows
<1>7. CASE UNCHANGED vars
  BY <1>7 DEF vars, client, server, SendingOK, AcceptedGrows, AnswersOK
<1>8. QED
  BY <1>1, <1>2, <1>3, <1>4, <1>5, <1>6, <1>7 DEF Next, Server

-------------------------------------------------------------------------------
(* No answer is lost unless something was damaged *)

\* A payload that is taken goes to outbox if an answer is due.
LEMMA KeptTaken ==
    ASSUME NEW taken \in Seq(Payloads), NEW box \in Seq(Payloads), NEW got,
           NEW p \in Payloads, NEW more, KeptIn(taken, box, got),
           IF Answered(p) THEN more = Append(box, p) ELSE more = box
    PROVE  KeptIn(Append(taken, p), more, got)
<1>1. \A n \in DOMAIN Append(taken, p) :
          (n \in DOMAIN taken /\ Append(taken, p)[n] = taken[n]) \/ Append(taken, p)[n] = p
  BY AppendQueue
<1>2. \A x : Contains(box, x) => Contains(more, x)
  BY ContainsFacts
<1>3. Answered(p) => Contains(more, p)
  BY ContainsFacts
<1>4. QED
  BY <1>1, <1>2, <1>3 DEF KeptIn

\* The answer that is dropped has been received.
LEMMA KeptAcked ==
    ASSUME NEW taken, NEW box \in Seq(Payloads), box # <<>>, NEW got,
           KeptIn(taken, box, got), Contains(got, box[1])
    PROVE  KeptIn(taken, Tail(box), got)
<1>1. \A x : Contains(box, x) => x = box[1] \/ Contains(Tail(box), x)
  <2>1. /\ Len(box) \in Nat /\ Len(Tail(box)) = Len(box) - 1
        /\ \A i \in 1 .. Len(Tail(box)) : Tail(box)[i] = box[i + 1]
    BY HeadTailProperties, EmptySeq, LenProperties
  <2>2. ASSUME NEW i \in 1 .. Len(box), i # 1
        PROVE  i - 1 \in 1 .. Len(Tail(box)) /\ Tail(box)[i - 1] = box[i]
    <3>1. i - 1 \in 1 .. Len(Tail(box)) /\ (i - 1) + 1 = i
      BY <2>1, <2>2
    <3>2. QED
      BY <2>1, <3>1
  <2>3. QED
    BY <2>2 DEF Contains
<1>2. QED
  BY <1>1 DEF KeptIn

\* Receiving one more answer loses none.
LEMMA KeptReceived ==
    ASSUME NEW taken, NEW box, NEW got \in Seq(Payloads), NEW p \in Payloads,
           KeptIn(taken, box, got)
    PROVE  KeptIn(taken, box, Append(got, p))
BY ContainsFacts DEF KeptIn

\* What a packet that is handled did say of itself.
LEMMA IntactFollows ==
    ASSUME NEW new, NEW queue, AnswersIntact(queue),
           \A i \in DOMAIN new : \E k \in DOMAIN queue : new[i] = queue[k]
    PROVE  AnswersIntact(new)
BY DEF AnswersIntact

\* While nothing was damaged the client acknowledges the answers it received
\* and no other.
LEMMA ClientKeeps ==
    ASSUME OrderInv, AckedOK, AnswersKept, Client \/ SocketFails
    PROVE  AckedOK' /\ AnswersKept'
<1> USE DEF OrderInv
<1>1. UNCHANGED <<server_seqno, accepted, outbox>>
  BY ClientEffect DEF server
<1>2. to_server' \in Seq(Packet) /\ to_client' \in Seq(Packet)
  BY ClientEffect
<1>3. AnswersIntact(to_client')
  BY ClientEffect, IntactFollows DEF AckedOK
<1>4. ~RecvDamaged
  <2>1. SUFFICES ASSUME RecvDamaged PROVE FALSE
    OBVIOUS
  <2>2. PICK packet \in Packet : Receiving(packet) /\ packet.type = "DATA" /\ ~Intact(packet)
    BY <2>1 DEF RecvDamaged
  <2>3. 1 \in DOMAIN to_client /\ packet = to_client[1]
    BY <2>2, ClientTakes
  <2>4. QED
    BY <2>2, <2>3 DEF AckedOK, AnswersIntact
<1>5. CASE /\ received' = received
           /\ Follows("DATA", to_client', to_client)
           /\ Follows("ACK", to_server', to_server)
  <2>1. AckedIn(to_server', to_client', server_seqno, outbox, received)
    BY <1>2, <1>5, AckedFollows DEF AckedOK, D1TypeOK
  <2>2. QED
    BY <1>1, <1>3, <1>5, <2>1 DEF AckedOK, AnswersKept
<1>6. CASE /\ to_client # <<>> /\ 1 \in Genuine(to_client)
           /\ to_client' = Tail(to_client)
           /\ received' = Append(received, to_client[1].payload)
           /\ to_server' = Append(to_server, Ack(to_client[1].seqno))
  <2>1. AckedIn(to_server', to_client', server_seqno, outbox, received')
    BY <1>6, AckedReceived DEF AckedOK, D1TypeOK
  <2>2. to_client[1].payload \in Payloads
    BY <1>6, QueueFacts DEF Genuine, D1TypeOK
  <2>3. KeptIn(accepted, outbox, received')
    BY <1>6, <2>2, KeptReceived DEF AnswersKept, D1TypeOK
  <2>4. QED
    BY <1>1, <1>3, <2>1, <2>3 DEF AckedOK, AnswersKept
<1>7. QED
  BY <1>4, <1>5, <1>6, ClientEffect

\* The server keeps the answer of a payload it takes.
LEMMA AcceptKeeps ==
    ASSUME OrderInv, AckedOK, AnswersKept, ServerAccepts
    PROVE  AckedOK' /\ AnswersKept'
<1> USE DEF OrderInv
<1>1. PICK packet \in Packet :
          /\ to_server # <<>> /\ packet = to_server[1] /\ 1 \in Genuine(to_server)
          /\ to_server' = Tail(to_server) /\ to_server' \in Seq(Packet)
          /\ packet.seqno = expected_seqno /\ packet.payload \in Payloads
          /\ accepted' = Append(accepted, packet.payload) /\ accepted' \in Seq(Payloads)
          /\ expected_seqno' = Flip(expected_seqno)
          /\ outbox' \in Seq(Payloads)
          /\ IF Answered(packet.payload) THEN outbox' = Append(outbox, packet.payload)
                                         ELSE outbox' = outbox
          /\ Append(to_client, Ack(packet.seqno)) \in Seq(Packet)
          /\ to_client' = IF outbox = <<>>
                             THEN Append(to_client, Ack(packet.seqno))
                                     \o Answer(server_seqno, outbox')
                             ELSE Append(to_client, Ack(packet.seqno))
          /\ UNCHANGED <<next_seqno, pc, step, returned_ok, received, server_seqno, faults>>
  BY AcceptEffect
<1> DEFINE mid == Append(to_client, Ack(packet.seqno))
<1>2. /\ mid \in Seq(Packet) /\ Follows("DATA", mid, to_client) /\ AnswersIntact(mid)
      /\ packet.seqno \in Bit
  BY <1>1, AckIsNoAnswer, IntactGrows DEF AckedOK, D1TypeOK
<1> HIDE DEF mid
<1>3. Follows("ACK", to_server', to_server)
  BY <1>1, ServerTail
<1>4. AckedIn(to_server', mid, server_seqno, outbox, received)
  BY <1>1, <1>2, <1>3, AckedFollows DEF AckedOK, D1TypeOK
<1>5. outbox # <<>> => outbox' # <<>> /\ outbox'[1] = outbox[1]
  <2>1. SUFFICES ASSUME outbox # <<>> PROVE outbox' # <<>> /\ outbox'[1] = outbox[1]
    OBVIOUS
  <2>2. 1 \in DOMAIN outbox
    BY <2>1, TailQueue DEF D1TypeOK
  <2>3. CASE outbox' = Append(outbox, packet.payload)
    <3>1. 1 \in DOMAIN outbox' /\ outbox'[1] = outbox[1]
      BY <1>1, <2>2, <2>3, AppendQueue DEF D1TypeOK
    <3>2. outbox' # <<>>
      BY <1>1, <3>1, EmptySeq
    <3>3. QED
      BY <3>1, <3>2
  <2>4. QED
    BY <1>1, <2>1, <2>3
<1>6. AckedIn(to_server', mid, server_seqno, outbox', received)
  BY <1>4, <1>5, AckedBox DEF D1TypeOK
<1>7. /\ AckedIn(to_server', mid \o Answer(server_seqno, outbox'), server_seqno, outbox', received)
      /\ AnswersIntact(mid \o Answer(server_seqno, outbox'))
  BY <1>1, <1>2, <1>6, AckedSent, IntactGrows DEF D1TypeOK
<1>8. AckedOK'
  BY <1>1, <1>2, <1>6, <1>7 DEF AckedOK, mid
<1>9. KeptIn(accepted', outbox', received)
  BY <1>1, KeptTaken DEF AnswersKept, D1TypeOK
<1>10. QED
  BY <1>1, <1>8, <1>9 DEF AnswersKept

\* It drops only an answer that was acknowledged, and sends only the first it
\* keeps.
LEMMA ServerKeeps ==
    ASSUME OrderInv, AckedOK, AnswersKept,
           \/ ServerIgnores \/ ServerRefuses \/ ServerAcked \/ ServerResends \/ ServerTimeout
    PROVE  AckedOK' /\ AnswersKept'
<1> USE DEF OrderInv
<1>1. CASE ServerIgnores \/ ServerRefuses
  <2>1. PICK s \in Bit :
            /\ to_server # <<>> /\ to_server' = Tail(to_server) /\ to_server' \in Seq(Packet)
            /\ to_client' = Append(to_client, Ack(s)) /\ to_client' \in Seq(Packet)
            /\ UNCHANGED <<client, server, faults>>
    BY <1>1, IgnoreEffect
  <2>2. UNCHANGED <<accepted, server_seqno, outbox, received>>
    BY <2>1 DEF client, server
  <2>3. Follows("ACK", to_server', to_server)
    BY <2>1, ServerTail
  <2>4. Follows("DATA", to_client', to_client) /\ AnswersIntact(to_client')
    BY <2>1, AckIsNoAnswer, IntactGrows DEF AckedOK, D1TypeOK
  <2>5. AckedIn(to_server', to_client', server_seqno, outbox, received)
    BY <2>1, <2>3, <2>4, AckedFollows DEF AckedOK, D1TypeOK
  <2>6. QED
    BY <2>2, <2>4, <2>5 DEF AckedOK, AnswersKept
<1>2. CASE ServerAcked
  <2>1. /\ to_server # <<>> /\ to_server' = Tail(to_server) /\ to_server' \in Seq(Packet)
        /\ 1 \in Acks(to_server) /\ to_server[1].seqno = server_seqno
        /\ outbox # <<>> /\ outbox' = Tail(outbox) /\ outbox' \in Seq(Payloads)
        /\ server_seqno' = Flip(server_seqno) /\ server_seqno' \in Bit
        /\ to_client' = to_client \o Answer(server_seqno', outbox')
        /\ UNCHANGED <<client, expected_seqno, accepted, faults>>
    BY <1>2, AckedEffect
  <2>2. UNCHANGED <<received, accepted>>
    BY <2>1 DEF client
  <2>3. AckedIn(to_server', to_client, server_seqno', outbox', received)
    BY <2>1, AckedMoves DEF AckedOK, D1TypeOK
  <2>4. AckedIn(to_server', to_client', server_seqno', outbox', received)
    BY <2>1, <2>3, AckedSent DEF D1TypeOK
  <2>5. AnswersIntact(to_client')
    BY <2>1, IntactGrows DEF AckedOK, D1TypeOK
  <2>6. Contains(received, outbox[1])
    BY <2>1 DEF AckedOK, AckedIn
  <2>7. KeptIn(accepted, outbox', received)
    BY <2>1, <2>6, KeptAcked DEF AnswersKept, D1TypeOK
  <2>8. QED
    BY <2>2, <2>4, <2>5, <2>7 DEF AckedOK, AnswersKept
<1>3. CASE ServerResends \/ ServerTimeout
  <2>1. /\ \/ to_server # <<>> /\ to_server' = Tail(to_server)
           \/ to_server' = to_server
        /\ to_server' \in Seq(Packet)
        /\ to_client' = to_client \o Answer(server_seqno, outbox)
        /\ UNCHANGED <<client, server>>
    BY <1>3, ResendEffect
  <2>2. UNCHANGED <<accepted, server_seqno, outbox, received>>
    BY <2>1 DEF client, server
  <2>3. Follows("ACK", to_server', to_server) /\ Follows("DATA", to_client, to_client)
    BY <2>1, ServerTail, StillFollows
  <2>4. AckedIn(to_server', to_client, server_seqno, outbox, received)
    BY <2>1, <2>3, AckedFollows DEF AckedOK, D1TypeOK
  <2>5. AckedIn(to_server', to_client', server_seqno, outbox, received)
    BY <2>1, <2>4, AckedSent DEF D1TypeOK
  <2>6. AnswersIntact(to_client')
    BY <2>1, IntactGrows DEF AckedOK, D1TypeOK
  <2>7. QED
    BY <2>2, <2>5, <2>6 DEF AckedOK, AnswersKept
<1>4. QED
  BY <1>1, <1>2, <1>3

\* Losing and copying packets changes nothing of this.
LEMMA NetworkKeeps ==
    ASSUME OrderInv, AckedOK, AnswersKept, Network, ~faults'.damaged
    PROVE  AckedOK' /\ AnswersKept'
<1> USE DEF OrderInv
<1>1. /\ to_server' \in Seq(Packet) /\ to_client' \in Seq(Packet)
      /\ Follows("ACK", to_server', to_server)
      /\ Follows("DATA", to_client', to_client)
      /\ UNCHANGED <<client, server>>
  BY NetworkEffect
<1>2. UNCHANGED <<accepted, server_seqno, outbox, received>>
  BY <1>1 DEF client, server
<1>3. AnswersIntact(to_client')
  BY NetworkEffect DEF AckedOK, AnswersIntact
<1>4. AckedIn(to_server', to_client', server_seqno, outbox, received)
  BY <1>1, AckedFollows DEF AckedOK, D1TypeOK
<1>5. QED
  BY <1>2, <1>3, <1>4 DEF AckedOK, AnswersKept

\* AnswerInv is inductive.
LEMMA NextAnswers == AnswerInv /\ [Next]_vars => AnswerInv'
<1> SUFFICES ASSUME AnswerInv, [Next]_vars, ~faults'.damaged
             PROVE  AckedOK' /\ AnswersKept'
    BY NextOrder DEF AnswerInv
<1>1. ~faults.damaged
  <2>1. OrderInv /\ D1TypeOK
    BY DEF AnswerInv, OrderInv
  <2>2. CASE Client \/ SocketFails
    BY <2>1, <2>2, ClientEffect
  <2>3. CASE ServerAccepts
    BY <2>1, <2>3, AcceptEffect
  <2>4. CASE ServerIgnores \/ ServerRefuses
    BY <2>1, <2>4, IgnoreEffect
  <2>5. CASE ServerAcked
    BY <2>1, <2>5, AckedEffect
  <2>6. CASE ServerResends \/ ServerTimeout
    BY <2>1, <2>6, ResendEffect
  <2>7. CASE Network
    BY <2>1, <2>7, NetworkEffect
  <2>8. CASE UNCHANGED vars
    BY <2>8 DEF vars
  <2>9. QED
    BY <2>2, <2>3, <2>4, <2>5, <2>6, <2>7, <2>8 DEF Next, Server
<1>2. OrderInv /\ AckedOK /\ AnswersKept
  BY <1>1 DEF AnswerInv
<1>3. CASE UNCHANGED vars
  BY <1>2, <1>3 DEF vars, client, server, AckedOK, AnswersKept
<1>4. QED
  BY <1>2, <1>3, ClientKeeps, AcceptKeeps, ServerKeeps, NetworkKeeps DEF Next, Server

-------------------------------------------------------------------------------
(* The theorems *)

\* AnswerInv holds at the start.
LEMMA InitAnswers == Init => AnswerInv
<1> SUFFICES ASSUME Init PROVE AnswerInv
    OBVIOUS
<1>1. D1TypeOK
  BY InitTypes
<1>2. DOMAIN to_server = {} /\ DOMAIN to_client = {} /\ DOMAIN accepted = {}
      /\ DOMAIN received = {} /\ DOMAIN outbox = {}
  BY DEF Init
<1>3. Genuine(to_server) = {} /\ Genuine(to_client) = {} /\ Acks(to_server) = {}
  BY <1>2 DEF Genuine, Acks, Whole
<1>4. SendingOK /\ AcceptedGrows /\ AnswersOK
  BY <1>2, <1>3 DEF SendingOK, SendingIn, AcceptedGrows, Growing, AnswersOK, AnswersIn
<1>5. AckedOK /\ AnswersKept
  BY <1>2, <1>3 DEF AckedOK, AckedIn, AnswersIntact, AnswersKept, KeptIn
<1>6. QED
  BY <1>1, <1>4, <1>5 DEF AnswerInv, OrderInv

\* In every state the packets on their way tell what AnswerInv says, whatever
\* goes wrong in the network or the sockets.
THEOREM AnswerInvHolds == Spec => []AnswerInv
<1>1. QED
  BY InitAnswers, NextAnswers, PTL DEF Spec

\* AcceptedOnceInOrder follows from OrderInv.
LEMMA OrderMeansOnce == OrderInv => AcceptedOnceInOrder
<1> SUFFICES ASSUME OrderInv PROVE AcceptedOnceInOrder
    OBVIOUS
<1>1. received \in Seq(Payloads)
  BY DEF OrderInv, D1TypeOK
<1>2. \A i, j \in DOMAIN received : i < j => i <= j
  BY <1>1, PayloadFacts
<1>3. QED
  BY <1>2 DEF AcceptedOnceInOrder, OrderInv, AcceptedGrows, Growing, AnswersOK, AnswersIn

\* NoAnswerLost follows from AnswerInv.
LEMMA KeptMeansNotLost == AnswerInv => NoAnswerLost
BY DEF AnswerInv, AnswersKept, KeptIn, NoAnswerLost

\* d1_wait_ack's resends, with the server's one-bit number, never make the
\* server take a payload twice or out of order, and d1_recv_data returns no
\* answer behind a later one: whatever is lost, copied, damaged or sent late.
THEOREM AcceptedOnceInOrderHolds == Spec => []AcceptedOnceInOrder
<1>1. AnswerInv => AcceptedOnceInOrder
  BY OrderMeansOnce DEF AnswerInv
<1>2. QED
  BY <1>1, AnswerInvHolds, PTL

\* While nothing was damaged, an answer that is due is kept by the server or
\* has been returned by d1_recv_data.
THEOREM NoAnswerLostHolds == Spec => []NoAnswerLost
BY KeptMeansNotLost, AnswerInvHolds, PTL

-------------------------------------------------------------------------------
(* One packet at a time: nothing worse than damage to data *)

\* Queues of at most two packets.
LEMMA ShortQueues ==
    ASSUME NEW a \in Packet, NEW b \in Packet
    PROVE  /\ Head(<<a>>) = a /\ Tail(<<a>>) = <<>> /\ <<a>> # <<>>
           /\ Head(<<a, b>>) = a /\ Tail(<<a, b>>) = <<b>> /\ <<a, b>> # <<>>
           /\ Append(<<>>, a) = <<a>> /\ Append(<<a>>, b) = <<a, b>>
           /\ <<>> \o <<a>> = <<a>> /\ <<a>> \o <<b>> = <<a, b>> /\ <<a>> \o <<>> = <<a>>
           /\ <<>> \o <<>> = <<>>
<1>1. <<a>> \in Seq(Packet) /\ <<a, b>> \in Seq(Packet) /\ <<b>> \in Seq(Packet)
  OBVIOUS
<1>2. Len(<<a>>) = 1 /\ Len(<<a, b>>) = 2 /\ <<a>> # <<>> /\ <<a, b>> # <<>>
  OBVIOUS
<1>3. Head(<<a>>) = a /\ Head(<<a, b>>) = a
  OBVIOUS
<1>4. Tail(<<a>>) = <<>>
  <2>1. Tail(<<a>>) \in Seq(Packet) /\ Len(Tail(<<a>>)) = 0
    BY <1>1, <1>2, HeadTailProperties
  <2>2. QED
    BY <2>1, EmptySeq
<1>5. Tail(<<a, b>>) = <<b>>
  <2>1. /\ Tail(<<a, b>>) \in Seq(Packet) /\ Len(Tail(<<a, b>>)) = 1
        /\ \A i \in 1 .. Len(Tail(<<a, b>>)) : Tail(<<a, b>>)[i] = <<a, b>>[i + 1]
    BY <1>1, <1>2, HeadTailProperties
  <2>2. Tail(<<a, b>>)[1] = b
    <3>1. 1 \in 1 .. Len(Tail(<<a, b>>)) /\ <<a, b>>[1 + 1] = b
      BY <2>1
    <3>2. QED
      BY <2>1, <3>1
  <2>3. QED
    BY <1>1, <2>1, <2>2, SeqEqual
<1>6. Append(<<>>, a) = <<a>>
  OBVIOUS
<1>7. Append(<<a>>, b) = <<a, b>>
  <2>1. /\ Append(<<a>>, b) \in Seq(Packet) /\ Len(Append(<<a>>, b)) = 2
        /\ Append(<<a>>, b)[1] = a /\ Append(<<a>>, b)[2] = b
    BY <1>1, <1>2, AppendProperties
  <2>2. \A i \in 1 .. 2 : Append(<<a>>, b)[i] = <<a, b>>[i]
    <3>1. \A i \in 1 .. 2 : i = 1 \/ i = 2
      OBVIOUS
    <3>2. <<a, b>>[1] = a /\ <<a, b>>[2] = b
      OBVIOUS
    <3>3. QED
      BY <2>1, <3>1, <3>2
  <2>3. QED
    BY <1>1, <1>2, <2>1, <2>2, SeqEqual
<1>8. /\ <<>> \o <<a>> = <<a>> /\ <<a>> \o <<b>> = <<a, b>>
      /\ <<a>> \o <<>> = <<a>> /\ <<>> \o <<>> = <<>>
  <2>1. <<a>> \o <<b>> = Append(<<a>>, b) /\ <<>> \o <<a>> = Append(<<>>, a)
    BY <1>1, AppendQueue
  <2>2. <<a>> \o <<>> = <<a>> /\ <<>> \o <<>> = <<>>
    BY <1>1, ConcatEmptySeq
  <2>3. QED
    BY <1>6, <1>7, <2>1, <2>2
<1>9. QED
  BY <1>2, <1>3, <1>4, <1>5, <1>6, <1>7, <1>8

\* An outbox of one answer.
LEMMA ShortBoxes ==
    /\ \A p \in Payloads : /\ Append(<<>>, p) = <<p>> /\ Len(<<p>>) = 1 /\ <<p>> # <<>>
                           /\ Head(<<p>>) = p
    /\ \A box \in Seq(Payloads) : Len(box) = 1 => box # <<>> /\ Tail(box) = <<>>
<1>1. ASSUME NEW p \in Payloads
      PROVE  Append(<<>>, p) = <<p>> /\ Len(<<p>>) = 1 /\ <<p>> # <<>> /\ Head(<<p>>) = p
  OBVIOUS
<1>2. ASSUME NEW box \in Seq(Payloads), Len(box) = 1
      PROVE  box # <<>> /\ Tail(box) = <<>>
  <2>1. box # <<>>
    BY <1>2, EmptySeq
  <2>2. Tail(box) \in Seq(Payloads) /\ Len(Tail(box)) = 0
    BY <1>2, <2>1, HeadTailProperties
  <2>3. QED
    BY <2>1, <2>2, EmptySeq
<1>3. QED
  BY <1>1, <1>2

\* A data packet that is whole is as it was sent.
LEMMA VersionFacts ==
    ASSUME NEW s \in Bit, NEW p \in Payloads
    PROVE  /\ \A packet \in Versions(s, p) :
                 /\ packet \in Packet /\ packet.type = "DATA" /\ packet.seqno = s
                 /\ Intact(packet) => packet = Data(s, p) /\ packet.payload = p
           /\ Data(s, p) \in Versions(s, p) /\ Intact(Data(s, p)) /\ Data(s, p) \in Packet
           /\ Damaged(Data(s, p), "data") \in Versions(s, p)
           /\ Ack(s) \in Packet /\ Ack(s).type = "ACK" /\ Ack(s).seqno = s /\ Intact(Ack(s))
           /\ IsAck(Ack(s))
<1>1. /\ Data(s, p) \in Packet /\ Ack(s) \in Packet
      /\ Damaged(Data(s, p), "data") \in Packet /\ ~Intact(Damaged(Data(s, p), "data"))
  BY PacketTypes
<1>2. Damaged(Data(s, p), "data").type = "DATA" /\ Damaged(Data(s, p), "data").seqno = s
  BY DEF Damaged, Data
<1>3. Data(s, p).type = "DATA" /\ Data(s, p).seqno = s /\ Data(s, p).payload = p /\ Intact(Data(s, p))
  BY DEF Data, Intact
<1>4. Ack(s).type = "ACK" /\ Ack(s).seqno = s /\ Intact(Ack(s)) /\ IsAck(Ack(s))
  BY DEF Ack, Intact, IsAck
<1>5. QED
  BY <1>1, <1>2, <1>3, <1>4 DEF Versions

\* No other fault happens.
LEMMA OnlyDamage ==
    ASSUME Faults \subseteq {"damage"}
    PROVE  /\ ~Fault("socket") /\ ~Fault("late")
           /\ \A packet, outcome : outcome \in Outcomes(packet) =>
                 packet.type = "DATA" /\ outcome = <<Damaged(packet, "data")>>
<1>1. ~Fault("socket") /\ ~Fault("late")
  BY DEF Fault
<1>2. /\ Faults \cap {"lose"} = {} /\ Faults \cap {"duplicate"} = {}
      /\ Faults \cap {"flip_seqno"} = {} /\ "damage_ack" \notin Faults
  OBVIOUS
<1>3. ASSUME NEW packet, NEW outcome \in Outcomes(packet)
      PROVE  packet.type = "DATA" /\ outcome = <<Damaged(packet, "data")>>
  BY <1>2, <1>3 DEF Outcomes
<1>4. QED
  BY <1>1, <1>3

\* What the client waits for, and what it finds.
LEMMA SessionWaits ==
    ASSUME D1TypeOK, SessionOK, NEW packet \in Packet, Waiting(packet)
    PROVE  /\ pc = "wait_ack" /\ step \in Calls /\ step \in Nat /\ IsAck(packet)
           /\ \/ Refused /\ packet = Ack(Flip(next_seqno)) /\ to_client' = <<>>
              \/ TakenUp /\ packet = Ack(next_seqno)
                 /\ to_client' = IF Answered(step) THEN <<Data(server_seqno, step)>> ELSE <<>>
<1>1. /\ pc = "wait_ack" /\ to_client # <<>> /\ packet = Head(to_client)
      /\ to_client' = Tail(to_client)
  BY DEF Waiting
<1>2. step \in Calls /\ step \in Nat /\ step \in Payloads
  BY <1>1, ScriptFacts DEF D1TypeOK, Payloads
<1>3. /\ next_seqno \in Bit /\ Flip(next_seqno) \in Bit /\ server_seqno \in Bit
  BY PacketTypes DEF D1TypeOK
<1>4. /\ Ack(next_seqno) \in Packet /\ IsAck(Ack(next_seqno))
      /\ Ack(Flip(next_seqno)) \in Packet /\ IsAck(Ack(Flip(next_seqno)))
      /\ Data(server_seqno, step) \in Packet
  BY <1>2, <1>3, VersionFacts
<1>5. CASE Refused
  BY <1>1, <1>2, <1>4, <1>5, ShortQueues DEF Refused
<1>6. CASE TakenUp
  <2>1. CASE Answered(step)
    <3>1. to_client = <<Ack(next_seqno), Data(server_seqno, step)>>
      BY <1>6, <2>1 DEF TakenUp
    <3>2. packet = Ack(next_seqno) /\ to_client' = <<Data(server_seqno, step)>>
      BY <1>1, <1>4, <3>1, ShortQueues
    <3>3. QED
      BY <1>1, <1>2, <1>4, <1>6, <2>1, <3>2
  <2>2. CASE ~Answered(step)
    BY <1>1, <1>2, <1>4, <1>6, <2>2, ShortQueues DEF TakenUp
  <2>3. QED
    BY <2>1, <2>2
<1>7. ~Upward
  BY <1>1 DEF Upward
<1>8. QED
  BY <1>1, <1>5, <1>6, <1>7 DEF SessionOK

\* What it finds when it is to receive.
LEMMA SessionReceives ==
    ASSUME D1TypeOK, SessionOK, NEW packet \in Packet, Receiving(packet)
    PROVE  /\ pc = "ready" /\ step \in Calls /\ step \in Nat /\ step - 1 \in Payloads
           /\ Script[step] = "recv" /\ Due /\ to_server = <<>> /\ to_client' = <<>>
           /\ packet \in Versions(server_seqno, step - 1) /\ to_client = <<packet>>
           /\ packet.type = "DATA" /\ packet.seqno = server_seqno
<1>1. /\ pc = "ready" /\ Script[step] = "recv" /\ to_client # <<>> /\ packet = Head(to_client)
      /\ to_client' = Tail(to_client)
  BY DEF Receiving, Calling
<1>2. step \in Calls /\ step \in Nat /\ step - 1 \in Payloads
  BY <1>1, ScriptFacts DEF D1TypeOK, Payloads
<1>3. Due
  BY <1>1 DEF SessionOK, Quiet
<1>4. PICK p \in Versions(server_seqno, step - 1) : to_client = <<p>> /\ to_server = <<>>
  BY <1>1, <1>3 DEF Due
<1>5. p \in Packet /\ p.type = "DATA" /\ p.seqno = server_seqno
  BY <1>2, VersionFacts DEF D1TypeOK
<1>6. QED
  BY <1>1, <1>2, <1>3, <1>4, <1>5, ShortQueues

\* The steps of the client keep SessionOK.
LEMMA ClientSession ==
    ASSUME D1TypeOK, SessionOK, Client
    PROVE  SessionOK'
<1>1. CASE Start
  BY <1>1 DEF Start, SessionOK, Quiet, Settled, server
<1>2. CASE SendData
  <2>1. /\ pc = "ready" /\ Script[step] = "send" /\ pc' = "wait_ack"
        /\ to_server' = Append(to_server, Data(next_seqno, step))
        /\ UNCHANGED <<to_client, next_seqno, step, expected_seqno, server_seqno, outbox>>
    BY <1>2 DEF SendData, Calling, server
  <2>2. Quiet
    BY <2>1 DEF SessionOK
  <2>3. step \in Payloads /\ next_seqno \in Bit /\ server_seqno \in Bit
    BY <2>1 DEF D1TypeOK, Payloads
  <2>4. /\ Data(next_seqno, step) \in Packet /\ Ack(server_seqno) \in Packet
        /\ Intact(Data(next_seqno, step))
        /\ Data(next_seqno, step) \in Versions(next_seqno, step)
    BY <2>3, VersionFacts
  <2>5. \/ to_server' = <<Data(next_seqno, step)>> /\ outbox = <<>>
        \/ to_server' = <<Ack(server_seqno), Data(next_seqno, step)>> /\ Len(outbox) = 1
    BY <2>1, <2>2, <2>4, ShortQueues DEF Quiet, Settled
  <2>6. Upward'
    BY <2>1, <2>2, <2>4, <2>5 DEF Upward, Quiet
  <2>7. QED
    BY <2>1, <2>6 DEF SessionOK
<1>3. CASE AckReceived
  <2>1. PICK packet \in Packet : Waiting(packet) /\ packet.seqno = next_seqno
    BY <1>3 DEF AckReceived, Acknowledges
  <2>2. /\ next_seqno' = Flip(next_seqno) /\ step' = step + 1
        /\ pc' = IF step = Len(Script) THEN "done" ELSE "ready"
        /\ UNCHANGED <<to_server, expected_seqno, accepted, server_seqno, outbox>>
    BY <1>3 DEF AckReceived, SendReturnsOk, Return, server
  <2>3. /\ Flip(next_seqno) \in Bit /\ Flip(next_seqno) # next_seqno
        /\ Ack(Flip(next_seqno)).seqno = Flip(next_seqno)
    BY PacketTypes DEF Ack, D1TypeOK
  <2>4. /\ TakenUp /\ step \in Calls /\ step \in Nat
        /\ to_client' = IF Answered(step) THEN <<Data(server_seqno, step)>> ELSE <<>>
    BY <2>1, <2>3, SessionWaits
  <2>5. next_seqno' = expected_seqno'
    BY <2>2, <2>4 DEF TakenUp, D1TypeOK, Bit, Flip
  <2>6. CASE Answered(step)
    <3>1. step + 1 \in Calls /\ Script[step + 1] = "recv"
      BY <2>6 DEF Answered
    <3>2. step # Len(Script) /\ (step + 1) - 1 = step
      BY <2>4, <3>1, ScriptFacts
    <3>3. pc' = "ready" /\ Script[step'] = "recv" /\ step' - 1 = step
      BY <2>2, <3>1, <3>2
    <3>4. Data(server_seqno, step) \in Versions(server_seqno, step)
      BY DEF Versions
    <3>5. Due'
      BY <2>2, <2>4, <2>5, <2>6, <3>3, <3>4 DEF TakenUp, Due, LastAccepted
    <3>6. QED
      BY <3>3, <3>5 DEF SessionOK
  <2>7. CASE ~Answered(step)
    <3>1. Quiet'
      BY <2>2, <2>4, <2>5, <2>7 DEF TakenUp, Quiet, Settled
    <3>2. QED
      BY <2>2, <3>1 DEF SessionOK
  <2>8. QED
    BY <2>6, <2>7
<1>4. CASE WrongAck
  <2>1. PICK packet \in Packet : Waiting(packet) /\ packet.seqno # next_seqno
    BY <1>4 DEF WrongAck, Acknowledges
  <2>2. /\ to_server' = Append(to_server, Data(next_seqno, step))
        /\ UNCHANGED <<next_seqno, pc, step, expected_seqno, outbox>>
    BY <1>4 DEF WrongAck, server
  <2>3. Ack(next_seqno).seqno = next_seqno
    BY DEF Ack
  <2>4. Refused /\ to_client' = <<>> /\ pc = "wait_ack" /\ step \in Calls
    BY <2>1, <2>3, SessionWaits
  <2>5. /\ Data(next_seqno, step) \in Packet
        /\ Data(next_seqno, step) \in Versions(next_seqno, step)
    BY <2>4, VersionFacts DEF D1TypeOK, Payloads
  <2>6. to_server' = <<Data(next_seqno, step)>>
    BY <2>2, <2>4, <2>5, ShortQueues DEF Refused
  <2>7. Upward'
    BY <2>2, <2>4, <2>5, <2>6 DEF Upward, Refused
  <2>8. QED
    BY <2>2, <2>4, <2>7 DEF SessionOK
<1>5. ~NoAck
  BY SessionWaits DEF NoAck
<1>6. CASE RecvData
  <2>1. PICK packet \in Packet :
            Receiving(packet) /\ to_server' = Append(to_server, Ack(packet.seqno))
    BY <1>6 DEF RecvData
  <2>2. /\ pc' \in {"ready", "done"}
        /\ UNCHANGED <<next_seqno, expected_seqno, server_seqno, outbox>>
    BY <1>6 DEF RecvData, Return, server
  <2>3. /\ to_server = <<>> /\ to_client' = <<>> /\ Due /\ packet.seqno = server_seqno
        /\ step - 1 \in Payloads
    BY <2>1, SessionReceives
  <2>4. Ack(server_seqno) \in Packet
    BY PacketTypes DEF D1TypeOK
  <2>5. to_server' = <<Ack(server_seqno)>>
    BY <2>1, <2>3, <2>4, ShortQueues
  <2>6. Len(outbox) = 1
    BY <2>3, ShortBoxes DEF Due
  <2>7. Quiet'
    BY <2>2, <2>3, <2>5, <2>6 DEF Quiet, Settled, Due
  <2>8. QED
    BY <2>2, <2>7 DEF SessionOK
<1>7. CASE RecvDamaged
  <2>1. PICK packet \in Packet :
            Receiving(packet) /\ to_server' = Append(to_server, Ack(Flip(packet.seqno)))
    BY <1>7 DEF RecvDamaged
  <2>2. UNCHANGED <<next_seqno, pc, step, expected_seqno, accepted, server_seqno, outbox>>
    BY <1>7 DEF RecvDamaged, client, server
  <2>3. /\ to_server = <<>> /\ to_client' = <<>> /\ Due /\ packet.seqno = server_seqno
        /\ pc = "ready" /\ Script[step] = "recv"
    BY <2>1, SessionReceives
  <2>4. Ack(Flip(server_seqno)) \in Packet
    BY PacketTypes DEF D1TypeOK
  <2>5. to_server' = <<Ack(Flip(server_seqno))>>
    BY <2>1, <2>3, <2>4, ShortQueues
  <2>6. Due'
    BY <2>2, <2>3, <2>5 DEF Due, LastAccepted
  <2>7. QED
    BY <2>2, <2>3, <2>6 DEF SessionOK
<1>8. ~RecvNotData
  BY SessionReceives DEF RecvNotData
<1>9. QED
  BY <1>1, <1>2, <1>3, <1>4, <1>5, <1>6, <1>7, <1>8 DEF Client

\* What the server finds: the payload, or the acknowledgement of its answer.
LEMMA SessionServes ==
    ASSUME D1TypeOK, SessionOK, NEW packet \in Packet,
           to_server # <<>>, packet = Head(to_server)
    PROVE  \/ /\ pc = "wait_ack" /\ step \in Calls /\ step \in Payloads /\ Script[step] = "send"
              /\ to_client = <<>> /\ next_seqno = expected_seqno /\ outbox = <<>>
              /\ packet \in Versions(next_seqno, step)
              /\ to_server = <<packet>> /\ Tail(to_server) = <<>>
              /\ packet.type = "DATA" /\ packet.seqno = next_seqno
              /\ Intact(packet) => packet.payload = step
           \/ /\ packet = Ack(server_seqno)
              /\ Len(outbox) = 1 /\ outbox # <<>> /\ Tail(outbox) = <<>>
              /\ pc # "wait_ack" /\ Quiet /\ Tail(to_server) = <<>>
           \/ /\ packet = Ack(server_seqno)
              /\ Len(outbox) = 1 /\ outbox # <<>> /\ Tail(outbox) = <<>>
              /\ pc = "wait_ack" /\ Script[step] = "send"
              /\ to_client = <<>> /\ next_seqno = expected_seqno
              /\ \E data \in Versions(next_seqno, step) : Intact(data) /\ Tail(to_server) = <<data>>
           \/ /\ packet = Ack(Flip(server_seqno)) /\ pc = "ready" /\ Due /\ Script[step] = "recv"
              /\ step - 1 \in Payloads /\ outbox # <<>> /\ Head(outbox) = step - 1
              /\ to_client = <<>> /\ Tail(to_server) = <<>>
<1>1. /\ next_seqno \in Bit /\ Flip(next_seqno) \in Bit /\ server_seqno \in Bit
      /\ Flip(server_seqno) \in Bit
  BY PacketTypes DEF D1TypeOK
<1>2. Ack(server_seqno) \in Packet /\ Ack(Flip(server_seqno)) \in Packet
  BY <1>1, PacketTypes
<1>3. outbox \in Seq(Payloads) /\ (Len(outbox) = 1 => outbox # <<>> /\ Tail(outbox) = <<>>)
  BY ShortBoxes DEF D1TypeOK
<1>4. CASE pc # "wait_ack" /\ Quiet
  BY <1>2, <1>3, <1>4, ShortQueues DEF Quiet, Settled
<1>5. CASE pc = "wait_ack" /\ Upward /\ Script[step] = "send"
  <2>1. step \in Calls /\ step \in Payloads
    BY <1>5 DEF D1TypeOK, Payloads
  <2>2. PICK data \in Versions(next_seqno, step) :
            \/ to_server = <<data>> /\ outbox = <<>>
            \/ to_server = <<Ack(server_seqno), data>> /\ Intact(data) /\ Len(outbox) = 1
    BY <1>5 DEF Upward
  <2>3. /\ data \in Packet /\ data.type = "DATA" /\ data.seqno = next_seqno
        /\ Intact(data) => data.payload = step
    BY <1>1, <2>1, VersionFacts
  <2>4. CASE to_server = <<data>> /\ outbox = <<>>
    BY <1>5, <2>1, <2>2, <2>3, <2>4, ShortQueues DEF Upward
  <2>5. CASE to_server = <<Ack(server_seqno), data>> /\ Intact(data) /\ Len(outbox) = 1
    <3>1. packet = Ack(server_seqno) /\ Tail(to_server) = <<data>>
      BY <1>2, <2>3, <2>5, ShortQueues
    <3>2. QED
      BY <1>3, <1>5, <2>5, <3>1 DEF Upward
  <2>6. QED
    BY <2>2, <2>4, <2>5
<1>6. CASE pc = "ready" /\ Script[step] = "recv" /\ Due
  <2>1. to_client = <<>> /\ to_server = <<Ack(Flip(server_seqno))>> /\ outbox = <<step - 1>>
    BY <1>6 DEF Due
  <2>2. step - 1 \in Payloads
    BY <1>6, ScriptFacts DEF D1TypeOK, Payloads
  <2>3. outbox # <<>> /\ Head(outbox) = step - 1
    BY <2>1, <2>2, ShortBoxes
  <2>4. packet = Ack(Flip(server_seqno)) /\ Tail(to_server) = <<>>
    BY <1>2, <2>1, ShortQueues
  <2>5. QED
    BY <1>6, <2>1, <2>2, <2>3, <2>4
<1>7. ~Refused /\ ~TakenUp
  BY DEF Refused, TakenUp
<1>8. QED
  BY <1>4, <1>5, <1>6, <1>7 DEF SessionOK, D1TypeOK

\* An acknowledgement says which packet it acknowledges.
LEMMA AckPackets ==
    \A s \in Bit : /\ Ack(s).type = "ACK" /\ Intact(Ack(s)) /\ Ack(s).seqno = s
                   /\ Ack(s) \in Packet /\ Flip(s) # s /\ Flip(s) \in Bit
                   /\ Ack(Flip(s)).seqno # s /\ Ack(Flip(s)).type = "ACK" /\ Intact(Ack(Flip(s)))
<1>1. ASSUME NEW s \in Bit
      PROVE  Ack(s).type = "ACK" /\ Intact(Ack(s)) /\ Ack(s).seqno = s
  BY DEF Ack, Intact
<1>2. QED
  BY <1>1, PacketTypes

\* The server takes the payload of the client's call, which it has not taken.
LEMMA SessionAccepts ==
    ASSUME D1TypeOK, SessionOK, ServerAccepts
    PROVE  /\ pc = "wait_ack" /\ step \in Calls /\ Script[step] = "send"
           /\ next_seqno = expected_seqno
           /\ accepted' = Append(accepted, step)
           /\ UNCHANGED client
           /\ TakenUp' /\ SessionOK'
<1>1. PICK packet \in Packet :
          /\ to_server # <<>> /\ packet = Head(to_server) /\ to_server' = Tail(to_server)
          /\ packet.type = "DATA" /\ Intact(packet)
          /\ packet.seqno = expected_seqno
          /\ accepted' = Append(accepted, packet.payload)
          /\ outbox' = IF Answered(packet.payload) THEN Append(outbox, packet.payload)
                                                   ELSE outbox
          /\ to_client' = to_client \o <<Ack(packet.seqno)>>
                              \o IF outbox = <<>> THEN Answer(server_seqno, outbox') ELSE <<>>
  BY DEF ServerAccepts, Serving
<1>2. /\ expected_seqno' = Flip(expected_seqno) /\ server_seqno' = server_seqno
      /\ UNCHANGED <<next_seqno, pc, step, returned_ok, received>>
  BY DEF ServerAccepts, client
<1>3. /\ next_seqno \in Bit /\ server_seqno \in Bit /\ Flip(next_seqno) # next_seqno
      /\ accepted \in Seq(Payloads)
  BY PacketTypes DEF D1TypeOK
<1>4. packet # Ack(server_seqno) /\ packet # Ack(Flip(server_seqno))
  BY <1>1, <1>3, AckPackets
<1>5. /\ pc = "wait_ack" /\ step \in Calls /\ step \in Payloads /\ Script[step] = "send"
      /\ to_client = <<>> /\ next_seqno = expected_seqno /\ outbox = <<>>
      /\ Tail(to_server) = <<>> /\ packet.seqno = next_seqno /\ packet.payload = step
  BY <1>1, <1>4, SessionServes
<1>6. LastAccepted(step)'
  BY <1>1, <1>2, <1>3, <1>5, AppendProperties DEF LastAccepted
<1>7. Ack(next_seqno) \in Packet /\ Data(server_seqno, step) \in Packet
  BY <1>3, <1>5, PacketTypes
<1>8. IF Answered(step)
        THEN to_client' = <<Ack(next_seqno), Data(server_seqno, step)>> /\ outbox' = <<step>>
        ELSE to_client' = <<Ack(next_seqno)>> /\ outbox' = <<>>
  <2>1. <<>> \o <<Ack(next_seqno)>> = <<Ack(next_seqno)>>
    BY <1>7, ShortQueues
  <2>2. to_client' = <<Ack(next_seqno)>> \o Answer(server_seqno, outbox')
    BY <1>1, <1>5, <2>1
  <2>3. CASE Answered(step)
    <3>1. outbox' = <<step>>
      BY <1>1, <1>5, <2>3, ShortBoxes
    <3>2. Answer(server_seqno, outbox') = <<Data(server_seqno, step)>>
      BY <1>5, <3>1, ShortBoxes DEF Answer
    <3>3. QED
      BY <1>7, <2>2, <2>3, <3>1, <3>2, ShortQueues
  <2>4. CASE ~Answered(step)
    <3>1. outbox' = <<>> /\ Answer(server_seqno, outbox') = <<>>
      BY <1>1, <1>5, <2>4 DEF Answer
    <3>2. QED
      BY <1>7, <2>2, <2>4, <3>1, ShortQueues
  <2>5. QED
    BY <2>3, <2>4
<1>9. TakenUp'
  BY <1>1, <1>2, <1>3, <1>5, <1>6, <1>8 DEF TakenUp
<1>10. QED
  BY <1>1, <1>2, <1>5, <1>9 DEF SessionOK, client

\* The other steps of the server keep SessionOK.
LEMMA ServerSession ==
    ASSUME D1TypeOK, SessionOK, ServerIgnores \/ ServerRefuses \/ ServerAcked \/ ServerResends
    PROVE  SessionOK'
<1>1. /\ server_seqno \in Bit /\ next_seqno \in Bit /\ Flip(next_seqno) \in Bit
      /\ Ack(Flip(next_seqno)) \in Packet /\ outbox \in Seq(Payloads)
  BY PacketTypes DEF D1TypeOK
<1>2. ~ServerIgnores
  <2>1. SUFFICES ASSUME NEW packet \in Packet, Serving(packet), packet.type = "DATA",
                        packet.seqno # expected_seqno
                 PROVE  FALSE
    BY DEF ServerIgnores
  <2>2. packet # Ack(server_seqno) /\ packet # Ack(Flip(server_seqno))
    BY <1>1, <2>1, AckPackets
  <2>3. QED
    BY <2>1, <2>2, SessionServes DEF Serving
<1>3. CASE ServerRefuses
  <2>1. PICK packet \in Packet :
            /\ to_server # <<>> /\ packet = Head(to_server) /\ to_server' = Tail(to_server)
            /\ packet.type = "DATA" /\ ~Intact(packet)
            /\ to_client' = Append(to_client, Ack(Flip(packet.seqno)))
    BY <1>3 DEF ServerRefuses, Serving
  <2>2. UNCHANGED <<next_seqno, pc, step, expected_seqno, outbox>>
    BY <1>3 DEF ServerRefuses, client, server
  <2>3. packet # Ack(server_seqno) /\ packet # Ack(Flip(server_seqno))
    BY <1>1, <2>1, AckPackets
  <2>4. /\ pc = "wait_ack" /\ Script[step] = "send"
        /\ to_client = <<>> /\ next_seqno = expected_seqno /\ outbox = <<>>
        /\ Tail(to_server) = <<>> /\ packet.seqno = next_seqno
    BY <2>1, <2>3, SessionServes
  <2>5. to_client' = <<Ack(Flip(next_seqno))>>
    BY <1>1, <2>1, <2>4, ShortQueues
  <2>6. Refused'
    BY <2>1, <2>2, <2>4, <2>5 DEF Refused
  <2>7. QED
    BY <2>2, <2>4, <2>6 DEF SessionOK
<1>4. CASE ServerAcked
  <2>1. PICK packet \in Packet :
            /\ to_server # <<>> /\ packet = Head(to_server) /\ to_server' = Tail(to_server)
            /\ packet.type = "ACK" /\ packet.seqno = server_seqno
    BY <1>4 DEF ServerAcked, Serving
  <2>2. /\ outbox' = Tail(outbox)
        /\ to_client' = to_client \o Answer(server_seqno', outbox')
        /\ UNCHANGED <<next_seqno, pc, step, expected_seqno, accepted>>
    BY <1>4 DEF ServerAcked, client
  <2>3. packet # Ack(Flip(server_seqno))
    BY <1>1, <2>1, AckPackets
  <2>4. /\ Tail(outbox) = <<>> /\ to_client = <<>> /\ next_seqno = expected_seqno
        /\ \/ pc # "wait_ack" /\ Quiet /\ Tail(to_server) = <<>>
           \/ /\ pc = "wait_ack" /\ Script[step] = "send"
              /\ \E data \in Versions(next_seqno, step) : Tail(to_server) = <<data>>
    BY <2>1, <2>3, SessionServes DEF Quiet
  <2>5. to_client' = <<>>
    <3>1. Answer(server_seqno', outbox') = <<>>
      BY <2>2, <2>4 DEF Answer
    <3>2. QED
      BY <1>1, <2>2, <2>4, <3>1, ShortQueues
  <2>6. CASE pc # "wait_ack" /\ Quiet /\ Tail(to_server) = <<>>
    <3>1. Quiet'
      BY <2>1, <2>2, <2>4, <2>5, <2>6 DEF Quiet, Settled
    <3>2. QED
      BY <2>2, <2>6, <3>1 DEF SessionOK
  <2>7. CASE /\ pc = "wait_ack" /\ Script[step] = "send"
             /\ \E data \in Versions(next_seqno, step) : Tail(to_server) = <<data>>
    <3>1. Upward'
      BY <2>1, <2>2, <2>4, <2>5, <2>7 DEF Upward
    <3>2. QED
      BY <2>2, <2>7, <3>1 DEF SessionOK
  <2>8. QED
    BY <2>4, <2>6, <2>7
<1>5. CASE ServerResends
  <2>1. PICK packet \in Packet :
            /\ to_server # <<>> /\ packet = Head(to_server) /\ to_server' = Tail(to_server)
            /\ packet.type = "ACK"
            /\ outbox = <<>> \/ ~Intact(packet) \/ packet.seqno # server_seqno
    BY <1>5 DEF ServerResends, Serving
  <2>2. /\ to_client' = to_client \o Answer(server_seqno, outbox)
        /\ UNCHANGED <<next_seqno, pc, step, expected_seqno, accepted, server_seqno, outbox>>
    BY <1>5 DEF ServerResends, client, server
  <2>3. Intact(Ack(server_seqno)) /\ Ack(server_seqno).seqno = server_seqno
    BY <1>1, AckPackets
  <2>4. /\ pc = "ready" /\ Due /\ Script[step] = "recv" /\ step - 1 \in Payloads
        /\ outbox # <<>> /\ Head(outbox) = step - 1
        /\ to_client = <<>> /\ Tail(to_server) = <<>>
    BY <2>1, <2>3, SessionServes
  <2>5. /\ Data(server_seqno, step - 1) \in Packet
        /\ Data(server_seqno, step - 1) \in Versions(server_seqno, step - 1)
    BY <1>1, <2>4, VersionFacts
  <2>6. to_client' = <<Data(server_seqno, step - 1)>>
    BY <2>2, <2>4, <2>5, ShortQueues DEF Answer
  <2>7. Due'
    BY <2>1, <2>2, <2>4, <2>5, <2>6 DEF Due, LastAccepted
  <2>8. QED
    BY <2>2, <2>4, <2>7 DEF SessionOK
<1>6. QED
  BY <1>2, <1>3, <1>4, <1>5

\* The network can only damage the payload or its answer.
LEMMA NetworkSession ==
    ASSUME D1TypeOK, SessionOK, Faults \subseteq {"damage"}, Network
    PROVE  SessionOK'
<1>1. UNCHANGED <<next_seqno, pc, step, expected_seqno, accepted, server_seqno, outbox>>
  BY DEF Network, client, server
<1>2. server_seqno \in Bit /\ next_seqno \in Bit
  BY DEF D1TypeOK
<1>3. ASSUME to_server # <<>>, Intact(Head(to_server)), UNCHANGED to_client,
             NEW outcome \in Outcomes(Head(to_server)), Hit(to_server, outcome)
      PROVE  SessionOK'
  <2>1. /\ Head(to_server).type = "DATA" /\ outcome = <<Damaged(Head(to_server), "data")>>
        /\ to_server' = outcome \o Tail(to_server)
    BY <1>3, OnlyDamage DEF Hit
  <2>2. Head(to_server) \in Packet
    BY <1>3, TailQueue DEF D1TypeOK
  <2>3. Head(to_server) # Ack(server_seqno) /\ Head(to_server) # Ack(Flip(server_seqno))
    BY <1>2, <2>1, AckPackets
  <2>4. /\ pc = "wait_ack" /\ step \in Payloads /\ Script[step] = "send"
        /\ to_client = <<>> /\ next_seqno = expected_seqno /\ outbox = <<>>
        /\ Head(to_server) \in Versions(next_seqno, step) /\ Tail(to_server) = <<>>
    BY <1>3, <2>2, <2>3, SessionServes
  <2>5. Head(to_server) = Data(next_seqno, step)
    BY <1>2, <1>3, <2>4, VersionFacts
  <2>6. /\ Damaged(Data(next_seqno, step), "data") \in Versions(next_seqno, step)
        /\ Damaged(Data(next_seqno, step), "data") \in Packet
    BY <1>2, <2>4, VersionFacts
  <2>7. to_server' = <<Damaged(Data(next_seqno, step), "data")>>
    BY <2>1, <2>4, <2>5, <2>6, ShortQueues
  <2>8. Upward'
    BY <1>1, <1>3, <2>4, <2>6, <2>7 DEF Upward
  <2>9. QED
    BY <1>1, <2>4, <2>8 DEF SessionOK
<1>4. ASSUME to_client # <<>>, Intact(Head(to_client)), UNCHANGED to_server,
             NEW outcome \in Outcomes(Head(to_client)), Hit(to_client, outcome)
      PROVE  SessionOK'
  <2>1. /\ Head(to_client).type = "DATA" /\ outcome = <<Damaged(Head(to_client), "data")>>
        /\ to_client' = outcome \o Tail(to_client)
    BY <1>4, OnlyDamage DEF Hit
  <2>2. ~Quiet /\ ~Upward
    BY <1>4 DEF Quiet, Upward
  <2>3. pc # "wait_ack"
    <3>1. SUFFICES ASSUME pc = "wait_ack", Refused \/ TakenUp PROVE FALSE
      BY <2>2 DEF SessionOK
    <3>2. step \in Payloads
      BY <3>1 DEF D1TypeOK, Payloads
    <3>3. /\ Ack(next_seqno) \in Packet /\ Ack(Flip(next_seqno)) \in Packet
          /\ Data(server_seqno, step) \in Packet
      BY <1>2, <3>2, AckPackets, PacketTypes
    <3>4. Head(to_client) = Ack(next_seqno) \/ Head(to_client) = Ack(Flip(next_seqno))
      BY <3>1, <3>3, ShortQueues DEF Refused, TakenUp
    <3>5. QED
      BY <1>2, <2>1, <3>4, AckPackets
  <2>4. pc = "ready" /\ Script[step] = "recv" /\ Due
    BY <2>2, <2>3 DEF SessionOK, D1TypeOK
  <2>5. step - 1 \in Payloads
    BY <2>4, ScriptFacts DEF D1TypeOK, Payloads
  <2>6. PICK packet \in Versions(server_seqno, step - 1) :
            to_client = <<packet>> /\ to_server = <<>>
    BY <1>4, <2>4 DEF Due
  <2>7. /\ packet \in Packet /\ Head(to_client) = packet /\ Tail(to_client) = <<>>
        /\ packet = Data(server_seqno, step - 1)
    BY <1>2, <1>4, <2>5, <2>6, VersionFacts, ShortQueues
  <2>8. /\ Damaged(Data(server_seqno, step - 1), "data") \in Versions(server_seqno, step - 1)
        /\ Damaged(Data(server_seqno, step - 1), "data") \in Packet
    BY <1>2, <2>5, VersionFacts
  <2>9. to_client' = <<Damaged(Data(server_seqno, step - 1), "data")>>
    BY <2>1, <2>7, <2>8, ShortQueues
  <2>10. Due'
    BY <1>1, <1>4, <2>4, <2>6, <2>8, <2>9 DEF Due, LastAccepted
  <2>11. QED
    BY <1>1, <2>4, <2>10 DEF SessionOK
<1>5. QED
  BY <1>3, <1>4 DEF Network

\* SessionInv is inductive while the network only damages data.
LEMMA NextSession ==
    ASSUME Faults \subseteq {"damage"}
    PROVE  SessionInv /\ [Next]_vars => SessionInv'
<1> SUFFICES ASSUME SessionInv, [Next]_vars PROVE SessionOK'
    BY NextOrder DEF SessionInv
<1>1. D1TypeOK /\ SessionOK
  BY DEF SessionInv, OrderInv
<1>2. ~SocketFails /\ ~ServerTimeout
  BY OnlyDamage DEF SocketFails, SendFails, ResendFails, WaitFails, RecvFails, ServerTimeout
<1>3. CASE UNCHANGED vars
  BY <1>1, <1>3 DEF vars, client, server, SessionOK, Quiet, Settled, Upward, Refused,
                    TakenUp, Due, LastAccepted
<1>4. QED
  BY <1>1, <1>2, <1>3, ClientSession, SessionAccepts, ServerSession, NetworkSession
  DEF Next, Server

\* While the network does no worse than damage data, one packet is on its way
\* at a time, and which one follows from the place of the client in its
\* program.
THEOREM SessionInvHolds ==
    ASSUME Faults \subseteq {"damage"}
    PROVE  Spec => []SessionInv
<1>1. Init => SessionInv
  BY InitAnswers DEF Init, SessionInv, AnswerInv, SessionOK, Quiet, Settled
<1>2. SessionInv /\ [Next]_vars => SessionInv'
  BY NextSession
<1>3. QED
  BY <1>1, <1>2, PTL DEF Spec

\* Then d1_send_data is called with nothing left over for the client and with
\* the number the server expects.
THEOREM SeqnosAgreeHolds ==
    ASSUME Faults \subseteq {"damage"}
    PROVE  Spec => []SeqnosAgree
<1>1. SessionInv => SeqnosAgree
  BY DEF SessionInv, SessionOK, SeqnosAgree, Calling, Quiet
<1>2. QED
  BY <1>1, SessionInvHolds, PTL

-------------------------------------------------------------------------------
(* The safety of D1Service *)

\* Every step of the client, the server and the network is a step of D1Service
\* or leaves its state alone.
LEMMA StepService ==
    ASSUME Faults \subseteq {"damage"}, SessionInv, [Next]_vars
    PROVE  [Service!Next]_(Service!vars)
<1>1. D1TypeOK /\ SessionOK /\ OrderInv
  BY DEF SessionInv, OrderInv
<1>2. ~SocketFails /\ ~ServerTimeout
  BY OnlyDamage DEF SocketFails, SendFails, ResendFails, WaitFails, RecvFails, ServerTimeout
<1> DEFINE connected == pc \notin {"start", "aborted"}
<1>3. ASSUME connected' = connected, UNCHANGED <<step, accepted, received>>
      PROVE  UNCHANGED Service!vars
  BY <1>3 DEF Service!vars
<1>4. CASE Start
  <2>1. ~connected /\ connected' \in BOOLEAN /\ UNCHANGED <<step, accepted, received>>
    BY <1>4 DEF Start, server
  <2>2. CASE connected' = TRUE
    BY <2>1, <2>2 DEF Service!Next, Service!Connect
  <2>3. QED
    BY <1>3, <2>1, <2>2
<1>5. CASE SendData \/ WrongAck
  BY <1>3, <1>5 DEF SendData, WrongAck, Calling, Waiting, server
<1>6. CASE AckReceived
  <2>1. PICK packet \in Packet : Waiting(packet) /\ packet.seqno = next_seqno
    BY <1>6 DEF AckReceived, Acknowledges
  <2>2. /\ step' = step + 1 /\ pc' \in {"ready", "done"}
        /\ UNCHANGED <<received, accepted>>
    BY <1>6 DEF AckReceived, SendReturnsOk, Return, server
  <2>3. Ack(Flip(next_seqno)).seqno # next_seqno
    BY <1>1, AckPackets DEF D1TypeOK
  <2>4. TakenUp /\ pc = "wait_ack" /\ step \in Calls
    BY <1>1, <2>1, <2>3, SessionWaits
  <2>5. \E i \in DOMAIN accepted : accepted[i] = step
    <3>1. accepted \in Seq(Payloads) /\ accepted # <<>>
      BY <1>1, <2>4 DEF D1TypeOK, TakenUp, LastAccepted
    <3>2. Len(accepted) \in DOMAIN accepted
      BY <3>1, EmptySeq, LenProperties
    <3>3. QED
      BY <2>4, <3>2 DEF TakenUp, LastAccepted
  <2>6. Script[step] = "send"
    BY <1>1, <2>4 DEF SessionOK
  <2>7. Service!SendReturns
    BY <2>2, <2>4, <2>5, <2>6 DEF Service!SendReturns, Service!Running,
       Service!AcceptedByPeer, Calls
  <2>8. QED
    BY <2>7 DEF Service!Next, Service!Exchange
<1>7. CASE RecvData
  <2>1. PICK packet \in Packet :
            /\ Receiving(packet) /\ Intact(packet)
            /\ received' = Append(received, packet.payload)
    BY <1>7 DEF RecvData
  <2>2. /\ step' = step + 1 /\ pc' \in {"ready", "done"} /\ UNCHANGED accepted
    BY <1>7 DEF RecvData, Return, server
  <2>3. /\ pc = "ready" /\ step \in Calls /\ Script[step] = "recv" /\ Due
        /\ step - 1 \in Payloads /\ packet \in Versions(server_seqno, step - 1)
    BY <1>1, <2>1, SessionReceives
  <2>4. packet.payload = step - 1
    BY <1>1, <2>1, <2>3, VersionFacts DEF D1TypeOK
  <2>5. received' = Append(received, accepted[Len(accepted)])
    BY <2>1, <2>3, <2>4 DEF Due, LastAccepted
  <2>6. Service!RecvReturns
    BY <2>2, <2>3, <2>5 DEF Service!RecvReturns, Service!Running, Calls
  <2>7. QED
    BY <2>6 DEF Service!Next, Service!Exchange
<1>8. CASE RecvDamaged
  BY <1>3, <1>8 DEF RecvDamaged, client, server
<1>9. ~NoAck /\ ~RecvNotData
  BY <1>1, SessionWaits, SessionReceives DEF NoAck, RecvNotData
<1>10. CASE ServerAccepts
  <2>1. /\ pc = "wait_ack" /\ step \in Calls /\ Script[step] = "send"
        /\ next_seqno = expected_seqno
        /\ accepted' = Append(accepted, step)
        /\ UNCHANGED <<pc, step, received>>
    BY <1>1, <1>10, SessionAccepts DEF client
  <2>2. ~\E i \in DOMAIN accepted : accepted[i] = step
    BY <1>1, <2>1 DEF OrderInv, SendingOK, SendingIn
  <2>3. Service!Accept
    BY <2>1, <2>2 DEF Service!Accept, Service!Running, Service!AcceptedByPeer, Calls
  <2>4. QED
    BY <2>3 DEF Service!Next, Service!Exchange
<1>11. CASE ServerIgnores \/ ServerRefuses \/ ServerResends
  BY <1>3, <1>11 DEF ServerIgnores, ServerRefuses, ServerResends, client, server
<1>12. CASE ServerAcked
  BY <1>3, <1>12 DEF ServerAcked, client
<1>13. CASE Network
  BY <1>3, <1>13 DEF Network, client, server
<1>14. CASE UNCHANGED vars
  BY <1>3, <1>14 DEF vars, client, server
<1>15. QED
  BY <1>2, <1>4, <1>5, <1>6, <1>7, <1>8, <1>9, <1>10, <1>11, <1>12, <1>13, <1>14
  DEF Next, Client, Server

\* Then d1_send_data and d1_recv_data amount to D1Service: a send returns once
\* its payload was taken, each payload is taken once, and a receive returns
\* the last one's answer. That every call returns is not proved here.
THEOREM ServiceImplemented ==
    ASSUME Faults \subseteq {"damage"}
    PROVE  Spec => Service!Init /\ [][Service!Next]_(Service!vars)
<1>1. Init => Service!Init
  BY DEF Init, Service!Init
<1>2. SessionInv /\ [Next]_vars => [Service!Next]_(Service!vars)
  BY StepService
<1>3. QED
  BY <1>1, <1>2, SessionInvHolds, PTL DEF Spec

===============================================================================
