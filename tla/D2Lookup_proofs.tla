---------------------------- MODULE D2Lookup_proofs ----------------------------
(*****************************************************************************)
(* Proofs about D2Lookup: for trees of any size and packets of any length,   *)
(* the array of the client has node i at index i, and print_node prints the  *)
(* nodes in the order of their ids, each at its depth.                       *)
(*****************************************************************************)
EXTENDS D2Lookup, Integers, FiniteSetTheorems, TLAPS

-------------------------------------------------------------------------------
(* What the server sends *)

SizeMessage(t) == Message("RESPONSE_SIZE", Size(t), <<>>)

Messages(t) == {SizeMessage(t)} \cup {NodesFrom(t, first) : first \in Nat}

\* The packets with nodes in the answer for t.
Packets(t) == (Size(t) + PerPacket - 1) \div PerPacket

\* The first node of the packet that has d packets behind it.
FirstFromEnd(t, d) == (Packets(t) - 1 - d) * PerPacket

\* What message i of an inbox is, told from how many messages are behind it:
\* an inbox loses and repeats messages at its head.
InOrder(t, messages) ==
    \A i \in DOMAIN messages :
        LET d == Len(messages) - i
        IN messages[i] = IF d < Packets(t) THEN NodesFrom(t, FirstFromEnd(t, d))
                         ELSE SizeMessage(t)

\* How many nodes of t have been received with left messages in the inbox: the
\* next one is the first of the next packet, and before that come the sizes.
Received(t, left) == IF left > Packets(t) THEN 0 ELSE FirstFromEnd(t, left - 1)

-------------------------------------------------------------------------------
(* The invariant *)

Places == {"start", "send", "recv_size", "recv_nodes", "print", "done", "failed"}

D2TypeOK ==
    /\ pc \in Places
    /\ tree \in Trees
    /\ inbox \in Seq(Messages(tree))
    /\ number_of_nodes \in Nat /\ node_index \in Nat

NothingStored ==
    /\ pc \in {"start", "send"} => inbox = <<>>
    /\ pc \in {"start", "send", "recv_size"} => nodes = <<>> /\ node_index = 0

AnswerIsComing ==
    /\ InOrder(tree, inbox)
    /\ pc = "recv_size" => inbox = <<>> \/ Len(inbox) > Packets(tree)
    /\ pc = "recv_nodes" =>
          /\ inbox # <<>>
          /\ number_of_nodes = Size(tree)
          /\ node_index = Received(tree, Len(inbox))

\* The first entries of the array are node 0, node 1, and so on.
Filled(t, array, index) ==
    DOMAIN array = 0 .. index - 1 /\ \A i \in 0 .. index - 1 : array[i] = NetNode(t, i)

\* IndexIsId, said with the index alone, and of all that a node holds.
ArrayIsFilled ==
    /\ Filled(tree, nodes, node_index)
    /\ node_index <= number_of_nodes
    /\ pc \in {"print", "done"} => node_index = number_of_nodes /\ node_index = Size(tree)

D2Inv == D2TypeOK /\ NothingStored /\ AnswerIsComing /\ ArrayIsFilled

-------------------------------------------------------------------------------
(* Trees and packets *)

\* A tree has at least its root.
LEMMA TreeSize == ASSUME NEW t \in Trees PROVE Size(t) \in Nat /\ Size(t) >= 1
<1>1. PICK n \in 1 .. MaxNodes : t \in [1 .. n - 1 -> 0 .. n - 2]
  BY DEF Trees
<1>2. n - 1 \in Nat /\ DOMAIN t = 1 .. n - 1
  BY <1>1, D2Assumption
<1>3. t \in Seq(0 .. n - 2) /\ Len(t) = n - 1
  BY <1>1, <1>2
<1>4. QED
  BY <1>2, <1>3 DEF Size

\* Rounding up: the packets hold all nodes, and without the last one not all.
LEMMA RoundedUp ==
    ASSUME NEW size \in Nat, size >= 1, NEW n \in Nat, n >= 1
    PROVE  LET p == (size + n - 1) \div n
           IN p \in Nat /\ p >= 1 /\ p * n >= size /\ p * n < size + n
<1> DEFINE a == size + n - 1
           p == a \div n
<1>1. a \in Nat /\ a >= n
  OBVIOUS
<1> HIDE DEF a
<1>2. p \in Int /\ n * p <= a /\ a < n * p + n
  BY <1>1
<1> HIDE DEF p
<1>3. p >= 1
  BY <1>1, <1>2
<1>4. p * n = n * p
  BY <1>2
<1>5. QED
  BY <1>2, <1>3, <1>4 DEF a, p

\* Where the packets begin, counted from the last one.
LEMMA PacketsBegin ==
    ASSUME NEW t \in Trees
    PROVE  /\ Packets(t) \in Nat /\ Packets(t) >= 1
           /\ FirstFromEnd(t, Packets(t) - 1) = 0
           /\ FirstFromEnd(t, 0) + PerPacket >= Size(t)
           /\ \A d \in 0 .. Packets(t) - 1 :
                 FirstFromEnd(t, d) \in Nat /\ FirstFromEnd(t, d) < Size(t)
           /\ \A d \in 1 .. Packets(t) - 1 :
                 FirstFromEnd(t, d - 1) = FirstFromEnd(t, d) + PerPacket
<1>1. PICK n \in Nat : n = PerPacket /\ n >= 1
  BY D2Assumption
<1>2. PICK size \in Nat : size = Size(t) /\ size >= 1
  BY TreeSize
<1>3. PICK p : p = (size + n - 1) \div n
  OBVIOUS
<1>4. p \in Nat /\ p >= 1 /\ p * n >= size /\ p * n < size + n
  BY <1>1, <1>2, <1>3, RoundedUp
<1>5. Packets(t) = p /\ \A d : FirstFromEnd(t, d) = (p - 1 - d) * n
  BY <1>1, <1>2, <1>3 DEF Packets, FirstFromEnd
<1>6. (p - 1 - (p - 1)) * n = 0
  BY <1>1, <1>4
<1>7. (p - 1 - 0) * n + n >= size
  BY <1>1, <1>4
<1>8. ASSUME NEW d \in 0 .. p - 1
      PROVE  (p - 1 - d) * n \in Nat /\ (p - 1 - d) * n < size
  <2>1. PICK k \in Nat : k = p - 1 - d /\ k <= p - 1
    BY <1>4
  <2>2. k * n \in Nat /\ k * n <= (p - 1) * n /\ (p - 1) * n = p * n - n
    BY <1>1, <1>4, <2>1
  <2>3. QED
    BY <1>1, <1>2, <1>4, <2>1, <2>2
<1>9. ASSUME NEW d \in 1 .. p - 1
      PROVE  (p - 1 - (d - 1)) * n = (p - 1 - d) * n + n
  BY <1>1, <1>4
<1>10. QED
  BY <1>1, <1>2, <1>4, <1>5, <1>6, <1>7, <1>8, <1>9

\* A packet has the nodes from its first on, and is the last one if there are
\* no more.
LEMMA PacketHas ==
    ASSUME NEW t \in Trees, NEW first \in Nat, first < Size(t),
           NEW m, m = NodesFrom(t, first)
    PROVE  /\ m.type \in {"RESPONSE", "LAST_RESPONSE"}
           /\ Len(m.netnodes) \in Nat
           /\ \A k \in 1 .. Len(m.netnodes) : m.netnodes[k] = NetNode(t, first + k - 1)
           /\ m.type = "LAST_RESPONSE" => first + Len(m.netnodes) = Size(t)
           /\ m.type # "LAST_RESPONSE" =>
                 Len(m.netnodes) = PerPacket /\ first + PerPacket < Size(t)
<1>1. PerPacket \in Nat /\ PerPacket >= 1 /\ Size(t) \in Nat
  BY D2Assumption, TreeSize
<1> DEFINE count == IF first + PerPacket < Size(t) THEN PerPacket ELSE Size(t) - first
<1>2. PICK c \in Nat : c = count
  BY <1>1
<1>3. /\ m.type = IF first + c < Size(t) THEN "RESPONSE" ELSE "LAST_RESPONSE"
      /\ m.netnodes = [k \in 1 .. c |-> NetNode(t, first + k - 1)]
  BY <1>2 DEF NodesFrom, Message
<1>4. Len(m.netnodes) = c
  BY <1>2, <1>3
<1>5. \A k \in 1 .. c : m.netnodes[k] = NetNode(t, first + k - 1)
  BY <1>3
<1>6. CASE first + PerPacket < Size(t)
  <2>1. c = PerPacket /\ m.type = "RESPONSE"
    BY <1>2, <1>3, <1>6
  <2>2. QED
    BY <1>4, <1>5, <1>6, <2>1
<1>7. CASE ~(first + PerPacket < Size(t))
  <2>1. c = Size(t) - first /\ first + c = Size(t)
    BY <1>1, <1>2, <1>7
  <2>2. m.type = "LAST_RESPONSE"
    BY <1>1, <1>3, <2>1
  <2>3. QED
    BY <1>2, <1>4, <1>5, <2>1, <2>2
<1>8. QED
  BY <1>6, <1>7

-------------------------------------------------------------------------------
(* The inbox *)

\* The answer is the size and then the packets.
LEMMA AnswerInOrder ==
    ASSUME NEW t \in Trees
    PROVE  /\ Answer(t) \in Seq(Messages(t)) /\ Len(Answer(t)) = Packets(t) + 1
           /\ InOrder(t, Answer(t))
<1>1. PICK p \in Nat : p = Packets(t) /\ p >= 1
  BY PacketsBegin
<1>2. PICK n \in Nat : n = PerPacket
  BY D2Assumption
<1> DEFINE packets == [k \in 1 .. p |-> NodesFrom(t, (k - 1) * n)]
<1>3. Answer(t) = <<SizeMessage(t)>> \o packets
  BY <1>1, <1>2 DEF Answer, Packets, SizeMessage
<1>4. \A k \in 1 .. p : (k - 1) * n \in Nat
  BY <1>2
<1>5. packets \in Seq(Messages(t)) /\ Len(packets) = p
      /\ \A k \in 1 .. p : packets[k] = NodesFrom(t, (k - 1) * n)
  <2>1. \A k \in 1 .. p : NodesFrom(t, (k - 1) * n) \in Messages(t)
    BY <1>4 DEF Messages
  <2>2. QED
    BY <1>1, <2>1
<1> HIDE DEF packets
<1>6. SizeMessage(t) \in Messages(t)
  BY DEF Messages
<1>7. /\ Answer(t) \in Seq(Messages(t)) /\ Len(Answer(t)) = p + 1
      /\ \A i \in 1 .. p + 1 :
            Answer(t)[i] = IF i = 1 THEN SizeMessage(t) ELSE packets[i - 1]
  BY <1>1, <1>3, <1>5, <1>6
<1>8. ASSUME NEW i \in 1 .. p + 1
      PROVE  LET d == p + 1 - i
             IN Answer(t)[i] = IF d < p THEN NodesFrom(t, FirstFromEnd(t, d))
                               ELSE SizeMessage(t)
  <2>1. CASE i = 1
    BY <1>1, <1>7, <2>1
  <2>2. CASE i # 1
    <3>1. p + 1 - i < p /\ i - 1 \in 1 .. p
      BY <1>1, <2>2
    <3>2. p - 1 - (p + 1 - i) = i - 1 - 1
      BY <1>1
    <3>3. FirstFromEnd(t, p + 1 - i) = (i - 1 - 1) * n
      BY <1>1, <1>2, <3>2 DEF FirstFromEnd
    <3>4. Answer(t)[i] = NodesFrom(t, (i - 1 - 1) * n)
      BY <1>5, <1>7, <2>2, <3>1
    <3>5. QED
      BY <3>1, <3>3, <3>4
  <2>3. QED
    BY <2>1, <2>2
<1>9. DOMAIN Answer(t) = 1 .. p + 1
  BY <1>1, <1>7
<1>10. QED
  BY <1>1, <1>7, <1>8, <1>9 DEF InOrder

\* A message that is taken leaves the others in order.
LEMMA TailInOrder ==
    ASSUME NEW t \in Trees, NEW s \in Seq(Messages(t)), s # <<>>, InOrder(t, s)
    PROVE  /\ Tail(s) \in Seq(Messages(t)) /\ Len(Tail(s)) = Len(s) - 1
           /\ InOrder(t, Tail(s))
<1>1. /\ Len(s) \in Nat /\ Len(s) >= 1 /\ DOMAIN s = 1 .. Len(s)
      /\ Tail(s) \in Seq(Messages(t)) /\ Len(Tail(s)) = Len(s) - 1
      /\ DOMAIN Tail(s) = 1 .. Len(s) - 1
      /\ \A i \in 1 .. Len(s) - 1 : Tail(s)[i] = s[i + 1]
  OBVIOUS
<1>2. ASSUME NEW i \in DOMAIN Tail(s)
      PROVE  Tail(s)[i] = s[i + 1] /\ i + 1 \in DOMAIN s
             /\ Len(s) - (i + 1) = Len(Tail(s)) - i
  BY <1>1
<1>3. QED
  BY <1>1, <1>2 DEF InOrder

\* The next message is told by the number of messages left.
LEMMA HeadInOrder ==
    ASSUME NEW t \in Trees, NEW s \in Seq(Messages(t)), s # <<>>, InOrder(t, s)
    PROVE  /\ Len(s) \in Nat /\ Len(s) >= 1
           /\ Len(s) <= Packets(t) => Head(s) = NodesFrom(t, FirstFromEnd(t, Len(s) - 1))
           /\ Len(s) > Packets(t) => Head(s) = SizeMessage(t)
<1>1. /\ Len(s) \in Nat /\ Len(s) >= 1 /\ 1 \in DOMAIN s /\ Head(s) = s[1]
      /\ Packets(t) \in Nat
  BY PacketsBegin
<1>2. Len(s) - 1 < Packets(t) <=> Len(s) <= Packets(t)
  BY <1>1
<1>3. QED
  BY <1>1, <1>2 DEF InOrder

\* A packet has another type than the message with the size.
LEMMA HeadType ==
    ASSUME NEW t \in Trees, NEW s \in Seq(Messages(t)), s # <<>>, InOrder(t, s)
    PROVE  IF Len(s) <= Packets(t) THEN Head(s).type \in {"RESPONSE", "LAST_RESPONSE"}
           ELSE Head(s).type = "RESPONSE_SIZE" /\ Head(s).size = Size(t)
<1>1. Packets(t) \in Nat /\ Len(s) \in Nat /\ Len(s) >= 1
  BY PacketsBegin, HeadInOrder
<1>2. CASE Len(s) <= Packets(t)
  <2>1. PICK d : d = Len(s) - 1 /\ d \in 0 .. Packets(t) - 1
    BY <1>1, <1>2
  <2>2. FirstFromEnd(t, d) \in Nat /\ FirstFromEnd(t, d) < Size(t)
    BY <2>1, PacketsBegin
  <2>3. Head(s) = NodesFrom(t, FirstFromEnd(t, d))
    BY <1>2, <2>1, HeadInOrder
  <2>4. Head(s).type \in {"RESPONSE", "LAST_RESPONSE"}
    BY <2>2, <2>3, PacketHas
  <2>5. QED
    BY <1>2, <2>4
<1>3. CASE Len(s) > Packets(t)
  BY <1>1, <1>3, HeadInOrder DEF SizeMessage, Message
<1>4. QED
  BY <1>1, <1>2, <1>3

\* A message with the size may be repeated.
LEMMA RepeatInOrder ==
    ASSUME NEW t \in Trees, NEW s \in Seq(Messages(t)), s # <<>>, InOrder(t, s),
           Len(s) > Packets(t)
    PROVE  LET r == <<Head(s)>> \o s
           IN r \in Seq(Messages(t)) /\ Len(r) = Len(s) + 1 /\ InOrder(t, r)
<1> DEFINE r == <<Head(s)>> \o s
<1>1. /\ Len(s) \in Nat /\ Packets(t) \in Nat /\ DOMAIN s = 1 .. Len(s)
      /\ Head(s) = SizeMessage(t)
  BY PacketsBegin, HeadInOrder
<1>2. SizeMessage(t) \in Messages(t)
  BY DEF Messages
<1>3. /\ r \in Seq(Messages(t)) /\ Len(r) = Len(s) + 1
      /\ DOMAIN r = 1 .. Len(s) + 1
      /\ \A i \in 1 .. Len(s) + 1 : r[i] = IF i = 1 THEN SizeMessage(t) ELSE s[i - 1]
  BY <1>1, <1>2
<1> HIDE DEF r
<1>4. ASSUME NEW i \in DOMAIN r
      PROVE  LET d == Len(r) - i
             IN r[i] = IF d < Packets(t) THEN NodesFrom(t, FirstFromEnd(t, d))
                       ELSE SizeMessage(t)
  <2>1. CASE i = 1
    BY <1>1, <1>3, <2>1
  <2>2. CASE i # 1
    <3>1. i - 1 \in DOMAIN s /\ Len(s) - (i - 1) = Len(r) - i /\ r[i] = s[i - 1]
      BY <1>1, <1>3, <2>2
    <3>2. QED
      BY <3>1 DEF InOrder
  <2>3. QED
    BY <2>1, <2>2
<1>5. InOrder(t, r)
  BY <1>4 DEF InOrder
<1>6. QED
  BY <1>3, <1>5 DEF r

-------------------------------------------------------------------------------
(* The array *)

\* d2_add_to_local_tree: nodes that begin with the one the index stands for
\* fill the array a bit more.
LEMMA AddedInOrder ==
    ASSUME NEW netnodes, Len(netnodes) \in Nat, node_index \in Nat,
           NEW t, \A k \in 1 .. Len(netnodes) : netnodes[k] = NetNode(t, node_index + k - 1),
           Filled(t, nodes, node_index), AddToLocalTree(netnodes)
    PROVE  node_index' = node_index + Len(netnodes) /\ Filled(t, nodes', node_index')
<1>1. PICK n \in Nat, index \in Nat : n = Len(netnodes) /\ index = node_index
  OBVIOUS
<1> DEFINE written == index .. index + n - 1
<1>2. /\ node_index' = index + n
      /\ nodes' = [i \in DOMAIN nodes \cup written |->
                      IF i \in written THEN netnodes[i - index + 1] ELSE nodes[i]]
  BY <1>1 DEF AddToLocalTree
<1>3. /\ DOMAIN nodes = 0 .. index - 1
      /\ \A i \in 0 .. index - 1 : nodes[i] = NetNode(t, i)
  BY <1>1 DEF Filled
<1>4. DOMAIN nodes \cup written = 0 .. index + n - 1
  BY <1>1, <1>3
<1>5. PICK array : array = nodes'
  OBVIOUS
<1>6. ASSUME NEW i \in 0 .. index + n - 1 PROVE array[i] = NetNode(t, i)
  <2>1. CASE i \in written
    <3>1. array[i] = netnodes[i - index + 1]
      BY <1>2, <1>4, <1>5, <2>1
    <3>2. i - index + 1 \in 1 .. n /\ index + (i - index + 1) - 1 = i
      BY <1>1, <2>1
    <3>3. QED
      BY <1>1, <3>1, <3>2
  <2>2. CASE i \notin written
    <3>1. array[i] = nodes[i] /\ i \in 0 .. index - 1
      BY <1>1, <1>2, <1>4, <1>5, <2>2
    <3>2. QED
      BY <1>3, <3>1
  <2>3. QED
    BY <2>1, <2>2
<1>7. DOMAIN array = 0 .. index + n - 1
  BY <1>2, <1>4, <1>5
<1>8. Filled(t, array, index + n)
  BY <1>6, <1>7 DEF Filled
<1>9. QED
  BY <1>1, <1>2, <1>5, <1>8

\* The array is the one IndexIsId is about.
LEMMA FilledIsId == D2Inv => IndexIsId
<1> SUFFICES ASSUME D2Inv PROVE IndexIsId
  OBVIOUS
<1>1. /\ node_index \in Nat /\ number_of_nodes \in Nat /\ node_index <= number_of_nodes
      /\ Filled(tree, nodes, node_index)
      /\ pc \in {"print", "done"} => node_index = number_of_nodes
  BY DEF D2Inv, D2TypeOK, ArrayIsFilled
<1>2. \A i \in 0 .. node_index - 1 : i < number_of_nodes
  BY <1>1
<1>3. QED
  BY <1>1, <1>2 DEF IndexIsId, Filled, NetNode

-------------------------------------------------------------------------------
(* The steps *)

\* A program that has not sent its request has received nothing.
LEMMA InitD2Inv == Init => D2Inv
<1> SUFFICES ASSUME Init PROVE D2Inv
  OBVIOUS
<1>1. Filled(tree, <<>>, 0)
  BY DEF Filled
<1>2. \A S : <<>> \in Seq(S)
  OBVIOUS
<1>3. D2TypeOK
  BY <1>2 DEF Init, D2TypeOK, Places
<1>4. InOrder(tree, inbox)
  BY DEF Init, InOrder
<1>5. QED
  BY <1>1, <1>3, <1>4 DEF Init, D2Inv, NothingStored, AnswerIsComing, ArrayIsFilled

\* A step that touches neither the inbox nor the array.
LEMMA ElsewhereInv ==
    ASSUME D2Inv, UNCHANGED <<tree, inbox, store>>, pc' \in Places,
           pc' \in {"start", "send", "recv_size"} =>
              pc \in {"start", "send", "recv_size"} /\ (inbox = <<>> \/ pc = pc'),
           pc' \in {"recv_nodes"} => pc = pc',
           pc' \in {"print", "done"} => pc \in {"print", "done"}
    PROVE  D2Inv'
<1>1. /\ tree' = tree /\ inbox' = inbox /\ number_of_nodes' = number_of_nodes
      /\ nodes' = nodes /\ node_index' = node_index
  BY DEF store
<1>2. D2TypeOK'
  BY <1>1 DEF D2Inv, D2TypeOK
<1>3. NothingStored'
  BY <1>1 DEF D2Inv, NothingStored
<1>4. AnswerIsComing'
  BY <1>1 DEF D2Inv, AnswerIsComing
<1>5. ArrayIsFilled'
  BY <1>1 DEF D2Inv, ArrayIsFilled
<1>6. QED
  BY <1>2, <1>3, <1>4, <1>5 DEF D2Inv

\* The server answers with the size and all packets.
LEMMA SendRequestInv == D2Inv /\ SendRequest => D2Inv'
<1> SUFFICES ASSUME D2Inv, SendRequest PROVE D2Inv'
  OBVIOUS
<1>1. /\ pc = "send" /\ pc' = "recv_size" /\ inbox' = Answer(tree)
      /\ tree' = tree /\ number_of_nodes' = number_of_nodes
      /\ nodes' = nodes /\ node_index' = node_index
  BY DEF SendRequest, Goto, store
<1>2. /\ tree \in Trees /\ number_of_nodes \in Nat /\ node_index \in Nat
      /\ nodes = <<>> /\ node_index = 0
      /\ Filled(tree, nodes, node_index) /\ node_index <= number_of_nodes
  BY <1>1 DEF D2Inv, D2TypeOK, NothingStored, ArrayIsFilled
<1>3. PICK s : s = Answer(tree)
  OBVIOUS
<1>4. s \in Seq(Messages(tree)) /\ Len(s) = Packets(tree) + 1 /\ InOrder(tree, s)
  BY <1>2, <1>3, AnswerInOrder
<1>5. Packets(tree) \in Nat
  BY <1>2, PacketsBegin
<1>6. D2TypeOK' /\ NothingStored' /\ ArrayIsFilled'
  BY <1>1, <1>2, <1>3, <1>4 DEF D2TypeOK, NothingStored, ArrayIsFilled, Places
<1>7. AnswerIsComing'
  BY <1>1, <1>3, <1>4, <1>5 DEF AnswerIsComing
<1>8. QED
  BY <1>6, <1>7 DEF D2Inv

\* Only the size is sent again, when the inbox still begins with it.
LEMMA RepeatInv == "repeat_nodes" \notin Faults => (D2Inv /\ Repeat => D2Inv')
<1> SUFFICES ASSUME "repeat_nodes" \notin Faults, D2Inv, Repeat PROVE D2Inv'
  OBVIOUS
<1>1. /\ pc' = pc /\ pc \in {"recv_size", "recv_nodes"} /\ inbox' = <<Head(inbox)>> \o inbox
      /\ tree' = tree /\ number_of_nodes' = number_of_nodes
      /\ nodes' = nodes /\ node_index' = node_index
      /\ inbox # <<>>
      /\ Head(inbox).type = "RESPONSE_SIZE"
  BY DEF Repeat, Fault, store
<1>2. PICK t, s : t = tree /\ s = inbox
  OBVIOUS
<1>3. t \in Trees /\ s \in Seq(Messages(t)) /\ InOrder(t, s) /\ s # <<>>
  BY <1>1, <1>2 DEF D2Inv, D2TypeOK, AnswerIsComing
<1>4. Packets(t) \in Nat /\ Len(s) \in Nat
  BY <1>3, PacketsBegin
<1>5. Len(s) > Packets(t)
  <2>1. Head(s).type \notin {"RESPONSE", "LAST_RESPONSE"}
    BY <1>1, <1>2
  <2>2. ~(Len(s) <= Packets(t))
    BY <1>3, <2>1, HeadType
  <2>3. QED
    BY <1>4, <2>2
<1>6. PICK r : r = <<Head(s)>> \o s
  OBVIOUS
<1>7. r \in Seq(Messages(t)) /\ Len(r) = Len(s) + 1 /\ InOrder(t, r)
  BY <1>3, <1>5, <1>6, RepeatInOrder
<1>8. r # <<>> /\ Len(r) > Packets(t) /\ Received(t, Len(r)) = Received(t, Len(s))
  BY <1>4, <1>5, <1>7 DEF Received
<1>9. D2TypeOK' /\ NothingStored' /\ ArrayIsFilled'
  BY <1>1, <1>2, <1>6, <1>7 DEF D2Inv, D2TypeOK, NothingStored, ArrayIsFilled
<1>10. AnswerIsComing'
  BY <1>1, <1>2, <1>6, <1>7, <1>8 DEF D2Inv, AnswerIsComing
<1>11. QED
  BY <1>9, <1>10 DEF D2Inv

\* The size is that of the tree, and the first packet begins with its root.
LEMMA RecvResponseSizeInv == D2Inv /\ RecvResponseSize => D2Inv'
<1> SUFFICES ASSUME D2Inv, RecvResponseSize PROVE D2Inv'
  OBVIOUS
<1>1. /\ pc = "recv_size" /\ pc' = "recv_nodes" /\ inbox # <<>> /\ inbox' = Tail(inbox)
      /\ Head(inbox).type = "RESPONSE_SIZE" /\ number_of_nodes' = Head(inbox).size
      /\ tree' = tree /\ nodes' = nodes /\ node_index' = node_index
  BY DEF RecvResponseSize, Receiving, Goto
<1>2. PICK t, s : t = tree /\ s = inbox
  OBVIOUS
<1>3. /\ t \in Trees /\ s \in Seq(Messages(t)) /\ InOrder(t, s) /\ s # <<>>
      /\ Len(s) > Packets(t)
      /\ nodes = <<>> /\ node_index = 0 /\ Filled(tree, nodes, node_index)
  BY <1>1, <1>2 DEF D2Inv, D2TypeOK, AnswerIsComing, NothingStored, ArrayIsFilled
<1>4. /\ Packets(t) \in Nat /\ Packets(t) >= 1 /\ Len(s) \in Nat
      /\ FirstFromEnd(t, Packets(t) - 1) = 0
  BY <1>3, PacketsBegin
<1>5. Head(s).size = Size(t) /\ Size(t) \in Nat
  BY <1>3, <1>4, HeadType, TreeSize
<1>6. PICK r : r = Tail(s)
  OBVIOUS
<1>7. r \in Seq(Messages(t)) /\ Len(r) = Len(s) - 1 /\ InOrder(t, r)
  BY <1>3, <1>6, TailInOrder
<1>8. r # <<>> /\ Received(t, Len(r)) = 0
  <2>1. Len(r) >= Packets(t) /\ Len(r) \in Nat
    BY <1>3, <1>4, <1>7
  <2>2. Len(r) = Packets(t) \/ Len(r) > Packets(t)
    BY <1>4, <2>1
  <2>3. QED
    BY <1>4, <2>1, <2>2 DEF Received
<1>9. D2TypeOK' /\ NothingStored' /\ ArrayIsFilled'
  BY <1>1, <1>2, <1>3, <1>5, <1>6, <1>7
     DEF D2TypeOK, NothingStored, ArrayIsFilled, Places
<1>10. AnswerIsComing'
  BY <1>1, <1>2, <1>3, <1>5, <1>6, <1>7, <1>8 DEF AnswerIsComing
<1>11. QED
  BY <1>9, <1>10 DEF D2Inv

\* A size that is sent again is left out, and the packets have not begun.
LEMMA RecvOtherInv == D2Inv /\ RecvOther => D2Inv'
<1> SUFFICES ASSUME D2Inv, RecvOther PROVE D2Inv'
  OBVIOUS
<1>1. /\ pc = "recv_nodes" /\ pc' = pc /\ inbox # <<>> /\ inbox' = Tail(inbox)
      /\ Head(inbox).type = "RESPONSE_SIZE"
      /\ tree' = tree /\ number_of_nodes' = number_of_nodes
      /\ nodes' = nodes /\ node_index' = node_index
  BY DEF RecvOther, Receiving, store
<1>2. PICK t, s : t = tree /\ s = inbox
  OBVIOUS
<1>3. /\ t \in Trees /\ s \in Seq(Messages(t)) /\ InOrder(t, s) /\ s # <<>>
      /\ number_of_nodes = Size(t) /\ node_index = Received(t, Len(s))
  BY <1>1, <1>2 DEF D2Inv, D2TypeOK, AnswerIsComing
<1>4. /\ Packets(t) \in Nat /\ Packets(t) >= 1 /\ Len(s) \in Nat
      /\ FirstFromEnd(t, Packets(t) - 1) = 0
  BY <1>3, PacketsBegin
<1>5. Len(s) > Packets(t)
  BY <1>1, <1>2, <1>3, <1>4, HeadType
<1>6. PICK r : r = Tail(s)
  OBVIOUS
<1>7. r \in Seq(Messages(t)) /\ Len(r) = Len(s) - 1 /\ InOrder(t, r)
  BY <1>3, <1>6, TailInOrder
<1>8. r # <<>> /\ Received(t, Len(r)) = 0 /\ Received(t, Len(s)) = 0
  <2>1. Len(r) >= Packets(t) /\ Len(r) \in Nat
    BY <1>4, <1>5, <1>7
  <2>2. Len(r) = Packets(t) \/ Len(r) > Packets(t)
    BY <1>4, <2>1
  <2>3. QED
    BY <1>4, <1>5, <2>1, <2>2 DEF Received
<1>9. D2TypeOK' /\ NothingStored' /\ ArrayIsFilled'
  BY <1>1, <1>2, <1>6, <1>7 DEF D2Inv, D2TypeOK, NothingStored, ArrayIsFilled
<1>10. AnswerIsComing'
  BY <1>1, <1>2, <1>3, <1>6, <1>7, <1>8 DEF AnswerIsComing
<1>11. QED
  BY <1>9, <1>10 DEF D2Inv

\* A packet begins with the node whose index is the next one; the one that says
\* it is the last is, and no other.
LEMMA RecvNodesInv == D2Inv /\ RecvNodes => D2Inv'
<1> SUFFICES ASSUME D2Inv, RecvNodes PROVE D2Inv'
  OBVIOUS
<1>1. PICK m :
         /\ inbox # <<>> /\ m = Head(inbox) /\ inbox' = Tail(inbox)
         /\ m.type \in {"RESPONSE", "LAST_RESPONSE"}
         /\ AddToLocalTree(m.netnodes)
         /\ pc' = IF m.type = "LAST_RESPONSE" THEN "print" ELSE pc
  BY DEF RecvNodes, Receiving, Goto
<1>2. pc = "recv_nodes" /\ tree' = tree /\ number_of_nodes' = number_of_nodes
  BY DEF RecvNodes
<1>3. PICK t, s : t = tree /\ s = inbox
  OBVIOUS
<1>4. /\ t \in Trees /\ s \in Seq(Messages(t)) /\ InOrder(t, s) /\ s # <<>>
      /\ number_of_nodes = Size(t) /\ node_index = Received(t, Len(s))
      /\ node_index \in Nat /\ Filled(tree, nodes, node_index)
  BY <1>1, <1>2, <1>3 DEF D2Inv, D2TypeOK, AnswerIsComing, ArrayIsFilled
<1>5. /\ Packets(t) \in Nat /\ Packets(t) >= 1 /\ Len(s) \in Nat /\ Len(s) >= 1
      /\ Size(t) \in Nat
  BY <1>4, PacketsBegin, HeadInOrder, TreeSize
<1>6. Len(s) <= Packets(t)
  BY <1>1, <1>3, <1>4, <1>5, HeadType
<1>7. PICK d : d = Len(s) - 1 /\ d \in 0 .. Packets(t) - 1
  BY <1>5, <1>6
<1>8. PICK first : first = FirstFromEnd(t, d)
  OBVIOUS
<1>9. first \in Nat /\ first < Size(t)
  BY <1>4, <1>7, <1>8, PacketsBegin
<1>10. m = NodesFrom(t, first) /\ node_index = first
  BY <1>1, <1>3, <1>4, <1>5, <1>6, <1>7, <1>8, HeadInOrder DEF Received
<1>11. /\ Len(m.netnodes) \in Nat
       /\ \A k \in 1 .. Len(m.netnodes) : m.netnodes[k] = NetNode(t, first + k - 1)
       /\ m.type = "LAST_RESPONSE" => first + Len(m.netnodes) = Size(t)
       /\ m.type # "LAST_RESPONSE" =>
             Len(m.netnodes) = PerPacket /\ first + PerPacket < Size(t)
  BY <1>4, <1>9, <1>10, PacketHas
<1>12. node_index' = first + Len(m.netnodes) /\ Filled(t, nodes', node_index')
  <2>1. \A k \in 1 .. Len(m.netnodes) : m.netnodes[k] = NetNode(t, node_index + k - 1)
    BY <1>10, <1>11
  <2>2. QED
    BY <1>1, <1>3, <1>4, <1>10, <1>11, <2>1, AddedInOrder
<1>13. PICK r : r = Tail(s)
  OBVIOUS
<1>14. r \in Seq(Messages(t)) /\ Len(r) = d /\ InOrder(t, r)
  BY <1>4, <1>5, <1>7, <1>13, TailInOrder
<1>15. PICK index \in Nat : index = node_index' /\ index = first + Len(m.netnodes)
  BY <1>9, <1>11, <1>12
<1>16. CASE m.type = "LAST_RESPONSE"
  <2>1. pc' = "print" /\ index = Size(t)
    BY <1>1, <1>11, <1>15, <1>16
  <2>2. D2TypeOK' /\ NothingStored'
    BY <1>1, <1>2, <1>3, <1>4, <1>5, <1>13, <1>14, <1>15, <2>1
       DEF D2TypeOK, NothingStored, Places
  <2>3. ArrayIsFilled'
    BY <1>2, <1>3, <1>4, <1>5, <1>12, <1>15, <2>1 DEF ArrayIsFilled
  <2>4. AnswerIsComing'
    BY <1>1, <1>2, <1>3, <1>13, <1>14, <2>1 DEF AnswerIsComing
  <2>5. QED
    BY <2>2, <2>3, <2>4 DEF D2Inv
<1>17. CASE m.type # "LAST_RESPONSE"
  <2>1. /\ pc' = "recv_nodes" /\ index = first + PerPacket /\ index < Size(t)
    BY <1>1, <1>2, <1>11, <1>15, <1>17
  <2>2. d # 0
    <3>1. FirstFromEnd(t, 0) + PerPacket >= Size(t) /\ PerPacket \in Nat
      BY <1>4, PacketsBegin, D2Assumption
    <3>2. QED
      BY <1>5, <1>8, <1>9, <1>11, <1>17, <3>1
  <2>3. d \in 1 .. Packets(t) - 1
    BY <1>5, <1>7, <2>2
  <2>4. r # <<>>
    BY <1>14, <2>2
  <2>5. index = Received(t, d)
    <3>1. FirstFromEnd(t, d - 1) = first + PerPacket
      BY <1>4, <1>8, <2>3, PacketsBegin
    <3>2. ~(d > Packets(t))
      BY <1>5, <2>3
    <3>3. QED
      BY <2>1, <3>1, <3>2 DEF Received
  <2>6. D2TypeOK' /\ NothingStored'
    BY <1>1, <1>2, <1>3, <1>4, <1>5, <1>13, <1>14, <1>15, <2>1
       DEF D2TypeOK, NothingStored, Places
  <2>7. ArrayIsFilled'
    BY <1>2, <1>3, <1>4, <1>5, <1>12, <1>15, <2>1 DEF ArrayIsFilled
  <2>8. AnswerIsComing'
    BY <1>1, <1>2, <1>3, <1>4, <1>13, <1>14, <1>15, <2>1, <2>4, <2>5 DEF AnswerIsComing
  <2>9. QED
    BY <2>6, <2>7, <2>8 DEF D2Inv
<1>18. QED
  BY <1>16, <1>17

\* Every step of the client and of D1 keeps the invariant.
LEMMA D2Step_Inv == "repeat_nodes" \notin Faults => (D2Inv /\ [Next]_vars => D2Inv')
<1> SUFFICES ASSUME "repeat_nodes" \notin Faults, D2Inv, [Next]_vars PROVE D2Inv'
  OBVIOUS
<1> USE ElsewhereInv
<1>1. CASE Start
  BY <1>1 DEF Start, Goto, Places, D2Inv, NothingStored
<1>2. CASE CreateFails
  BY <1>2 DEF CreateFails, Goto, Places
<1>3. CASE SendFails
  BY <1>3 DEF SendFails, Goto, Places
<1>4. CASE RequestRefused \/ RequestLost
  <2>1. pc = "send" /\ inbox = <<>>
    BY <1>4 DEF RequestRefused, RequestLost, D2Inv, NothingStored
  <2>2. QED
    BY <1>4, <2>1 DEF RequestRefused, RequestLost, Goto, Places, D2Inv, NothingStored
<1>5. CASE RecvFails
  BY <1>5 DEF RecvFails, Goto, Places
<1>6. CASE PrintRoot
  BY <1>6 DEF PrintRoot, Places
<1>7. CASE PrintNode
  BY <1>7 DEF PrintNode, Places
<1>8. CASE Finish
  BY <1>8 DEF Finish, Goto, Places
<1>9. CASE UNCHANGED vars
  BY <1>9 DEF vars, D2Inv, D2TypeOK, NothingStored, AnswerIsComing
<1>10. QED
  BY <1>1, <1>2, <1>3, <1>4, <1>5, <1>6, <1>7, <1>8, <1>9, SendRequestInv, RepeatInv,
     RecvResponseSizeInv, RecvOtherInv, RecvNodesInv DEF Next, Program, Failures

\* d2_add_to_local_tree stores the nodes in the order they arrive, and
\* print_node takes the id of a node for its index: it may, for any tree, any
\* length of the packets and any number of faults, as long as no packet with
\* nodes is stored twice.
THEOREM IndexIsIdHolds ==
    ASSUME "repeat_nodes" \notin Faults PROVE Spec => []IndexIsId
<1>1. D2Inv /\ [Next]_vars => D2Inv'
  BY D2Step_Inv
<1>2. QED
  BY <1>1, InitD2Inv, FilledIsId, PTL DEF Spec

-------------------------------------------------------------------------------
(* Children and depths *)

\* A set of numbers, in order: each member is in one place.
LEMMA AscendingEffect ==
    ASSUME NEW S \in SUBSET Nat, IsFiniteSet(S)
    PROVE  /\ Ascending(S) \in Seq(S)
           /\ \A j \in S : \E k \in DOMAIN Ascending(S) : Ascending(S)[k] = j
           /\ \A k, m \in DOMAIN Ascending(S) : k < m => Ascending(S)[k] < Ascending(S)[m]
<1> DEFINE below(j) == {i \in S : i < j}
           rank == [j \in S |-> Cardinality(below(j)) + 1]
<1>1. PICK n \in Nat : n = Cardinality(S)
  BY FS_CardinalityType
<1>2. ASSUME NEW j \in S
      PROVE  IsFiniteSet(below(j)) /\ Cardinality(below(j)) \in Nat /\ Cardinality(below(j)) < n
  <2>1. below(j) \in SUBSET S /\ below(j) # S
    OBVIOUS
  <2>2. /\ IsFiniteSet(below(j)) /\ Cardinality(below(j)) <= n
        /\ Cardinality(below(j)) # n
    BY <1>1, <2>1, FS_Subset
  <2>3. Cardinality(below(j)) \in Nat
    BY <2>2, FS_CardinalityType
  <2>4. QED
    BY <1>1, <2>2, <2>3
<1>3. ASSUME NEW i \in S, NEW j \in S, i < j
      PROVE  Cardinality(below(i)) < Cardinality(below(j))
  <2>1. below(i) \in SUBSET below(j) /\ below(i) # below(j)
    <3>1. i \in below(j) /\ i \notin below(i)
      BY <1>3
    <3>2. \A h \in S : h < i => h < j
      BY <1>3
    <3>3. QED
      BY <3>1, <3>2
  <2>2. /\ Cardinality(below(i)) <= Cardinality(below(j))
        /\ Cardinality(below(i)) # Cardinality(below(j))
    BY <1>2, <2>1, FS_Subset
  <2>3. QED
    BY <1>2, <2>2
<1> HIDE DEF below
<1>4. rank \in [S -> 1 .. n]
  BY <1>2
<1>5. ASSUME NEW i \in S, NEW j \in S, rank[i] = rank[j] PROVE i = j
  BY <1>2, <1>3, <1>5
<1>6. rank \in Injection(S, 1 .. n)
  BY <1>4, <1>5 DEF Injection, IsInjective
<1>7. IsFiniteSet(1 .. n) /\ Cardinality(1 .. n) = n
  BY FS_Interval
<1>8. rank \in Surjection(S, 1 .. n)
  BY <1>1, <1>6, <1>7, FS_Injection
<1>9. \A k \in 1 .. n : \E j \in S : rank[j] = k
  BY <1>8 DEF Surjection
<1> DEFINE place(k) == CHOOSE j \in S : Cardinality(below(j)) = k - 1
<1>10. ASSUME NEW k \in 1 .. n PROVE place(k) \in S /\ Cardinality(below(place(k))) = k - 1
  <2>1. PICK j \in S : rank[j] = k
    BY <1>9
  <2>2. Cardinality(below(j)) = k - 1
    BY <1>2, <2>1
  <2>3. QED
    BY <2>2
<1>11. Ascending(S) = [k \in 1 .. n |-> place(k)]
  BY <1>1 DEF Ascending, below
<1> HIDE DEF place
<1>12. /\ Ascending(S) \in Seq(S) /\ DOMAIN Ascending(S) = 1 .. n
       /\ \A k \in 1 .. n : Ascending(S)[k] = place(k)
  BY <1>10, <1>11
<1>13. ASSUME NEW j \in S PROVE \E k \in 1 .. n : place(k) = j
  <2>1. PICK k \in 1 .. n : k = Cardinality(below(j)) + 1
    BY <1>2
  <2>2. rank[place(k)] = rank[j]
    BY <1>2, <1>10, <2>1
  <2>3. QED
    BY <1>5, <1>10, <2>2
<1>14. ASSUME NEW k \in 1 .. n, NEW m \in 1 .. n, k < m PROVE place(k) < place(m)
  <2>1. place(k) \in Nat /\ place(m) \in Nat
    BY <1>10
  <2>2. Cardinality(below(place(k))) < Cardinality(below(place(m)))
    <3>1. Cardinality(below(place(k))) = k - 1 /\ Cardinality(below(place(m))) = m - 1
      BY <1>10
    <3>2. QED
      BY <1>14, <3>1
  <2>3. ~(place(m) < place(k)) /\ place(k) # place(m)
    <3>1. PICK x, y : x = place(k) /\ y = place(m)
      OBVIOUS
    <3>2. x \in S /\ y \in S /\ Cardinality(below(x)) < Cardinality(below(y))
      BY <1>10, <2>2, <3>1
    <3>3. Cardinality(below(x)) \in Nat /\ Cardinality(below(y)) \in Nat
      BY <1>2, <3>2
    <3>4. y < x => Cardinality(below(y)) < Cardinality(below(x))
      BY <1>3, <3>2
    <3>5. QED
      BY <3>1, <3>2, <3>3, <3>4
  <2>4. QED
    BY <2>1, <2>3
<1>15. QED
  BY <1>12, <1>13, <1>14

\* The ids are in depth-first order.
LEMMA DepthFirst ==
    ASSUME NEW t \in Trees
    PROVE  /\ Size(t) \in Nat /\ Size(t) >= 1
           /\ Len(t) = Size(t) - 1
           /\ \A i \in 1 .. Size(t) - 1 : t[i] \in Nat /\ t[i] < i
           /\ \A i, j \in 1 .. Size(t) - 1 : i < j => t[j] >= i \/ t[j] <= t[i]
<1>1. PICK n \in 1 .. MaxNodes :
         /\ t \in [1 .. n - 1 -> 0 .. n - 2]
         /\ \A i \in 1 .. n - 1 : t[i] < i
         /\ \A i, j \in 1 .. n - 1 : i < j => t[j] >= i \/ t[j] <= t[i]
  BY DEF Trees
<1>2. n \in Nat /\ n >= 1 /\ n - 1 \in Nat
  BY D2Assumption
<1>3. t \in Seq(0 .. n - 2) /\ Len(t) = n - 1
  BY <1>1, <1>2
<1>4. Size(t) = n
  BY <1>2, <1>3 DEF Size
<1>5. \A i \in 1 .. n - 1 : t[i] \in Nat
  BY <1>1, <1>2
<1>6. QED
  BY <1>1, <1>2, <1>3, <1>4, <1>5

DepthIn(t, i) == Cardinality(Ancestors(t, i))

\* A node is one level below its parent.
LEMMA DepthBelow ==
    ASSUME NEW t \in Trees, NEW i \in 1 .. Size(t) - 1
    PROVE  DepthIn(t, i) = DepthIn(t, t[i]) + 1
<1>1. PICK n \in Nat : n = Size(t)
  BY DepthFirst
<1>2. PICK p \in Nat : p = t[i] /\ p < i
  BY DepthFirst
<1>3. \A j \in 1 .. n - 1 : t[j] \in Nat
  BY <1>1, DepthFirst
<1>4. \A j \in p + 1 .. i : t[j] >= p
  <2>1. ASSUME NEW j \in p + 1 .. i PROVE t[j] >= p
    <3>1. CASE j = i
      BY <1>2, <3>1
    <3>2. CASE j # i
      <4>1. j < i /\ j \in 1 .. n - 1 /\ i \in 1 .. n - 1 /\ p < j
        BY <1>1, <1>2, <3>2
      <4>2. t[i] >= j \/ t[i] <= t[j]
        BY <1>1, <4>1, DepthFirst
      <4>3. QED
        BY <1>2, <1>3, <4>1, <4>2
    <3>3. QED
      BY <3>1, <3>2
  <2>2. QED
    BY <2>1
<1>5. Ancestors(t, i) \subseteq Ancestors(t, p) \cup {p}
  <2>1. ASSUME NEW a \in Ancestors(t, i), a # p PROVE a \in Ancestors(t, p)
    <3>1. a \in 0 .. i - 1 /\ \A j \in a + 1 .. i : t[j] >= a
      BY DEF Ancestors
    <3>2. i \in a + 1 .. i
      BY <3>1
    <3>3. a < p
      BY <1>2, <2>1, <3>1, <3>2
    <3>4. \A j \in a + 1 .. p : t[j] >= a
      BY <1>2, <3>1
    <3>5. QED
      BY <3>1, <3>3, <3>4 DEF Ancestors
  <2>2. QED
    BY <2>1
<1>6. Ancestors(t, p) \cup {p} \subseteq Ancestors(t, i)
  <2>1. p \in Ancestors(t, i)
    BY <1>2, <1>4 DEF Ancestors
  <2>2. ASSUME NEW a \in Ancestors(t, p) PROVE a \in Ancestors(t, i)
    <3>1. a \in 0 .. p - 1 /\ \A j \in a + 1 .. p : t[j] >= a
      BY DEF Ancestors
    <3>2. ASSUME NEW j \in a + 1 .. i PROVE t[j] >= a
      <4>1. CASE j <= p
        BY <3>1, <4>1
      <4>2. CASE ~(j <= p)
        <5>1. j \in p + 1 .. i /\ j \in 1 .. n - 1
          BY <1>1, <1>2, <3>1, <4>2
        <5>2. t[j] >= p /\ t[j] \in Nat
          BY <1>3, <1>4, <5>1
        <5>3. QED
          BY <3>1, <5>2
      <4>3. QED
        BY <4>1, <4>2
    <3>3. QED
      BY <1>2, <3>1, <3>2 DEF Ancestors
  <2>3. QED
    BY <2>1, <2>2
<1>7. p \notin Ancestors(t, p)
  BY DEF Ancestors
<1>8. IsFiniteSet(Ancestors(t, p))
  <2>1. IsFiniteSet(0 .. p - 1)
    BY <1>2, FS_Interval
  <2>2. Ancestors(t, p) \in SUBSET (0 .. p - 1)
    BY DEF Ancestors
  <2>3. QED
    BY <2>1, <2>2, FS_Subset
<1>9. Ancestors(t, i) = Ancestors(t, p) \cup {p}
  BY <1>5, <1>6
<1>10. QED
  BY <1>2, <1>7, <1>8, <1>9, FS_AddElement DEF DepthIn

-------------------------------------------------------------------------------
(* What is printed *)

\* The lines of the first n nodes.
Lines(t, n) == [k \in 1 .. n |-> <<k - 1, DepthIn(t, k - 1)>>]

\* The nodes whose parents are among the first n, which they are not.
Waiting(t, n) == {j \in 1 .. Size(t) - 1 : j >= n /\ t[j] < n}

Ordered(s) == \A k, m \in DOMAIN s : k < m => s[k][1] < s[m][1]

\* The pending calls s are for the nodes of W, in their order.
AreFor(t, s, W) ==
    /\ s \in Seq(Nat \X Nat)
    /\ \A k \in DOMAIN s : s[k][1] \in W /\ s[k][2] = DepthIn(t, s[k][1])
    /\ \A j \in W : \E k \in DOMAIN s : s[k][1] = j
    /\ Ordered(s)

PrintedOK(t, n) ==
    /\ printed = Lines(t, n)
    /\ n > 0 => pc \in {"print", "done"} /\ AreFor(t, todo, Waiting(t, n))
    /\ n = 0 => todo = <<>>
    /\ pc = "done" => n = Size(t)

PrintInv == \E n \in 0 .. Size(tree) : PrintedOK(tree, n)

LEMMA DepthType ==
    ASSUME NEW t, NEW i \in Nat
    PROVE  DepthIn(t, i) \in Nat /\ DepthIn(t, 0) = 0
<1>1. IsFiniteSet(0 .. i - 1) /\ Ancestors(t, i) \in SUBSET (0 .. i - 1)
  <2>1. IsFiniteSet(0 .. i - 1)
    BY FS_Interval
  <2>2. QED
    BY <2>1 DEF Ancestors
<1>2. DepthIn(t, i) \in Nat
  BY <1>1, FS_Subset, FS_CardinalityType DEF DepthIn
<1>3. Ancestors(t, 0) = {}
  BY DEF Ancestors
<1>4. QED
  BY <1>2, <1>3, FS_EmptySet DEF DepthIn

\* print_node calls itself for the children of a node, one level below it.
LEMMA CallsForChildren ==
    ASSUME NEW t \in Trees, NEW i \in 0 .. Size(t) - 1
    PROVE  AreFor(t, ChildrenOf(NetNode(t, i), DepthIn(t, i)), Children(t, i))
<1> DEFINE S == Children(t, i)
           a == Ascending(S)
           d == DepthIn(t, i) + 1
           c == ChildrenOf(NetNode(t, i), DepthIn(t, i))
<1>1. PICK n \in Nat : n = Size(t) /\ Len(t) = n - 1
  BY DepthFirst
<1>2. IsFiniteSet(S) /\ S \in SUBSET Nat
  <2>1. IsFiniteSet(1 .. n - 1)
    BY <1>1, FS_Interval
  <2>2. S \in SUBSET (1 .. n - 1)
    BY <1>1 DEF Children
  <2>3. IsFiniteSet(S)
    BY <2>1, <2>2, FS_Subset
  <2>4. QED
    BY <2>2, <2>3
<1>3. \A j \in S : DepthIn(t, j) = d
  <2>1. ASSUME NEW j \in S PROVE DepthIn(t, j) = d
    <3>1. j \in 1 .. Size(t) - 1 /\ t[j] = i
      BY <1>1 DEF Children
    <3>2. QED
      BY <3>1, DepthBelow
  <2>2. QED
    BY <2>1
<1>4. d \in Nat
  BY <1>1, DepthType
<1> HIDE DEF S, d
<1>5. /\ a \in Seq(S)
      /\ \A j \in S : \E k \in DOMAIN a : a[k] = j
      /\ \A k, m \in DOMAIN a : k < m => a[k] < a[m]
  BY <1>2, AscendingEffect
<1>6. c = [k \in DOMAIN a |-> <<a[k], d>>]
  BY DEF ChildrenOf, NetNode, S, d
<1> HIDE DEF a, c
<1>7. PICK len \in Nat : DOMAIN a = 1 .. len
  BY <1>5
<1>8. DOMAIN c = 1 .. len /\ \A k \in 1 .. len : a[k] \in S /\ c[k] = <<a[k], d>>
  BY <1>5, <1>6, <1>7
<1>9. c \in Seq(Nat \X Nat)
  <2>1. \A k \in 1 .. len : c[k] \in Nat \X Nat
    <3>1. ASSUME NEW k \in 1 .. len PROVE c[k] \in Nat \X Nat
      <4>1. a[k] \in Nat /\ c[k] = <<a[k], d>>
        BY <1>2, <1>8
      <4>2. QED
        BY <1>4, <4>1
    <3>2. QED
      BY <3>1
  <2>2. c \in [1 .. len -> Nat \X Nat]
    BY <1>6, <1>7, <2>1
  <2>3. QED
    BY <2>2
<1>10. \A k \in DOMAIN c : c[k][1] \in S /\ c[k][2] = DepthIn(t, c[k][1])
  BY <1>3, <1>8
<1>11. \A j \in S : \E k \in DOMAIN c : c[k][1] = j
  BY <1>5, <1>7, <1>8
<1>12. Ordered(c)
  BY <1>5, <1>7, <1>8 DEF Ordered
<1>13. QED
  BY <1>9, <1>10, <1>11, <1>12 DEF AreFor, S, c

\* One sequence behind another.
Joined(q, a, m, b, n) ==
    /\ DOMAIN q = 1 .. m + n
    /\ \A k \in 1 .. m : q[k] = a[k]
    /\ \A k \in m + 1 .. m + n : q[k] = b[k - m]

LEMMA OneBehindOther ==
    ASSUME NEW S, NEW a \in Seq(S), NEW b \in Seq(S)
    PROVE  a \o b \in Seq(S) /\ Joined(a \o b, a, Len(a), b, Len(b))
BY DEF Joined

\* The next call is for the next node, and its children come before all that
\* is pending.
LEMMA NextCall ==
    ASSUME NEW t \in Trees, NEW n \in 1 .. Size(t), NEW s, s # <<>>,
           AreFor(t, s, Waiting(t, n))
    PROVE  /\ n < Size(t)
           /\ Head(s)[1] = n /\ Head(s)[2] = DepthIn(t, n)
           /\ AreFor(t, ChildrenOf(NetNode(t, n), DepthIn(t, n)) \o Tail(s),
                     Waiting(t, n + 1))
<1>1. PICK size \in Nat :
         /\ size = Size(t) /\ Len(t) = size - 1
         /\ \A i \in 1 .. size - 1 : t[i] \in Nat /\ t[i] < i
         /\ \A i, j \in 1 .. size - 1 : i < j => t[j] >= i \/ t[j] <= t[i]
  BY DepthFirst
<1>2. /\ s \in Seq(Nat \X Nat) /\ Ordered(s)
      /\ \A k \in DOMAIN s : s[k][1] \in Waiting(t, n) /\ s[k][2] = DepthIn(t, s[k][1])
      /\ \A j \in Waiting(t, n) : \E k \in DOMAIN s : s[k][1] = j
  BY DEF AreFor
<1>3. PICK len \in Nat : len >= 1 /\ DOMAIN s = 1 .. len /\ Len(s) = len
  BY <1>2
<1>4. Head(s) = s[1] /\ 1 \in DOMAIN s
  BY <1>2, <1>3
<1>5. \A j \in Waiting(t, n) : j \in 1 .. size - 1 /\ j >= n /\ t[j] < n
  BY <1>1 DEF Waiting
<1>6. n < size /\ n \in Waiting(t, n)
  <2>1. s[1][1] \in 1 .. size - 1 /\ s[1][1] >= n
    BY <1>2, <1>4, <1>5
  <2>2. n < size
    BY <1>1, <2>1
  <2>3. n \in 1 .. size - 1 /\ t[n] < n
    BY <1>1, <2>2
  <2>4. QED
    BY <1>1, <2>2, <2>3 DEF Waiting
<1>7. s[1][1] = n
  <2>1. PICK k \in DOMAIN s : s[k][1] = n
    BY <1>2, <1>6
  <2>2. CASE k = 1
    BY <2>1, <2>2
  <2>3. CASE k # 1
    <3>1. s[1][1] < s[k][1]
      <4>1. 1 < k
        BY <1>3, <2>3
      <4>2. QED
        BY <1>2, <1>4, <4>1 DEF Ordered
    <3>2. s[1][1] >= n /\ s[1][1] \in 1 .. size - 1
      BY <1>2, <1>4, <1>5
    <3>3. QED
      BY <1>1, <2>1, <3>1, <3>2
  <2>4. QED
    BY <2>2, <2>3
<1> DEFINE c == ChildrenOf(NetNode(t, n), DepthIn(t, n))
           r == Tail(s)
           W == Waiting(t, n + 1)
<1>8. AreFor(t, c, Children(t, n))
  BY <1>1, <1>6, CallsForChildren
<1>9. \A j \in Children(t, n) : j \in 1 .. size - 1 /\ t[j] = n /\ j > n
  BY <1>1 DEF Children
<1> HIDE DEF c
<1>10. PICK clen \in Nat : DOMAIN c = 1 .. clen /\ Len(c) = clen /\ c \in Seq(Nat \X Nat)
  BY <1>8 DEF AreFor
<1>11. /\ r \in Seq(Nat \X Nat) /\ Len(r) = len - 1
       /\ \A k \in 1 .. len - 1 : r[k] = s[k + 1]
  BY <1>2, <1>3
<1> HIDE DEF r
<1> DEFINE q == c \o r
<1>12. /\ q \in Seq(Nat \X Nat) /\ DOMAIN q = 1 .. clen + len - 1
       /\ \A k \in 1 .. clen : q[k] = c[k]
       /\ \A k \in clen + 1 .. clen + len - 1 : q[k] = r[k - clen]
  <2>1. clen + (len - 1) = clen + len - 1 /\ len - 1 \in Nat
    BY <1>3, <1>10
  <2>2. PICK rlen \in Nat : rlen = len - 1
    BY <2>1
  <2>3. PICK S : S = Nat \X Nat /\ Len(c) = clen /\ Len(r) = rlen
                 /\ c \in Seq(S) /\ r \in Seq(S)
    BY <1>10, <1>11, <2>2
  <2>4. q \in Seq(S) /\ Joined(q, c, clen, r, rlen)
    BY <2>3, OneBehindOther
  <2>5. clen + rlen = clen + len - 1
    BY <2>1, <2>2
  <2>6. QED
    BY <2>3, <2>4, <2>5 DEF Joined
<1> HIDE DEF q
<1>13. \A k \in clen + 1 .. clen + len - 1 : q[k] = s[k - clen + 1]
  <2>1. ASSUME NEW k \in clen + 1 .. clen + len - 1 PROVE q[k] = s[k - clen + 1]
    <3>1. k - clen \in 1 .. len - 1
      BY <1>3, <1>10
    <3>2. QED
      BY <1>11, <1>12, <3>1
  <2>2. QED
    BY <2>1
<1>14. ASSUME NEW k \in 1 .. clen
       PROVE  /\ q[k] = c[k] /\ c[k][1] \in Children(t, n)
              /\ c[k][2] = DepthIn(t, c[k][1])
  BY <1>8, <1>10, <1>12 DEF AreFor
<1>15. ASSUME NEW k \in clen + 1 .. clen + len - 1
       PROVE  /\ k - clen + 1 \in DOMAIN s /\ q[k] = s[k - clen + 1]
              /\ q[k][1] \in Waiting(t, n) /\ q[k][1] # n
              /\ q[k][2] = DepthIn(t, q[k][1])
  <2>1. k - clen + 1 \in DOMAIN s /\ 1 < k - clen + 1
    BY <1>3, <1>10
  <2>2. s[1][1] < s[k - clen + 1][1]
    BY <1>2, <1>4, <2>1 DEF Ordered
  <2>3. q[k] = s[k - clen + 1]
    BY <1>13
  <2>4. s[k - clen + 1][1] \in Waiting(t, n)
        /\ s[k - clen + 1][2] = DepthIn(t, s[k - clen + 1][1])
    BY <1>2, <2>1
  <2>5. s[k - clen + 1][1] # n
    BY <1>5, <1>7, <2>2, <2>4
  <2>6. QED
    BY <2>1, <2>3, <2>4, <2>5
<1>16. Children(t, n) \subseteq W /\ \A j \in Waiting(t, n) : j # n => j \in W
  <2>1. ASSUME NEW j \in Children(t, n) PROVE j \in W
    BY <1>1, <1>9 DEF Waiting
  <2>2. ASSUME NEW j \in Waiting(t, n), j # n PROVE j \in W
    BY <1>1, <1>5, <2>2 DEF Waiting
  <2>3. QED
    BY <2>1, <2>2
<1>17. ASSUME NEW k \in DOMAIN q PROVE q[k][1] \in W /\ q[k][2] = DepthIn(t, q[k][1])
  <2>1. CASE k \in 1 .. clen
    BY <1>14, <1>16, <2>1
  <2>2. CASE k \in clen + 1 .. clen + len - 1
    BY <1>15, <1>16, <2>2
  <2>3. QED
    BY <1>3, <1>10, <1>12, <2>1, <2>2
<1>18. ASSUME NEW j \in W PROVE \E k \in DOMAIN q : q[k][1] = j
  <2>1. j \in 1 .. size - 1 /\ j > n /\ t[j] \in Nat /\ t[j] < n + 1
    BY <1>1 DEF Waiting
  <2>2. CASE t[j] = n
    <3>1. j \in Children(t, n)
      BY <1>1, <2>1, <2>2 DEF Children
    <3>2. PICK k \in 1 .. clen : c[k][1] = j
      BY <1>8, <1>10, <3>1 DEF AreFor
    <3>3. k \in DOMAIN q
      BY <1>3, <1>10, <1>12
    <3>4. QED
      BY <1>14, <3>2, <3>3
  <2>3. CASE t[j] # n
    <3>1. j \in Waiting(t, n)
      BY <1>1, <2>1, <2>3 DEF Waiting
    <3>2. PICK h \in DOMAIN s : s[h][1] = j
      BY <1>2, <3>1
    <3>3. h # 1 /\ h \in 1 .. len
      BY <1>3, <1>7, <2>1, <3>2
    <3>4. PICK m \in Int : m = h + clen - 1
      BY <3>3
    <3>5. m - clen + 1 = h /\ m \in clen + 1 .. clen + len - 1 /\ m \in 1 .. clen + len - 1
      BY <3>3, <3>4
    <3>6. m \in DOMAIN q
      BY <1>12, <3>5
    <3>7. q[m] = s[m - clen + 1]
      BY <1>13, <3>5
    <3>8. QED
      BY <3>2, <3>5, <3>6, <3>7
  <2>4. QED
    BY <2>2, <2>3
<1>19. ASSUME NEW k \in DOMAIN q, NEW m \in DOMAIN q, k < m PROVE q[k][1] < q[m][1]
  <2>1. CASE k \in 1 .. clen /\ m \in 1 .. clen
    BY <1>8, <1>10, <1>14, <1>19, <2>1 DEF AreFor, Ordered
  <2>2. CASE k \in clen + 1 .. clen + len - 1 /\ m \in clen + 1 .. clen + len - 1
    <3>1. k - clen + 1 < m - clen + 1
      BY <1>19, <1>10, <2>2
    <3>2. QED
      BY <1>2, <1>15, <2>2, <3>1 DEF Ordered
  <2>3. CASE k \in 1 .. clen /\ m \in clen + 1 .. clen + len - 1
    <3>1. PICK x, y : x = q[k][1] /\ y = q[m][1]
      OBVIOUS
    <3>2. x \in 1 .. size - 1 /\ t[x] = n
      BY <1>9, <1>14, <2>3, <3>1
    <3>3. y \in 1 .. size - 1 /\ y >= n /\ y # n /\ t[y] < n
      BY <1>5, <1>15, <2>3, <3>1
    <3>4. ASSUME y < x PROVE FALSE
      <4>1. t[x] >= y \/ t[x] <= t[y]
        BY <1>1, <3>2, <3>3, <3>4
      <4>2. t[y] \in Nat
        BY <1>1, <3>3
      <4>3. QED
        BY <3>2, <3>3, <4>1, <4>2
    <3>5. x # y
      BY <3>2, <3>3
    <3>6. QED
      BY <3>1, <3>2, <3>3, <3>4, <3>5
  <2>4. /\ k \in 1 .. clen \/ k \in clen + 1 .. clen + len - 1
        /\ m \in 1 .. clen \/ m \in clen + 1 .. clen + len - 1
    <3>1. \A h \in 1 .. clen + len - 1 :
             h \in 1 .. clen \/ h \in clen + 1 .. clen + len - 1
      BY <1>3, <1>10
    <3>2. QED
      BY <1>12, <3>1
  <2>5. ~(k \in clen + 1 .. clen + len - 1 /\ m \in 1 .. clen)
    BY <1>10, <1>19
  <2>6. QED
    BY <2>1, <2>2, <2>3, <2>4, <2>5
<1>20. AreFor(t, q, W)
  BY <1>12, <1>17, <1>18, <1>19 DEF AreFor, Ordered
<1>21. QED
  BY <1>1, <1>2, <1>4, <1>6, <1>7, <1>20 DEF q, c, r

\* When no call is pending all nodes have been printed.
LEMMA AllPrinted ==
    ASSUME NEW t \in Trees, NEW n \in 1 .. Size(t), AreFor(t, <<>>, Waiting(t, n))
    PROVE  n = Size(t)
<1>1. PICK size \in Nat :
         size = Size(t) /\ \A i \in 1 .. size - 1 : t[i] \in Nat /\ t[i] < i
  BY DepthFirst
<1>2. n \notin Waiting(t, n)
  BY DEF AreFor
<1>3. ~(n < size)
  BY <1>1, <1>2 DEF Waiting
<1>4. QED
  BY <1>1, <1>3

\* One more line.
LEMMA LineAppended ==
    ASSUME NEW t, NEW n \in Nat
    PROVE  /\ Lines(t, n) = <<>> <=> n = 0
           /\ Append(Lines(t, n), <<n, DepthIn(t, n)>>) = Lines(t, n + 1)
           /\ Len(Lines(t, n)) = n
<1> DEFINE line(k) == <<k - 1, DepthIn(t, k - 1)>>
           s == [k \in 1 .. n |-> line(k)]
           u == [k \in 1 .. n + 1 |-> line(k)]
<1>1. s = Lines(t, n) /\ u = Lines(t, n + 1)
  BY DEF Lines
<1>2. line(n + 1) = <<n, DepthIn(t, n)>>
  OBVIOUS
<1> HIDE DEF line
<1>3. Len(s) = n
  OBVIOUS
<1>4. s = <<>> <=> n = 0
  BY <1>3
<1>5. Append(s, line(n + 1)) = u
  OBVIOUS
<1>6. QED
  BY <1>1, <1>2, <1>3, <1>4, <1>5

-------------------------------------------------------------------------------
(* The steps of print_node *)

LEMMA InitPrintInv == Init => PrintInv
<1> SUFFICES ASSUME Init PROVE PrintInv
  OBVIOUS
<1>1. printed = Lines(tree, 0) /\ todo = <<>> /\ pc # "done"
  BY LineAppended DEF Init
<1>2. 0 \in 0 .. Size(tree)
  BY TreeSize DEF Init
<1>3. PrintedOK(tree, 0)
  BY <1>1 DEF PrintedOK
<1>4. QED
  BY <1>2, <1>3 DEF PrintInv

LEMMA PrintRootInv == D2Inv /\ PrintInv /\ PrintRoot => PrintInv'
<1> SUFFICES ASSUME D2Inv, PrintInv, PrintRoot PROVE PrintInv'
  OBVIOUS
<1>2. /\ pc = "print" /\ pc' = "print" /\ tree' = tree
      /\ printed' = <<<<nodes[0].id, 0>>>> /\ todo' = ChildrenOf(nodes[0], 0)
  BY DEF PrintRoot
<1>3. Size(tree) \in Nat /\ Size(tree) >= 1 /\ tree \in Trees
  BY TreeSize DEF D2Inv, D2TypeOK
<1>4. nodes[0] = NetNode(tree, 0) /\ nodes[0].id = 0
  <2>1. 0 \in 0 .. node_index - 1 /\ Filled(tree, nodes, node_index)
    BY <1>2, <1>3 DEF D2Inv, ArrayIsFilled
  <2>2. nodes[0] = NetNode(tree, 0)
    BY <2>1 DEF Filled
  <2>3. QED
    BY <2>2 DEF NetNode
<1>5. DepthIn(tree, 0) = 0
  BY DepthType
<1>6. printed' = Lines(tree, 1)
  <2>1. Lines(tree, 0) = <<>> /\ Append(Lines(tree, 0), <<0, DepthIn(tree, 0)>>) = Lines(tree, 0 + 1)
    BY LineAppended
  <2>2. QED
    BY <1>2, <1>4, <1>5, <2>1
<1>7. AreFor(tree, todo', Children(tree, 0))
  BY <1>2, <1>3, <1>4, <1>5, CallsForChildren
<1>8. Children(tree, 0) = Waiting(tree, 1)
  <2>1. /\ Len(tree) = Size(tree) - 1
        /\ \A i \in 1 .. Size(tree) - 1 : tree[i] \in Nat
    BY <1>3, DepthFirst
  <2>2. QED
    BY <1>3, <2>1 DEF Children, Waiting
<1>9. PrintedOK(tree, 1)'
  BY <1>2, <1>6, <1>7, <1>8 DEF PrintedOK
<1>10. 1 \in 0 .. Size(tree)'
  BY <1>2, <1>3
<1>11. QED
  BY <1>9, <1>10 DEF PrintInv

LEMMA PrintNodeInv == D2Inv /\ PrintInv /\ PrintNode => PrintInv'
<1> SUFFICES ASSUME D2Inv, PrintInv, PrintNode PROVE PrintInv'
  OBVIOUS
<1>1. PICK n \in 0 .. Size(tree) : PrintedOK(tree, n)
  BY DEF PrintInv
<1>2. Size(tree) \in Nat /\ Size(tree) >= 1 /\ tree \in Trees
  BY TreeSize DEF D2Inv, D2TypeOK
<1>3. /\ pc = "print" /\ pc' = "print" /\ tree' = tree /\ todo # <<>>
      /\ printed' = Append(printed, <<nodes[Head(todo)[1]].id, Head(todo)[2]>>)
      /\ todo' = ChildrenOf(nodes[Head(todo)[1]], Head(todo)[2]) \o Tail(todo)
  BY DEF PrintNode, Pending
<1>4. /\ n \in 1 .. Size(tree) /\ printed = Lines(tree, n)
      /\ AreFor(tree, todo, Waiting(tree, n))
  BY <1>1, <1>2, <1>3 DEF PrintedOK
<1>5. /\ n < Size(tree) /\ Head(todo)[1] = n /\ Head(todo)[2] = DepthIn(tree, n)
      /\ AreFor(tree, ChildrenOf(NetNode(tree, n), DepthIn(tree, n)) \o Tail(todo),
                Waiting(tree, n + 1))
  BY <1>2, <1>3, <1>4, NextCall
<1>6. nodes[n] = NetNode(tree, n) /\ nodes[n].id = n
  <2>1. n \in 0 .. node_index - 1 /\ Filled(tree, nodes, node_index)
    BY <1>2, <1>3, <1>5 DEF D2Inv, ArrayIsFilled
  <2>2. nodes[n] = NetNode(tree, n)
    BY <2>1 DEF Filled
  <2>3. QED
    BY <2>2 DEF NetNode
<1>7. printed' = Lines(tree, n + 1)
  BY <1>3, <1>4, <1>5, <1>6, LineAppended
<1>8. AreFor(tree, todo', Waiting(tree, n + 1))
  BY <1>3, <1>5, <1>6
<1>9. n + 1 \in 0 .. Size(tree)' /\ n + 1 > 0
  BY <1>2, <1>3, <1>4, <1>5
<1>10. PrintedOK(tree, n + 1)'
  BY <1>3, <1>7, <1>8, <1>9 DEF PrintedOK
<1>11. QED
  BY <1>9, <1>10 DEF PrintInv

LEMMA FinishInv == D2Inv /\ PrintInv /\ Finish => PrintInv'
<1> SUFFICES ASSUME D2Inv, PrintInv, Finish PROVE PrintInv'
  OBVIOUS
<1>1. PICK n \in 0 .. Size(tree) : PrintedOK(tree, n)
  BY DEF PrintInv
<1>2. Size(tree) \in Nat /\ tree \in Trees
  BY TreeSize DEF D2Inv, D2TypeOK
<1>3. /\ pc' = "done" /\ tree' = tree /\ printed' = printed /\ printed # <<>>
      /\ todo' = todo /\ todo = <<>>
  BY DEF Finish, Goto
<1>4. n # 0
  BY <1>1, <1>3, LineAppended DEF PrintedOK
<1>5. n \in 1 .. Size(tree) /\ AreFor(tree, <<>>, Waiting(tree, n))
  BY <1>1, <1>2, <1>3, <1>4 DEF PrintedOK
<1>6. n = Size(tree)
  BY <1>2, <1>5, AllPrinted
<1>7. PrintedOK(tree, n)'
  BY <1>1, <1>3, <1>6 DEF PrintedOK
<1>8. QED
  BY <1>3, <1>7 DEF PrintInv

\* All other steps print nothing.
LEMMA PrintStep_Inv == D2Inv /\ PrintInv /\ [Next]_vars => PrintInv'
<1> SUFFICES ASSUME D2Inv, PrintInv, [Next]_vars PROVE PrintInv'
  OBVIOUS
<1>1. ASSUME UNCHANGED <<tree, todo, printed>>,
             pc' = pc \/ (pc \notin {"print", "done"} /\ pc' # "done")
      PROVE  PrintInv'
  <2>1. PICK n \in 0 .. Size(tree) : PrintedOK(tree, n)
    BY DEF PrintInv
  <2>2. PrintedOK(tree, n)'
    BY <1>1, <2>1 DEF PrintedOK
  <2>3. QED
    BY <1>1, <2>1, <2>2 DEF PrintInv
<1>2. CASE Start
  BY <1>1, <1>2 DEF Start, Goto
<1>3. CASE CreateFails \/ SendFails \/ RecvFails
  BY <1>1, <1>3 DEF CreateFails, SendFails, RecvFails, Goto
<1>4. CASE SendRequest \/ RequestRefused \/ RequestLost
  BY <1>1, <1>4 DEF SendRequest, RequestRefused, RequestLost, Goto
<1>5. CASE RecvResponseSize \/ RecvOther
  BY <1>1, <1>5 DEF RecvResponseSize, RecvOther, Goto
<1>6. CASE RecvNodes
  BY <1>1, <1>6 DEF RecvNodes, Goto
<1>7. CASE Repeat
  BY <1>1, <1>7 DEF Repeat
<1>8. CASE UNCHANGED vars
  BY <1>1, <1>8 DEF vars
<1>9. QED
  BY <1>2, <1>3, <1>4, <1>5, <1>6, <1>7, <1>8, PrintRootInv, PrintNodeInv, FinishInv
  DEF Next, Program, Failures

LEMMA PrintInvHas == D2Inv /\ PrintInv => PrintsTree
<1> SUFFICES ASSUME D2Inv, PrintInv PROVE PrintsTree
  OBVIOUS
<1>1. PICK n \in 0 .. Size(tree) : PrintedOK(tree, n)
  BY DEF PrintInv
<1>2. n \in Nat
  BY TreeSize DEF D2Inv, D2TypeOK
<1>3. /\ printed = [k \in 1 .. n |-> <<k - 1, DepthIn(tree, k - 1)>>]
      /\ pc = "done" => n = Size(tree)
  BY <1>1 DEF PrintedOK, Lines
<1>4. \A i : DepthIn(tree, i) = Depth(i)
  BY DEF DepthIn, Depth
<1>5. Len(printed) = n
  BY <1>2, <1>3
<1>6. QED
  BY <1>3, <1>4, <1>5 DEF PrintsTree

\* d2_print_tree prints node after node in the order of their ids, each at its
\* depth below the root, and leaves none out: for any tree whose ids are in
\* depth-first order and any length of the packets, as long as no packet with
\* nodes is stored twice.
THEOREM PrintsTreeHolds ==
    ASSUME "repeat_nodes" \notin Faults PROVE Spec => []PrintsTree
<1>1. D2Inv /\ [Next]_vars => D2Inv'
  BY D2Step_Inv
<1>2. Init => D2Inv /\ PrintInv
  BY InitD2Inv, InitPrintInv
<1>3. D2Inv /\ PrintInv /\ [Next]_vars => (D2Inv /\ PrintInv)'
  BY <1>1, PrintStep_Inv
<1>4. QED
  BY <1>2, <1>3, PrintInvHas, PTL DEF Spec

===============================================================================
