------------------------------- MODULE D2Lookup --------------------------------
(*****************************************************************************)
(* d2_lookup.c with the program of d2_test_client.c: a request for the tree  *)
(* of an id, the size of the answer, the packets with the nodes, stored in   *)
(* an array in the order they arrive, and the recursion that prints the tree *)
(* taking the id of a node for its index.                                    *)
(*                                                                           *)
(* The transport is what D1Udp shows of it on a net that damages nothing:    *)
(* d1_recv_data returns the messages of the server in order, a message may   *)
(* come twice when its ACK was lost or late, -1 may be returned at any time, *)
(* and d1_send_data may report success for a request the server never gets   *)
(* (d1_udp.c:389).  Not modelled: an answer that is left out, which takes a  *)
(* packet damaged in its sequence number, acknowledged by mistake            *)
(* (d1_udp.c:233).  The server is a binary in the repository and external.   *)
(*                                                                           *)
(* Simplifications: a tree is given by the parent of each node but the root, *)
(* the value of a node is left out; malloc succeeds; a message has the size  *)
(* it says it has, and a bit of its type is the whole type.                  *)
(*                                                                           *)
(* A definition named Mutant... is a plausible bug: what the definition that *)
(* follows it would be if the code were wrong.                               *)
(*****************************************************************************)
EXTENDS Naturals, Sequences, FiniteSets

CONSTANTS
    StudentIds,   \* ids the program is started with
    MaxNodes,     \* bound on the nodes of a tree
    MaxChildren,  \* of a node: the length of child_id, 5 in the source
    PerPacket,    \* nodes in a packet that is not the last, 5 in the source
    Faults,       \* what may go wrong, a subset of FaultKinds
    MaxFaults     \* bound on how often

FaultKinds ==
    {"create_fails", "send_fails", "request_lost", "recv_fails", "repeat_size", "repeat_nodes"}

ASSUME D2Assumption ==
    /\ StudentIds \subseteq Nat
    /\ MaxNodes \in Nat \ {0} /\ MaxChildren \in Nat \ {0} /\ PerPacket \in Nat \ {0}
    /\ Faults \subseteq FaultKinds
    /\ MaxFaults \in Nat

VARIABLES
    pc,               \* where the program is
    student_id,
    tree,             \* server: the tree of the id, its ids in depth-first order
    inbox,            \* messages of the server d1_recv_data has not returned
    number_of_nodes,  \* of the LocalTreeStore
    nodes,            \* of the LocalTreeStore: the entries that have been written
    node_index,       \* the entry that is written next
    todo,             \* the pending calls of print_node: nodes and depths
    printed,          \* the lines that were printed: nodes and depths
    faults            \* how often something went wrong

store == <<number_of_nodes, nodes, node_index>>
vars == <<pc, student_id, tree, inbox, store, todo, printed, faults>>

-------------------------------------------------------------------------------
(* Trees and messages (external) *)

\* parent[i] is the parent of node i.  The ids are in depth-first order if a
\* node's parent is the node before it or an ancestor of that one.
Trees ==
    UNION {{parent \in [1 .. n - 1 -> 0 .. n - 2] :
              /\ \A i \in 1 .. n - 1 : parent[i] < i
              /\ \A i, j \in 1 .. n - 1 :
                    i < j => parent[j] >= i \/ parent[j] <= parent[i]
              /\ \A i \in 0 .. n - 1 :
                    Cardinality({j \in 1 .. n - 1 : parent[j] = i}) <= MaxChildren} :
           n \in 1 .. MaxNodes}

Size(t) == Len(t) + 1

\* The members of a set of numbers, the least first: the k-th has k - 1 of them
\* below it.
Ascending(S) ==
    [k \in 1 .. Cardinality(S) |-> CHOOSE j \in S : Cardinality({i \in S : i < j}) = k - 1]

Children(t, i) == {j \in 1 .. Len(t) : t[j] = i}

\* A NetNode on the wire has no child ids beyond the number of its children.
NetNode(t, i) == [id |-> i, child_id |-> Ascending(Children(t, i))]

Message(type, size, netnodes) == [type |-> type, size |-> size, netnodes |-> netnodes]

NodesFrom(t, first) ==
    LET count == IF first + PerPacket < Size(t) THEN PerPacket ELSE Size(t) - first
    IN Message(IF first + count < Size(t) THEN "RESPONSE" ELSE "LAST_RESPONSE", 0,
               [k \in 1 .. count |-> NetNode(t, first + k - 1)])

Answer(t) ==
    <<Message("RESPONSE_SIZE", Size(t), <<>>)>>
        \o [k \in 1 .. (Size(t) + PerPacket - 1) \div PerPacket |->
               NodesFrom(t, (k - 1) * PerPacket)]

-------------------------------------------------------------------------------
Init ==
    /\ pc = "start"
    /\ student_id \in StudentIds
    /\ tree \in Trees
    /\ inbox = <<>>
    /\ number_of_nodes = 0
    /\ nodes = <<>>
    /\ node_index = 0
    /\ todo = <<>> /\ printed = <<>>
    /\ faults = 0

\* Something of a kind goes wrong.
Fault(kind) == kind \in Faults /\ faults < MaxFaults /\ faults' = faults + 1

Goto(place) == pc' = place

\* d2_client_create, for an id the program accepts.
Start ==
    /\ pc = "start"
    /\ Goto(IF student_id < 1000 THEN "failed" ELSE "send")
    /\ UNCHANGED <<student_id, tree, inbox, store, todo, printed, faults>>

CreateFails ==
    /\ pc = "start" /\ student_id >= 1000
    /\ Fault("create_fails")
    /\ Goto("failed")
    /\ UNCHANGED <<student_id, tree, inbox, store, todo, printed>>

SendRequest ==
    /\ pc = "send" /\ student_id > 1000
    /\ inbox' = Answer(tree)
    /\ Goto("recv_size")
    /\ UNCHANGED <<student_id, tree, store, todo, printed, faults>>

\* d1_send_data fails: d2_send_request returns 0.
SendFails ==
    /\ pc = "send" /\ student_id > 1000
    /\ Fault("send_fails")
    /\ Goto("failed")
    /\ UNCHANGED <<student_id, tree, inbox, store, todo, printed>>

\* d1_send_data takes the -1 of d1_wait_ack for success: the server has nothing,
\* and the program waits for an answer.
RequestLost ==
    /\ pc = "send" /\ student_id > 1000
    /\ Fault("request_lost")
    /\ Goto("recv_size")
    /\ UNCHANGED <<student_id, tree, inbox, store, todo, printed>>

\* An id that is too low for d2_send_request makes it return -1; the program
\* tests for 0, and waits for an answer.
RequestRefused ==
    /\ pc = "send" /\ student_id <= 1000
    /\ Goto("recv_size")
    /\ UNCHANGED <<student_id, tree, inbox, store, todo, printed, faults>>

\* d1_recv_data returns the next message.
Receiving(message) ==
    /\ inbox # <<>>
    /\ message = Head(inbox)
    /\ inbox' = Tail(inbox)

\* The next message is one that has been sent again.
Repeat ==
    /\ pc \in {"recv_size", "recv_nodes"} /\ inbox # <<>>
    /\ Fault(IF Head(inbox).type = "RESPONSE_SIZE" THEN "repeat_size" ELSE "repeat_nodes")
    /\ inbox' = <<Head(inbox)>> \o inbox
    /\ UNCHANGED <<pc, student_id, tree, store, todo, printed>>

\* d2_recv_response_size and d2_alloc_local_tree.
RecvResponseSize ==
    /\ pc = "recv_size"
    /\ \E message \in {inbox[i] : i \in DOMAIN inbox} :
          /\ Receiving(message) /\ message.type = "RESPONSE_SIZE"
          /\ number_of_nodes' = message.size
    /\ Goto("recv_nodes")
    /\ UNCHANGED <<student_id, tree, nodes, node_index, todo, printed, faults>>

\* d1_recv_data returns -1.  Only the loop for the nodes tries again.
RecvFails ==
    /\ pc \in {"recv_size", "recv_nodes"}
    /\ Fault("recv_fails")
    /\ Goto(IF pc = "recv_size" THEN "failed" ELSE pc)
    /\ UNCHANGED <<student_id, tree, inbox, store, todo, printed>>

\* The caller's index is not advanced.
MutantAddToLocalTree(netnodes) ==
    LET written == node_index .. node_index + Len(netnodes) - 1 IN
    /\ nodes' = [i \in DOMAIN nodes \cup written |->
                    IF i \in written THEN netnodes[i - node_index + 1] ELSE nodes[i]]
    /\ node_index' = node_index

\* Nothing stops it at number_of_nodes.
AddToLocalTree(netnodes) ==
    LET written == node_index .. node_index + Len(netnodes) - 1 IN
    /\ nodes' = [i \in DOMAIN nodes \cup written |->
                    IF i \in written THEN netnodes[i - node_index + 1] ELSE nodes[i]]
    /\ node_index' = node_index + Len(netnodes)

\* The loop does not end with the last packet.
MutantRecvNodes ==
    /\ pc = "recv_nodes"
    /\ \E message \in {inbox[i] : i \in DOMAIN inbox} :
          /\ Receiving(message) /\ message.type \in {"RESPONSE", "LAST_RESPONSE"}
          /\ AddToLocalTree(message.netnodes)
    /\ UNCHANGED <<pc, student_id, tree, number_of_nodes, todo, printed, faults>>

\* d2_recv_response returns a packet with nodes.
RecvNodes ==
    /\ pc = "recv_nodes"
    /\ \E message \in {inbox[i] : i \in DOMAIN inbox} :
          /\ Receiving(message) /\ message.type \in {"RESPONSE", "LAST_RESPONSE"}
          /\ AddToLocalTree(message.netnodes)
          /\ Goto(IF message.type = "LAST_RESPONSE" THEN "print" ELSE pc)
    /\ UNCHANGED <<student_id, tree, number_of_nodes, todo, printed, faults>>

\* d2_recv_response returns 0, and the loop goes on.
RecvOther ==
    /\ pc = "recv_nodes"
    /\ \E message \in {inbox[i] : i \in DOMAIN inbox} :
          Receiving(message) /\ message.type = "RESPONSE_SIZE"
    /\ UNCHANGED <<pc, student_id, tree, store, todo, printed, faults>>

\* The calls of print_node for the children of a node.
ChildrenOf(node, depth) ==
    [k \in DOMAIN node.child_id |-> <<node.child_id[k], depth + 1>>]

PrintRoot ==
    /\ pc = "print" /\ printed = <<>>
    /\ printed' = <<<<nodes[0].id, 0>>>>
    /\ todo' = ChildrenOf(nodes[0], 0)
    /\ UNCHANGED <<pc, student_id, tree, inbox, store, faults>>

\* The children are printed when all that is pending has been.
MutantPending(node, depth) == Tail(todo) \o ChildrenOf(node, depth)

Pending(node, depth) == ChildrenOf(node, depth) \o Tail(todo)

PrintNode ==
    /\ pc = "print" /\ todo # <<>>
    /\ LET node == nodes[Head(todo)[1]]  depth == Head(todo)[2] IN
          /\ printed' = Append(printed, <<node.id, depth>>)
          /\ todo' = Pending(node, depth)
    /\ UNCHANGED <<pc, student_id, tree, inbox, store, faults>>

\* d2_free_local_tree and d2_client_delete.
Finish ==
    /\ pc = "print" /\ printed # <<>> /\ todo = <<>>
    /\ Goto("done")
    /\ UNCHANGED <<student_id, tree, inbox, store, todo, printed, faults>>

Program ==
    \/ Start \/ SendRequest \/ RequestRefused
    \/ RecvResponseSize \/ RecvNodes \/ RecvOther
    \/ PrintRoot \/ PrintNode \/ Finish

Failures == CreateFails \/ SendFails \/ RequestLost \/ RecvFails

Next == Program \/ Failures \/ Repeat

Spec == Init /\ [][Next]_vars

\* The program goes on as long as it does not wait for a message that has not
\* been sent.
FairSpec == Spec /\ WF_vars(Program)

-------------------------------------------------------------------------------
(* Properties *)

\* eksam/README.md: "the index of a given node corresponds to the nodes ID".
\* No entry is skipped, none is written past the nodes that were allocated,
\* and all are written when the tree is printed.
IndexIsId ==
    /\ DOMAIN nodes = 0 .. node_index - 1
    /\ \A i \in DOMAIN nodes : i < number_of_nodes /\ nodes[i].id = i
    /\ pc \in {"print", "done"} => node_index = number_of_nodes

\* The nodes above a node of a tree: those before it whose descendants reach up
\* to it.
Ancestors(t, i) == {a \in 0 .. i - 1 : \A j \in a + 1 .. i : t[j] >= a}

Depth(i) == Cardinality(Ancestors(tree, i))

\* d2_lookup.h:186-201: the nodes are printed depth first, below their
\* parents: line by line in the order of their ids, each at its depth.
PrintsTree ==
    /\ \A k \in DOMAIN printed : printed[k] = <<k - 1, Depth(k - 1)>>
    /\ pc = "done" => Len(printed) = Size(tree)

\* d2_lookup.h:65-70: an answer has an end, LAST_RESPONSE.  The program ends
\* when its request has reached the server, however often d1_recv_data fails.
RequestEnds == pc = "recv_size" /\ inbox # <<>> ~> pc \in {"done", "failed"}

===============================================================================
