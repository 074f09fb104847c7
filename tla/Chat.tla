--------------------------------- MODULE Chat ----------------------------------
(*****************************************************************************)
(* msn.c: two peers that send each other the lines their users type, in UDP  *)
(* datagrams.  A round of the loop waits in select for a message or a line,  *)
(* at most 60 seconds, then reads the message if there is one and then the   *)
(* line if there is one, both into the same buffer.  The loop is left when   *)
(* the buffer holds "q" at the end of a round.                               *)
(*                                                                           *)
(* Simplifications: a terminal hands out one line at a time, and lines fit   *)
(* the buffer; the calls do not fail, except that a peer may fail to start;  *)
(* select times out at any time when there is nothing to read.  Datagrams    *)
(* are lost or arrive in order.                                              *)
(*                                                                           *)
(* A definition named Mutant... is a plausible bug: what the definition that *)
(* follows it would be if the code were wrong.                               *)
(*****************************************************************************)
EXTENDS Integers, Sequences

CONSTANTS
    Peers,      \* the two peers
    MaxTyped    \* bound on the lines typed at one peer

ASSUME ChatAssumption ==
    /\ \E p \in Peers : \E f \in Peers \ {p} : Peers = {p, f}
    /\ MaxTyped \in Nat

VARIABLES
    status,    \* "down", "up", or how the peer has left: "quit" and "friend"
               \* for a "q" of its own user or its friend's, "timeout",
               \* "failed"; or "hung"
    inbox,     \* the datagrams in its socket
    keyboard,  \* the lines typed that it has not read
    count,     \* how many lines have been typed
    closed,    \* its user has typed the end of the input
    ready,     \* what select has found and the round has not yet read
    buf,       \* its buffer
    missed     \* history: a "q" has not reached it, or not its loop's test

chatVars == <<status, inbox, keyboard, count, closed, ready, buf, missed>>

Friend(p) == CHOOSE f \in Peers : f # p

ChatInit ==
    /\ status = [p \in Peers |-> "down"]
    /\ inbox = [p \in Peers |-> <<>>]
    /\ keyboard = [p \in Peers |-> <<>>]
    /\ count = [p \in Peers |-> 0]
    /\ closed = [p \in Peers |-> FALSE]
    /\ ready = [p \in Peers |-> {}]
    /\ buf = [p \in Peers |-> ""]
    /\ missed = [p \in Peers |-> FALSE]

-------------------------------------------------------------------------------
(* The user and the network *)

Type(p) ==
    /\ status[p] = "up" /\ ~closed[p] /\ count[p] < MaxTyped
    /\ \E line \in {"hi", "q"} : keyboard' = [keyboard EXCEPT ![p] = Append(@, line)]
    /\ count' = [count EXCEPT ![p] = @ + 1]
    /\ UNCHANGED <<status, inbox, closed, ready, buf, missed>>

TypeEnd(p) ==
    /\ status[p] = "up" /\ ~closed[p]
    /\ closed' = [closed EXCEPT ![p] = TRUE]
    /\ UNCHANGED <<status, inbox, keyboard, count, ready, buf, missed>>

\* A datagram that select has reported is not lost any more.
Lose(p) ==
    /\ \E i \in DOMAIN inbox[p] :
          /\ ready[p] # {} => i > 1
          /\ inbox' = [inbox EXCEPT ![p] = SubSeq(@, 1, i - 1) \o SubSeq(@, i + 1, Len(@))]
          /\ missed' = [missed EXCEPT ![p] = @ \/ inbox[p][i] = "q"]
    /\ UNCHANGED <<status, keyboard, count, closed, ready, buf>>

-------------------------------------------------------------------------------
(* The program *)

\* socket and bind: datagrams that came before are gone.
PeerStarts(p) ==
    /\ status[p] = "down"
    /\ \E s \in {"up", "failed"} : status' = [status EXCEPT ![p] = s]
    /\ UNCHANGED <<inbox, keyboard, count, closed, ready, buf, missed>>

Found(p) ==
    {s \in {"net", "keyboard"} :
        \/ s = "net" /\ inbox[p] # <<>>
        \/ s = "keyboard" /\ (keyboard[p] # <<>> \/ closed[p])}

Select(p) ==
    /\ status[p] = "up" /\ ready[p] = {} /\ Found(p) # {}
    /\ ready' = [ready EXCEPT ![p] = Found(p)]
    /\ UNCHANGED <<status, inbox, keyboard, count, closed, buf, missed>>

\* select returned 0 and the loop goes on.
MutantTimeout(p) ==
    /\ status[p] = "up" /\ ready[p] = {} /\ Found(p) = {}
    /\ UNCHANGED chatVars

Timeout(p) ==
    /\ status[p] = "up" /\ ready[p] = {} /\ Found(p) = {}
    /\ status' = [status EXCEPT ![p] = "timeout"]
    /\ UNCHANGED <<inbox, keyboard, count, closed, ready, buf, missed>>

\* The buffer gets text from source, and the loop tests it if that was the
\* last thing to read in this round.
Read(p, source, text, leave) ==
    /\ source \in ready[p]
    /\ ready' = [ready EXCEPT ![p] = @ \ {source}]
    /\ buf' = [buf EXCEPT ![p] = text]
    /\ status' = [status EXCEPT ![p] =
                     IF ready[p] = {source} /\ text = "q" THEN leave ELSE @]

ReadNet(p) ==
    /\ status[p] = "up" /\ "net" \in ready[p]
    /\ Read(p, "net", Head(inbox[p]), "friend")
    /\ inbox' = [inbox EXCEPT ![p] = Tail(@)]
    /\ UNCHANGED <<keyboard, count, closed, missed>>

Listens(p) == status[p] \in {"up", "hung"}

\* What sendto leaves behind.  A "q" in the buffer is one that came in this
\* round: it is overwritten.
Send(p, text) ==
    /\ inbox' = [inbox EXCEPT ![Friend(p)] =
                    IF Listens(Friend(p)) THEN Append(@, text) ELSE @]
    /\ missed' = [q \in Peers |->
                    \/ missed[q]
                    \/ q = p /\ buf[p] = "q"
                    \/ q # p /\ text = "q" /\ ~Listens(q)]

\* The line is read before the message.
MutantReadKeyboard(p) ==
    /\ status[p] = "up" /\ "keyboard" \in ready[p]
    /\ keyboard[p] # <<>>
    /\ Read(p, "keyboard", Head(keyboard[p]), "quit")
    /\ Send(p, Head(keyboard[p]))
    /\ keyboard' = [keyboard EXCEPT ![p] = Tail(@)]
    /\ UNCHANGED <<count, closed>>

ReadKeyboard(p) ==
    /\ status[p] = "up" /\ ready[p] = {"keyboard"}
    /\ keyboard[p] # <<>>
    /\ Read(p, "keyboard", Head(keyboard[p]), "quit")
    /\ Send(p, Head(keyboard[p]))
    /\ keyboard' = [keyboard EXCEPT ![p] = Tail(@)]
    /\ UNCHANGED <<count, closed>>

\* At the end of the input get_string waits for a newline that never comes.
Hang(p) ==
    /\ status[p] = "up" /\ ready[p] = {"keyboard"}
    /\ keyboard[p] = <<>>
    /\ status' = [status EXCEPT ![p] = "hung"]
    /\ UNCHANGED <<inbox, keyboard, count, closed, ready, buf, missed>>

Peer(p) ==
    \/ PeerStarts(p) \/ Select(p) \/ Timeout(p)
    \/ ReadNet(p) \/ ReadKeyboard(p) \/ Hang(p)

ChatNext == \E p \in Peers : Peer(p) \/ Type(p) \/ TypeEnd(p) \/ Lose(p)

\* Each program runs; users type or not.
ChatFairness == \A p \in Peers : WF_chatVars(status[p] = "up" /\ Peer(p))

ChatSpec == ChatInit /\ [][ChatNext]_chatVars /\ ChatFairness

-------------------------------------------------------------------------------
(* Properties *)

\* msn.c:91: "type 'q' to quit".  A peer is sent home by its friend only if
\* the friend has left by a "q" itself.  And it waits for a timeout although
\* its friend has quit only if that "q" was lost, or came to a peer that was
\* not there, or was overwritten by a line before the loop looked at it.
EndsForAReason ==
    \A p \in Peers :
        /\ status[p] = "friend" => status[Friend(p)] = "quit"
        /\ status[p] = "timeout" /\ status[Friend(p)] = "quit" => missed[p]

\* msn.c:96 to 116: whatever is typed, sent or lost, a peer leaves its loop in
\* the end, by a "q" or after a timeout; only the end of the input can hang it.
PeersEnd ==
    \A p \in Peers :
        status[p] = "up" ~> closed[p] \/ status[p] \in {"quit", "friend", "timeout"}

===============================================================================
