------------------------------ MODULE D1Service -------------------------------
(*****************************************************************************)
(* What the D1 layer promises to the program above it while the network      *)
(* does no worse than damage packets: a send returns once the peer has       *)
(* accepted the payload, and a receive returns the peer's answer, each       *)
(* payload once and in order.  No packets, sequence numbers or ACKs.         *)
(*****************************************************************************)
EXTENDS Naturals, Sequences

CONSTANT Script   \* the calls of the program, in order: "send" and "recv"

VARIABLES
    connected,  \* whether the name of the peer has been looked up
    step,       \* the call that is next or running; it is also its payload
    accepted,   \* payloads the peer has accepted
    received    \* payloads the program has received

vars == <<connected, step, accepted, received>>

Init == connected = FALSE /\ step = 1 /\ accepted = <<>> /\ received = <<>>

Connect == ~connected /\ connected' = TRUE /\ UNCHANGED <<step, accepted, received>>

Running(op) == connected /\ step \in DOMAIN Script /\ Script[step] = op

AcceptedByPeer == \E i \in DOMAIN accepted : accepted[i] = step

Accept ==
    /\ Running("send") /\ ~AcceptedByPeer
    /\ accepted' = Append(accepted, step)
    /\ UNCHANGED <<connected, step, received>>

SendReturns ==
    /\ Running("send") /\ AcceptedByPeer
    /\ step' = step + 1
    /\ UNCHANGED <<connected, accepted, received>>

\* The answer to a payload carries its number.
RecvReturns ==
    /\ Running("recv")
    /\ received' = Append(received, accepted[Len(accepted)])
    /\ step' = step + 1
    /\ UNCHANGED <<connected, accepted>>

Exchange == Accept \/ SendReturns \/ RecvReturns

Next == Connect \/ Exchange

Spec == Init /\ [][Next]_vars /\ WF_vars(Exchange)

===============================================================================
