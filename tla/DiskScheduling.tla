----------------------------- MODULE DiskScheduling ----------------------------
(*****************************************************************************)
(* plenum/uke9/uke9.c: the way of a disk's head over the tracks given on the *)
(* command line, by one of four algorithms.  main reads the arguments one    *)
(* place too early: the name of the algorithm counts as the track to start   *)
(* from, which atoi makes 0, and the last track is not read at all.          *)
(*                                                                           *)
(* Simplifications: tracks are numbers of the disk; malloc fails only where  *)
(* scan has an answer to it; the messages are left out.                      *)
(*                                                                           *)
(* A definition named Mutant... is a plausible bug: what the definition that *)
(* follows it would be if the code were wrong.                               *)
(*****************************************************************************)
EXTENDS Integers, Sequences, Sorting

CONSTANTS
    DISKSIZE,   \* tracks of the disk, 40 in the source
    MaxTracks   \* bound on the tracks given

ASSUME DiskAssumption == DISKSIZE \in Nat \ {0} /\ MaxTracks \in Nat \ {0}

VARIABLES
    algo,    \* the algorithm, "" before the program runs
    given,   \* the tracks on the command line
    route,   \* where the head has yet to go
    pos,     \* where it is
    dist,    \* how far it has moved
    served   \* where it has been

schedVars == <<algo, given, route, pos, dist, served>>

Tracks == 0 .. DISKSIZE - 1

SchedInit ==
    /\ algo = "" /\ given = <<>>
    /\ route = <<>> /\ pos = 0 /\ dist = 0 /\ served = <<>>

\* The first num_requests arguments as numbers, the algorithm's name included.
Requests(tracks) == SubSeq(<<0>> \o tracks, 1, Len(tracks))

\* fcfs goes through the requests as they are.
Fcfs(start, requests) == requests

\* The operands of lt's difference swapped: the highest request first.
MutantAscending(requests) ==
    CHOOSE s \in Arrangements(requests) : \A i, j \in DOMAIN s : i < j => s[i] >= s[j]

\* qsort by the difference that lt returns.
Ascending(requests) ==
    CHOOSE s \in Arrangements(requests) : \A i, j \in DOMAIN s : i < j => s[i] <= s[j]

\* How many of the first requests are below the start.
Below(start, s) ==
    CHOOSE n \in 0 .. Len(s) :
        /\ \A i \in 1 .. n : s[i] < start
        /\ n < Len(s) => s[n + 1] >= start

\* look sorts the requests and serves those from the start upwards; it does
\* not turn round.
Look(start, requests) ==
    LET s == Ascending(requests) IN SubSeq(s, Below(start, s) + 1, Len(s))

\* lookdown serves those below the start, from the highest down.
Lookdown(start, requests) ==
    LET s == Ascending(requests)  n == Below(start, s) IN [i \in 1 .. n |-> s[n + 1 - i]]

\* scan is look with both ends of the disk among the requests, or without them
\* if malloc fails.
Scan(start, requests) ==
    {Look(start, <<0, DISKSIZE - 1>> \o requests), Look(start, requests)}

Routes(a, start, requests) ==
    CASE a = "FCFS"     -> {Fcfs(start, requests)}
      [] a = "LOOK"     -> {Look(start, requests)}
      [] a = "LOOKDOWN" -> {Lookdown(start, requests)}
      [] a = "SCAN"     -> Scan(start, requests)

RunAlgorithm ==
    /\ algo = ""
    /\ algo' \in {"FCFS", "LOOK", "LOOKDOWN", "SCAN"}
    /\ given' \in UNION {[1 .. n -> Tracks] : n \in 1 .. MaxTracks}
    /\ pos' = Head(Requests(given'))
    /\ route' \in Routes(algo', pos', Tail(Requests(given')))
    /\ UNCHANGED <<dist, served>>

Way(a, b) == IF a < b THEN b - a ELSE a - b

Move ==
    /\ route # <<>>
    /\ dist' = dist + Way(pos, Head(route))
    /\ pos' = Head(route)
    /\ served' = Append(served, Head(route))
    /\ route' = Tail(route)
    /\ UNCHANGED <<algo, given>>

SchedNext == RunAlgorithm \/ Move

SchedSpec == SchedInit /\ [][SchedNext]_schedVars

-------------------------------------------------------------------------------
(* Properties *)

\* How far the head has to move from the start to serve the tracks in turn.
WayOver(start, tracks) ==
    LET way[n \in 0 .. Len(tracks)] ==
            IF n = 0 THEN 0
            ELSE way[n - 1] + Way(IF n = 1 THEN start ELSE tracks[n - 1], tracks[n])
    IN way[Len(tracks)]

\* The comment of uke9.c:8-10 is about the time the order of requests costs.
\* look never goes a longer way than needed: none of the orders in which it
\* could have served the tracks it has served is shorter from where it began.
\* Which tracks main hands to it, and from where it begins, is not said here.
LookIsShortest ==
    algo = "LOOK" /\ route = <<>> =>
        \A other \in Arrangements(served) : dist <= WayOver(Head(Requests(given)), other)

===============================================================================
