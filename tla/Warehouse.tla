------------------------------- MODULE Warehouse -------------------------------
(*****************************************************************************)
(* finnsvinn.c: three logs, of sales, deliveries and of what was counted in  *)
(* store, are read one after the other into one list of goods; what is       *)
(* missing of each ("svinn") is printed in the end.                          *)
(*                                                                           *)
(* Simplifications: strdup fails as malloc does; ferror and fclose do not    *)
(* report errors.                                                            *)
(*                                                                           *)
(* A definition named Mutant... is a plausible bug: what the definition that *)
(* follows it would be if the code were wrong.                               *)
(*****************************************************************************)
EXTENDS Integers, Sequences

CONSTANTS
    Goods,      \* names of goods
    Amounts,    \* the amounts of a record, 0 to 255 in the source
    MaxRecords  \* bound on the records of a log

ASSUME WarehouseAssumption == Amounts \subseteq 0 .. 255 /\ MaxRecords \in Nat

VARIABLES
    varer,   \* the list of goods, the first element first
    stage,   \* the log that is read, "start", "printed" or "failed"
    lest     \* history: the records read from each log

warehouseVars == <<varer, stage, lest>>

Types == {"SALG", "LEVERING", "BEHOLDNING"}

WarehouseInit ==
    /\ varer = <<>>
    /\ stage = "start"
    /\ lest = [t \in Types |-> <<>>]

\* What main does next.
AfterStage ==
    [start |-> "SALG", SALG |-> "LEVERING", LEVERING |-> "BEHOLDNING",
     BEHOLDNING |-> "printed"]

-------------------------------------------------------------------------------
\* What is counted is added up like what comes in.
MutantRegistered(v, antall, t) ==
    CASE t = "BEHOLDNING" -> [v EXCEPT !.beholdning = @ + antall]
      [] t = "LEVERING"   -> [v EXCEPT !.registrert_inn_ut = @ + antall]
      [] t = "SALG"       -> [v EXCEPT !.registrert_inn_ut = @ - antall]

Registered(v, antall, t) ==
    CASE t = "BEHOLDNING" -> [v EXCEPT !.beholdning = antall]
      [] t = "LEVERING"   -> [v EXCEPT !.registrert_inn_ut = @ + antall]
      [] t = "SALG"       -> [v EXCEPT !.registrert_inn_ut = @ - antall]

NewVare(navn) == [navn |-> navn, beholdning |-> 0, registrert_inn_ut |-> 0]

\* legg_til_vare: the first of that name is changed; a new one comes first.
LeggTilVare(navn, antall, t) ==
    LET same == {i \in DOMAIN varer : varer[i].navn = navn} IN
    varer' = IF same = {} THEN <<Registered(NewVare(navn), antall, t)>> \o varer
             ELSE [varer EXCEPT ![CHOOSE i \in same : \A j \in same : i <= j] =
                      Registered(@, antall, t)]

\* One round of les_log's loop.
ReadRecord ==
    /\ stage \in Types
    /\ Len(lest[stage]) < MaxRecords
    /\ \E navn \in Goods, antall \in Amounts :
          /\ LeggTilVare(navn, antall, stage)
          /\ lest' = [lest EXCEPT ![stage] = Append(@, [navn |-> navn, antall |-> antall])]
    /\ UNCHANGED stage

\* The end of the log, or a record that is cut short; the next log is opened,
\* or the goods are printed.
NextLog ==
    /\ stage \in DOMAIN AfterStage
    /\ stage' = AfterStage[stage]
    /\ UNCHANGED <<varer, lest>>

\* fopen or malloc fails: the list is released, nothing is printed.
Fails ==
    /\ stage \in DOMAIN AfterStage
    /\ stage' = "failed"
    /\ varer' = <<>>
    /\ UNCHANGED lest

WarehouseNext == ReadRecord \/ NextLog \/ Fails

WarehouseSpec == WarehouseInit /\ [][WarehouseNext]_warehouseVars

-------------------------------------------------------------------------------
(* Properties *)

Total(records, g) ==
    LET sum[n \in 0 .. Len(records)] ==
            IF n = 0 THEN 0
            ELSE sum[n - 1] + (IF records[n].navn = g THEN records[n].antall ELSE 0)
    IN sum[Len(records)]

Counted(records, g) ==
    LET of == {i \in DOMAIN records : records[i].navn = g} IN
    IF of = {} THEN 0 ELSE records[CHOOSE i \in of : \A j \in of : j <= i].antall

\* finnsvinn.c:47-51: what is printed of each of the goods that any log names
\* is what was delivered, less what was sold, less what was counted last; and
\* each is printed once, in whichever log it came first.
SvinnIsRight ==
    stage = "printed" =>
        \A g \in Goods :
            LET named == \E t \in Types : \E i \in DOMAIN lest[t] : lest[t][i].navn = g
                elements == {i \in DOMAIN varer : varer[i].navn = g}
            IN IF ~named THEN elements = {}
               ELSE \E i \in elements :
                       /\ elements = {i}
                       /\ varer[i].registrert_inn_ut - varer[i].beholdning =
                             Total(lest["LEVERING"], g) - Total(lest["SALG"], g)
                             - Counted(lest["BEHOLDNING"], g)

===============================================================================
