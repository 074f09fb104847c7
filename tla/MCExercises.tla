------------------------------ MODULE MCExercises ------------------------------
(* The small programs of the lectures and exercises.  They have nothing to do *)
(* with each other: a behaviour is the run of one of them.                    *)
EXTENDS RoutingTable, ArpTable, DiskScheduling, Warehouse, Pipe, Chat, TestList

VARIABLE program

\* Lines of up to four characters for buffers that take three.
MCLines == {<<>>, <<"q">>, <<"a">>, <<"a", "q">>, <<"a", "a", "a", "q">>}

MCInit ==
    /\ program \in {"cidr", "arpjob", "uke9", "finnsvinn", "pipfork", "msn", "test_list"}
    /\ Init /\ ArpInit /\ SchedInit /\ WarehouseInit /\ PipeInit /\ ChatInit /\ TestInit

Runs(p, step, others) == program = p /\ step /\ UNCHANGED <<program, others>>

MCNext ==
    \/ Runs("cidr", Next, <<arpVars, schedVars, warehouseVars, pipeVars, chatVars, testVars>>)
    \/ Runs("arpjob", ArpNext, <<vars, schedVars, warehouseVars, pipeVars, chatVars, testVars>>)
    \/ Runs("uke9", SchedNext, <<vars, arpVars, warehouseVars, pipeVars, chatVars, testVars>>)
    \/ Runs("finnsvinn", WarehouseNext, <<vars, arpVars, schedVars, pipeVars, chatVars, testVars>>)
    \/ Runs("pipfork", PipeNext, <<vars, arpVars, schedVars, warehouseVars, chatVars, testVars>>)
    \/ Runs("msn", ChatNext, <<vars, arpVars, schedVars, warehouseVars, pipeVars, testVars>>)
    \/ Runs("test_list", TestNext,
            <<vars, arpVars, schedVars, warehouseVars, pipeVars, chatVars>>)

mcVars ==
    <<program, vars, arpVars, schedVars, warehouseVars, pipeVars, chatVars, testVars>>

\* The programs with more than one process are assumed to go on.  When another
\* program runs, none of their fair steps is enabled.
MCSpec == MCInit /\ [][MCNext]_mcVars /\ PipeFairness /\ ChatFairness

===============================================================================
