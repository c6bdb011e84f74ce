---------------------------- MODULE MCSimulation ----------------------------
(* Two nodes online, in two processes or in one of two; and a single node.   *)
EXTENDS Simulation

Few == {<<1, 0>>, <<2, 0>>, <<4, 2>>}

\* Bounds: two runs, but three of a single node on aws, where the process without
\* one is not started.  Two nodes on aws are on two machines, are both expected, and
\* are followed up to a timeout of the master.
TwoRuns == idx < 2 /\ total > 1 /\ (plat = "aws" => total = 2 /\ probExp = exp /\ ~trouble)
ThreeRuns == /\ plat = "aws" /\ total = 1 /\ (trouble => idx < 2)
             /\ \A p \in Proc : ids(p) = {} => \A r \in Run : r <= idx /\ ctl # "start" => <<r, p>> \in launch
Bounded == TwoRuns \/ ThreeRuns
=============================================================================
