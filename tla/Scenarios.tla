----------------------------- MODULE Scenarios -----------------------------
(***************************************************************************)
(* The runs that the configuration generator writes                        *)
(* (simul/confgenerator), and what a run becomes on its way to Handel      *)
(* (simul/lib/config.go, config.go).  Proportions are percentages and      *)
(* durations are milliseconds; none of the products below is rounded by    *)
(* the float64 the code computes them in.                                  *)
(***************************************************************************)
EXTENDS Naturals

ceil(a, b) == (a + b - 1) \div b

\* CalcThreshold; thrF(t) is its partial application.
thrF(t, n) == ceil(n * t, 100)

getProcessF(instancePerProc, nodes) == ceil(nodes, instancePerProc)

thresholdProcessF(threshold, nodes) == IF nodes < threshold THEN nodes ELSE threshold

handel == [Period |-> 50, UpdateCount |-> 1, NodeCount |-> 10, Timeout |-> 50, Evaluator |-> "none"]

RunConfig(simulation, nodes, threshold, failing, processes, conf) ==
    [Simulation |-> simulation, Nodes |-> nodes, Threshold |-> threshold, Failing |-> failing,
     Processes |-> processes, Handel |-> conf]

baseNodes == {100, 300, 500, 1000, 1500, 2000}

-----------------------------------------------------------------------------
(* One operator per scenario: the set of its runs. *)

evaluatorScenario ==
    {RunConfig("handel", n, thrF(99, n), 0, getProcessF(2, n), [handel EXCEPT !.Evaluator = e]) :
        n \in baseNodes, e \in {"store", "equal"}}

nodeCountScenario ==
    {RunConfig("handel", n, thrF(99, n), 0, getProcessF(1, n), [handel EXCEPT !.NodeCount = c]) :
        n \in baseNodes, c \in {1, 10, 20}}

updateCountScenario ==
    {RunConfig("handel", n, thrF(99, n), 0, getProcessF(1, n), [handel EXCEPT !.UpdateCount = u]) :
        n \in baseNodes, u \in {1, 10, 20}}

practicalScenario ==
    {RunConfig("handel", n, thrF(66, n), thrF(25, n), thresholdProcessF(2000, n), handel) :
        n \in baseNodes \cup {2500, 3000, 3500, 4000}}

libp2pScenario ==
    {RunConfig("p2p/libp2p", n, thrF(t, n), 0, getProcessF(2, n), handel) :
        n \in baseNodes, t \in {51, 75, 99}}

nsquareScenario ==
    {RunConfig("p2p/udp", n, thrF(t, n), 0, getProcessF(2, n), handel) :
        n \in baseNodes, t \in {51, 75, 99}}

\* Mutant: the threshold is a share of all nodes, as in the other scenarios.
ofAliveAll(nodes, failing) == thrF(99, nodes)

\* 99% of the nodes that are alive.
ofAlive(nodes, failing) == thrF(99, nodes - failing)

periodIncScenario ==
    {RunConfig("handel", n, ofAlive(n, thrF(25, n)), thrF(25, n), getProcessF(2, n),
               [handel EXCEPT !.Period = p]) :
        n \in baseNodes, p \in {10, 20, 50, 100}}

timeoutIncScenario ==
    {RunConfig("handel", n, ofAlive(n, thrF(25, n)), thrF(25, n), getProcessF(2, n),
               [handel EXCEPT !.Timeout = t]) :
        n \in baseNodes, t \in {50, 100, 200}}

failingIncScenario ==
    {RunConfig("handel", n, thrF(50, n), thrF(f, n), getProcessF(2, n), handel) :
        n \in {2000, 3000, 4000}, f \in {1, 25, 49}}

thresholdIncScenario2 ==
    {RunConfig("handel", n, thrF(t, n), 0, getProcessF(2, n), handel) :
        n \in baseNodes, t \in {51, 75, 99}}

Generated == evaluatorScenario \cup nodeCountScenario \cup updateCountScenario
             \cup practicalScenario \cup thresholdIncScenario2 \cup failingIncScenario
             \cup nsquareScenario \cup libp2pScenario \cup timeoutIncScenario \cup periodIncScenario

-----------------------------------------------------------------------------
(* From a run to the configuration of a Handel node. *)

GetThreshold(r) == IF r.Threshold = 0 THEN r.Nodes ELSE r.Threshold

GetHandelConfig(r) == [UpdatePeriod |-> r.Handel.Period, UpdateCount |-> r.Handel.UpdateCount,
                       FastPath |-> r.Handel.NodeCount, Contributions |-> GetThreshold(r),
                       Timeout |-> r.Handel.Timeout,
                       Evaluator |-> r.Handel.Evaluator]

PercentageToContributions(perc, n) == ceil(n * perc, 100)

orDefault(value, default) == IF value = 0 THEN default ELSE value

mergeWithDefault(c, size) ==
    [c EXCEPT !.Contributions = orDefault(@, PercentageToContributions(51, size)),
              !.FastPath = orDefault(@, 10),
              !.UpdatePeriod = orDefault(@, 10),
              !.UpdateCount = orDefault(@, 1),
              !.Evaluator = IF @ = "none" THEN "store" ELSE @]
=============================================================================
