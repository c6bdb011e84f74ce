---------------------------- MODULE Aggregation ----------------------------
(***************************************************************************)
(* What Handel promises its application, with no levels, packets or        *)
(* queues: a node holds a set of contributions that it may exchange for a  *)
(* larger one, never without its own, and gives the application what it    *)
(* holds when that has the required size and is more than it gave before.  *)
(***************************************************************************)
EXTENDS Naturals, FiniteSets

CONSTANTS Node,             \* the nodes that sign
          Threshold         \* the contributions the application requires

VARIABLES known,            \* per node: the contributions it holds
          given             \* per node: the contributions in its last output

Init == /\ known = [n \in Node |-> {n}]
        /\ given = [n \in Node |-> {}]

\* A larger set, which need not include the one before.
Learn(n) == /\ Cardinality(known'[n]) > Cardinality(known[n])
            /\ n \in known'[n] /\ known'[n] \subseteq Node
            /\ known' = [known EXCEPT ![n] = known'[n]]
            /\ UNCHANGED given

Give(n) == /\ given[n] # given'[n]
           /\ Cardinality(known[n]) >= Threshold
           /\ Cardinality(known[n]) > Cardinality(given[n])
           /\ given' = [given EXCEPT ![n] = known[n]]
           /\ UNCHANGED known

Next == \E n \in Node : Learn(n) \/ Give(n)

Spec == Init /\ [][Next]_<<known, given>>
=============================================================================
