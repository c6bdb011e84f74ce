----------------------------- MODULE Connector -----------------------------
(***************************************************************************)
(* To whom a gossip node connects on the libp2p overlay                    *)
(* (simul/p2p/connector.go), and what the connections that fail cost it.   *)
(***************************************************************************)
EXTENDS Naturals

\* Mutant: the walk that comes to the end starts again behind the node.
wrapBehind(p, n) == IF p.baseID # n THEN p ELSE [p EXCEPT !.baseID = n - 1, !.firstLoop = TRUE]

\* At the end of the registry the walk goes on at its start, once.
wrap(p, n) == IF p.baseID # n THEN p
              ELSE IF p.firstLoop THEN [p EXCEPT !.panic = TRUE]
              ELSE [p EXCEPT !.baseID = 0, !.firstLoop = TRUE]

\* One turn of the loop.  A node that meets itself uses up a turn, and so does a
\* connection that fails (`fails`), after which the same neighbour is tried again.
choose(p, nodeID, n, fails) ==
    LET q == wrap(p, n)
        peer == IF q.baseID = nodeID THEN {} ELSE {q.baseID}
    IN  IF q.panic \/ (fails /\ peer # {}) THEN q
        ELSE [q EXCEPT !.connected = @ \cup peer, !.baseID = @ + 1]

\* neighbor.Connect: `max` turns; what is tried in the turns of `failing` fails.
neighborConnect(nodeID, n, max, failing) ==
    LET turn[chosen \in 0 .. max] ==
          IF chosen = 0 THEN [baseID |-> nodeID, firstLoop |-> FALSE, connected |-> {}, panic |-> FALSE]
          ELSE choose(turn[chosen - 1], nodeID, n, chosen \in failing)
    IN  turn[max]

\* The turns of node i that fail: `failing` has pairs of a node and a turn.
failingOf(i, count, failing) == {t \in 1 .. count : <<i, t>> \in failing}

\* WithConnector: all nodes connect to `count` neighbours.
Overlay(n, count, failing) ==
    [i \in 0 .. n - 1 |-> neighborConnect(i, n, count, failingOf(i, count, failing))]
=============================================================================
